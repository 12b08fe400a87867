---------------------------- MODULE MCClientMods ----------------------------
(* Two packages, and the two buttons that start an install.                *)
EXTENDS ClientMods

CONSTANTS a, b, play, update

MCPacks == {a, b}
MCOne   == {play}
MCTwo   == {play, update}
=============================================================================
