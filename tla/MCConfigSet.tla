---------------------------- MODULE MCConfigSet -----------------------------
(* Two processes, two settings with two values each.                       *)
EXTENDS ConfigSet, TLC

CONSTANTS a, b

MCProcs  == {a, b}
MCKeys   == {"difficulty", "maxPlayers"}
MCValues == {0, 1}
=============================================================================
