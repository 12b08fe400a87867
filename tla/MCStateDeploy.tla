--------------------------- MODULE MCStateDeploy ----------------------------
(* Small instances of StateDeploy: two players, one world directory, one   *)
(* config.                                                                  *)
EXTENDS StateDeploy

CONSTANTS p1, p2, w1, cfg

MCPlayers   == {p1, p2}
MCOnePlayer == {p1}
MCWorld     == {w1}
MCConfig   == cfg
=============================================================================
