--------------------------- MODULE MCPanelRestore ---------------------------
(* Two operators; two packages, and two archives that share a name and     *)
(* need one of the packages each.                                          *)
EXTENDS PanelRestore, TLC

CONSTANTS a, b

MCBrowsers == {a, b}

(* Operators are told apart by what they send only.                        *)
Alike == Permutations(MCBrowsers)

M1 == [name |-> "m", bytes |-> 1]
M2 == [name |-> "n", bytes |-> 1]

MCPackages == {M1, M2}

MCStates ==
  {[name |-> "s", bytes |-> 1, ref |-> M1],
   [name |-> "s", bytes |-> 2, ref |-> M2]}
=============================================================================
