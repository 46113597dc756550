------------------------------ MODULE MCRunner ------------------------------
(* Instances of Runner for TLC.                                            *)
EXTENDS Runner

MCProc2 == 1 .. 2
MCProc3 == 1 .. 3

(***************************************************************************)
(* A "closed_tab" that has settled goes on like a "full", and a "renamed"   *)
(* that is not the plugin's own like a "closed_pane": three processes are   *)
(* of the other five kinds.                                                 *)
(***************************************************************************)
FiveKinds == Kind \ {"full", "closed_pane"}

FiveKindsInit == Init /\ kind \in [Proc -> FiveKinds]

FiveKindsSpec == FiveKindsInit /\ [][Next]_vars
=============================================================================
