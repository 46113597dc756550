------------------------------ MODULE MCPlugin ------------------------------
(* An instance of Plugin for TLC: t1 has the pane p1, and t2 the panes p2    *)
(* and p3; t3 of another workspace and p4 are not born yet.                *)
EXTENDS Plugin

CONSTANTS t1, t2, t3, p1, p2, p3, p4, w1, w2

TwoWorkspaces == [t \in Tab |-> IF t = t3 THEN w2 ELSE w1]
TwoTabs      == <<t1, t2>>
FirstPanes   == [p \in Pane |-> CASE p = p1 -> t1 [] p = p4 -> Unborn [] OTHER -> t2]
TheProgram   == <<Word(1)>>
OneProgram   == {<<Word(1)>>}
OneWord      == {<<Word(9)>>}
BothOn       == {[auto |-> TRUE, number |-> TRUE]}
Fresh        == <<Digits>>
=============================================================================
