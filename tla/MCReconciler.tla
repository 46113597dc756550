---------------------------- MODULE MCReconciler ----------------------------
(* Instances of Reconciler for TLC.                                        *)
EXTENDS Reconciler

CONSTANTS t1, t2, p1, p2, w1

OneWorkspace  == [t \in Tab |-> w1]
OneTab        == <<t1>>
NewPane       == [p \in Pane |-> IF p = p2 THEN Unborn ELSE t1]
OnePane       == [p \in Pane |-> t1]

\* Names of programs, and names of the user that no program has.
OneProgram  == {<<Word(1)>>}
IdleOrOne   == {<<Word(1)>>, <<>>}     \* an idle shell may have an empty name
OneWord     == {<<Word(9)>>}
\* a word, a blank, a number prefix of the user's own, a leading blank, a number
AnyTyped    == {<<Word(9)>>, <<Space>>, <<Num(7), Space, Word(9)>>, <<Space, Word(9)>>, <<Digits>>}
BothOn      == {[auto |-> TRUE, number |-> TRUE]}
AnySettings == [auto : BOOLEAN, number : BOOLEAN]
Fresh       == <<Digits>>
=============================================================================
