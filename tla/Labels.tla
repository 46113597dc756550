------------------------------- MODULE Labels -------------------------------
(***************************************************************************)
(* Tab labels: src/src/numbering.rs.                                        *)
(*                                                                         *)
(* A label is a sequence of tokens, as fine as the code looks at it: "[n]", *)
(* one white-space character, a run of ASCII digits, or a word (any other   *)
(* text, which may contain brackets that do not enclose a number).          *)
(***************************************************************************)
EXTENDS Naturals, Sequences, FiniteSetsExt

Num(n)  == <<"num", n>>
Space   == <<"space", 0>>
Digits  == <<"digits", 0>>
Word(w) == <<"word", w>>

Token == {"num", "word"} \X Nat \cup {Space, Digits}
Label == Seq(Token)

IsNum(token)  == token[1] = "num"
IsText(token) == token[1] \in {"digits", "word"}

TextAt(l) == {i \in DOMAIN l : IsText(l[i])}

\* The label from its first text on.
FromText(l) == IF TextAt(l) = {} THEN <<>> ELSE SubSeq(l, Min(TextAt(l)), Len(l))

\* strip_numeric_prefix: every leading "[n]" with the white space after it; a
\* label that does not start with "[n]" is returned as it is.
Strip(l) == IF l # <<>> /\ IsNum(Head(l)) THEN FromText(l) ELSE l

\* Mutant of Numbered: the number is put in front of the last one.
NumberedAgain(position, l) ==
  <<Num(position)>> \o (IF l = <<>> THEN <<>> ELSE <<Space>> \o l)

\* Mutant of Numbered: whatever comes first is taken for the last number.
NumberedOverFirst(position, l) ==
  <<Num(position)>> \o (IF l = <<>> THEN <<>> ELSE <<Space>> \o Tail(l))

\* numbered_label
Numbered(position, l) ==
  <<Num(position)>> \o (IF Strip(l) = <<>> THEN <<>> ELSE <<Space>> \o Strip(l))

\* is_placeholder: empty, or digits only
IsPlaceholder(l) == \A i \in DOMAIN l : l[i] = Digits

\* label.trim().is_empty()
IsBlank(l) == \A i \in DOMAIN l : l[i] = Space

=============================================================================
