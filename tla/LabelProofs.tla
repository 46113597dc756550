------------------------------ MODULE LabelProofs ------------------------------
(***************************************************************************)
(* What stripping and numbering do to a label of any length: the text in it *)
(* stays, and is read back.                                                 *)
(***************************************************************************)
EXTENDS Labels, SelectionProofs, SequenceTheorems

(***************************************************************************)
(* Of the places of text in a label, if there are any, Min is the first.    *)
(***************************************************************************)
LEMMA FirstText ==
  ASSUME NEW l \in Label, TextAt(l) # {}
  PROVE  /\ Min(TextAt(l)) \in DOMAIN l
         /\ IsText(l[Min(TextAt(l))])
         /\ \A i \in DOMAIN l : i < Min(TextAt(l)) => ~IsText(l[i])
<1>1. TextAt(l) \in SUBSET Nat /\ TextAt(l) \in SUBSET (DOMAIN l)
  BY DEF TextAt, Label
<1>2. \E m \in TextAt(l) : \A k \in TextAt(l) : m <= k
  BY <1>1, LeastNat
<1> DEFINE m == Min(TextAt(l))
<1>3. m \in TextAt(l) /\ \A k \in TextAt(l) : m <= k
  BY <1>2 DEF Min
<1> HIDE DEF m
<1>4. m \in DOMAIN l /\ IsText(l[m])
  BY <1>3 DEF TextAt
<1>5. ASSUME NEW i \in DOMAIN l, i < m PROVE ~IsText(l[i])
  <2>1. i \notin TextAt(l)
    <3>1. ASSUME i \in TextAt(l) PROVE FALSE
      <4>1. m <= i /\ m \in Nat /\ i \in Nat
        BY <3>1, <1>3, <1>1
      <4> QED BY <4>1, <1>5
    <3> QED BY <3>1
  <2> QED BY <2>1 DEF TextAt
<1> QED BY <1>4, <1>5 DEF m

(***************************************************************************)
(* FromText cuts at the one place with text and no text before it.          *)
(***************************************************************************)
LEMMA FromTextAt ==
  ASSUME NEW l \in Label, NEW m \in DOMAIN l, IsText(l[m]),
         \A i \in DOMAIN l : i < m => ~IsText(l[i])
  PROVE  FromText(l) = SubSeq(l, m, Len(l))
<1>1. m \in TextAt(l)
  BY DEF TextAt
<1> DEFINE f == Min(TextAt(l))
<1>2. f \in DOMAIN l /\ IsText(l[f]) /\ \A i \in DOMAIN l : i < f => ~IsText(l[i])
  BY <1>1, FirstText
<1> HIDE DEF f
<1>3. f \in Nat /\ m \in Nat
  BY <1>2 DEF Label
<1>4. f = m
  BY <1>2, <1>3
<1> QED BY <1>1, <1>4 DEF FromText, f

(***************************************************************************)
(* A label without text has no text to cut from.                            *)
(***************************************************************************)
LEMMA WithoutText ==
  ASSUME NEW l \in Label
  PROVE  FromText(l) = <<>> <=> \A i \in DOMAIN l : ~IsText(l[i])
<1>1. CASE TextAt(l) = {}
  <2>1. \A i \in DOMAIN l : ~IsText(l[i])
    BY <1>1 DEF TextAt
  <2> QED BY <1>1, <2>1 DEF FromText
<1>2. CASE TextAt(l) # {}
  <2> DEFINE f == Min(TextAt(l))
  <2>1. f \in DOMAIN l /\ IsText(l[f])
    BY <1>2, FirstText
  <2>2. FromText(l) = SubSeq(l, f, Len(l))
    BY <1>2 DEF FromText
  <2> HIDE DEF f
  <2>3. FromText(l) # <<>>
    BY <2>1, <2>2 DEF Label
  <2> QED BY <2>1, <2>3
<1> QED BY <1>1, <1>2

(***************************************************************************)
(* What FromText returns is a label, and begins with text unless it is      *)
(* empty.                                                                   *)
(***************************************************************************)
LEMMA FromTextType ==
  ASSUME NEW l \in Label
  PROVE  /\ FromText(l) \in Label
         /\ FromText(l) # <<>> => 1 \in DOMAIN FromText(l) /\ IsText(FromText(l)[1])
<1>1. CASE TextAt(l) = {}
  BY <1>1 DEF FromText, Label
<1>2. CASE TextAt(l) # {}
  <2> DEFINE f == Min(TextAt(l))
  <2>1. f \in DOMAIN l /\ IsText(l[f])
    BY <1>2, FirstText
  <2>2. FromText(l) = SubSeq(l, f, Len(l))
    BY <1>2 DEF FromText
  <2> HIDE DEF f
  <2>3. FromText(l) \in Label /\ 1 \in DOMAIN FromText(l) /\ FromText(l)[1] = l[f]
    BY <2>1, <2>2 DEF Label
  <2> QED BY <2>1, <2>3
<1> QED BY <1>1, <1>2

(***************************************************************************)
(* A label that begins with text is all text.                               *)
(***************************************************************************)
LEMMA TextFirst ==
  ASSUME NEW l \in Label, l = <<>> \/ IsText(l[1])
  PROVE  FromText(l) = l
<1>1. CASE l = <<>>
  BY <1>1, WithoutText
<1>2. CASE l # <<>>
  <2>1. 1 \in DOMAIN l /\ \A i \in DOMAIN l : ~(i < 1)
    BY <1>2 DEF Label
  <2>2. FromText(l) = SubSeq(l, 1, Len(l))
    BY <2>1, <1>2, FromTextAt
  <2>3. SubSeq(l, 1, Len(l)) = l
    BY DEF Label
  <2> QED BY <2>2, <2>3
<1> QED BY <1>1, <1>2

(***************************************************************************)
(* Cutting twice is cutting once.                                           *)
(***************************************************************************)
LEMMA FromTextIdempotent ==
  ASSUME NEW l \in Label
  PROVE  FromText(FromText(l)) = FromText(l)
BY FromTextType, TextFirst

(***************************************************************************)
(* A first token that is no text can be cut off, or put in front.           *)
(***************************************************************************)
LEMMA FromTextTail ==
  ASSUME NEW l \in Label, l # <<>>, ~IsText(l[1])
  PROVE  Tail(l) \in Label /\ FromText(Tail(l)) = FromText(l)
<1>1. /\ Tail(l) \in Label /\ Len(Tail(l)) = Len(l) - 1 /\ Len(l) \in Nat \ {0}
      /\ \A i \in DOMAIN Tail(l) : i + 1 \in DOMAIN l /\ Tail(l)[i] = l[i + 1]
  BY DEF Label
<1>2. CASE TextAt(l) = {}
  <2>1. \A i \in DOMAIN l : ~IsText(l[i])
    BY <1>2 DEF TextAt
  <2>2. \A i \in DOMAIN Tail(l) : ~IsText(Tail(l)[i])
    BY <1>1, <2>1
  <2>3. FromText(l) = <<>> /\ FromText(Tail(l)) = <<>>
    BY <1>1, <2>1, <2>2, WithoutText
  <2> QED BY <1>1, <2>3
<1>3. CASE TextAt(l) # {}
  <2> DEFINE f == Min(TextAt(l))
  <2>1. f \in DOMAIN l /\ IsText(l[f]) /\ \A i \in DOMAIN l : i < f => ~IsText(l[i])
    BY <1>3, FirstText
  <2>2. FromText(l) = SubSeq(l, f, Len(l))
    BY <1>3 DEF FromText
  <2> HIDE DEF f
  <2>3. f # 1 /\ f \in 1 .. Len(l)
    BY <2>1 DEF Label
  <2>4. f - 1 \in DOMAIN Tail(l) /\ f - 1 + 1 = f
    BY <1>1, <2>3 DEF Label
  <2>5. IsText(Tail(l)[f - 1])
    BY <1>1, <2>1, <2>4
  <2>6. \A i \in DOMAIN Tail(l) : i < f - 1 => ~IsText(Tail(l)[i])
    <3> SUFFICES ASSUME NEW i \in DOMAIN Tail(l), i < f - 1 PROVE ~IsText(Tail(l)[i])
      OBVIOUS
    <3>1. i + 1 < f /\ i + 1 \in DOMAIN l
      BY <1>1, <2>3 DEF Label
    <3> QED BY <3>1, <2>1, <1>1
  <2>7. FromText(Tail(l)) = SubSeq(Tail(l), f - 1, Len(Tail(l)))
    BY <1>1, <2>4, <2>5, <2>6, FromTextAt
  <2>8. SubSeq(Tail(l), f - 1, Len(Tail(l))) = SubSeq(l, f, Len(l))
    BY <2>3 DEF Label
  <2> QED BY <1>1, <2>2, <2>7, <2>8
<1> QED BY <1>2, <1>3

LEMMA FromTextCons ==
  ASSUME NEW l \in Label, NEW x \in Token, ~IsText(x)
  PROVE  <<x>> \o l \in Label /\ FromText(<<x>> \o l) = FromText(l)
<1> DEFINE c == <<x>> \o l
<1>1. c \in Label /\ c # <<>> /\ c[1] = x /\ Tail(c) = l
  BY DEF Label
<1> HIDE DEF c
<1>2. FromText(Tail(c)) = FromText(c)
  BY <1>1, FromTextTail
<1> QED BY <1>1, <1>2 DEF c

-----------------------------------------------------------------------------
(* Tokens *)

LEMMA TokenKinds ==
  /\ Space \in Token /\ ~IsText(Space) /\ ~IsNum(Space)
  /\ IsText(Digits) /\ Digits # Space
  /\ \A n \in Nat : Num(n) \in Token /\ ~IsText(Num(n)) /\ IsNum(Num(n))
  /\ \A token : IsText(token) => ~IsNum(token) /\ token # Space
BY DEF Token, Space, Digits, Num, IsText, IsNum

-----------------------------------------------------------------------------
(* Stripping and numbering *)

(***************************************************************************)
(* strip_numeric_prefix keeps the text.                                     *)
(***************************************************************************)
LEMMA StripKeepsText ==
  ASSUME NEW l \in Label
  PROVE  Strip(l) \in Label /\ FromText(Strip(l)) = FromText(l)
BY FromTextType, FromTextIdempotent DEF Strip

(***************************************************************************)
(* What is all text is not stripped.                                        *)
(***************************************************************************)
LEMMA StripOfText ==
  ASSUME NEW l \in Label, FromText(l) = l
  PROVE  Strip(l) = l
BY DEF Strip

(***************************************************************************)
(* numbered_label keeps the text too, and strip_numeric_prefix reads it     *)
(* back, whatever the position.                                             *)
(***************************************************************************)
LEMMA NumberedKeepsText ==
  ASSUME NEW l \in Label, NEW n \in Nat
  PROVE  /\ Numbered(n, l) \in Label
         /\ FromText(Numbered(n, l)) = FromText(l)
         /\ Strip(Numbered(n, l)) = FromText(l)
<1> DEFINE r == IF Strip(l) = <<>> THEN <<>> ELSE <<Space>> \o Strip(l)
<1>1. Strip(l) \in Label /\ FromText(Strip(l)) = FromText(l)
  BY StripKeepsText
<1>2. r \in Label /\ FromText(r) = FromText(l)
  <2>1. CASE Strip(l) = <<>>
    BY <2>1, <1>1
  <2>2. CASE Strip(l) # <<>>
    BY <2>2, <1>1, TokenKinds, FromTextCons
  <2> QED BY <2>1, <2>2
<1>3. Numbered(n, l) = <<Num(n)>> \o r
  BY DEF Numbered
<1> HIDE DEF r
<1>4. Numbered(n, l) \in Label /\ FromText(Numbered(n, l)) = FromText(l)
  BY <1>2, <1>3, TokenKinds, FromTextCons
<1>5. Numbered(n, l) # <<>> /\ Head(Numbered(n, l)) = Num(n)
  BY <1>2, <1>3 DEF Label
<1>6. Strip(Numbered(n, l)) = FromText(Numbered(n, l))
  BY <1>5, TokenKinds DEF Strip
<1> QED BY <1>4, <1>6

(***************************************************************************)
(* A label with text is not blank, and does not become blank when stripped. *)
(***************************************************************************)
LEMMA TextIsNotBlank ==
  ASSUME NEW l \in Label, FromText(l) # <<>>
  PROVE  ~IsBlank(l) /\ ~IsBlank(Strip(l))
<1>1. ASSUME NEW m \in Label, FromText(m) # <<>> PROVE ~IsBlank(m)
  <2>1. PICK i \in DOMAIN m : IsText(m[i])
    BY <1>1, WithoutText
  <2> QED BY <2>1, TokenKinds DEF IsBlank
<1> QED BY <1>1, StripKeepsText

(***************************************************************************)
(* What is a placeholder once stripped has no text but digits.              *)
(***************************************************************************)
LEMMA PlaceholderText ==
  ASSUME NEW l \in Label, IsPlaceholder(Strip(l))
  PROVE  IsPlaceholder(FromText(l))
<1>1. Strip(l) \in Label /\ FromText(Strip(l)) = FromText(l)
  BY StripKeepsText
<1>2. Strip(l) = <<>> \/ IsText(Strip(l)[1])
  BY <1>1, TokenKinds DEF IsPlaceholder, Label
<1>3. FromText(Strip(l)) = Strip(l)
  BY <1>1, <1>2, TextFirst
<1> QED BY <1>1, <1>3
=============================================================================
