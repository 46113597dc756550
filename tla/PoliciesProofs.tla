---------------------------- MODULE PoliciesProofs ----------------------------
(***************************************************************************)
(* Proofs about Policies: for labels of any length, groups of any number of *)
(* processes, and any shells, ignored programs and aliases.                 *)
(***************************************************************************)
EXTENDS Policies, LabelProofs

-----------------------------------------------------------------------------
(* The loop of strip_numeric_prefix *)

\* What precedes the text may be cut off.
LEMMA FromTextSuffix ==
  ASSUME NEW l \in Label, NEW m \in DOMAIN l,
         \A i \in DOMAIN l : i < m => ~IsText(l[i])
  PROVE  SubSeq(l, m, Len(l)) \in Label /\ FromText(SubSeq(l, m, Len(l))) = FromText(l)
<1> DEFINE r == SubSeq(l, m, Len(l))
<1>1. /\ m \in 1 .. Len(l) /\ Len(l) \in Nat
      /\ r \in Label /\ Len(r) = Len(l) - m + 1 /\ DOMAIN r = 1 .. Len(r)
      /\ \A i \in DOMAIN r : r[i] = l[i + m - 1] /\ i + m - 1 \in DOMAIN l
  BY DEF Label
<1>2. CASE TextAt(l) = {}
  <2>1. \A i \in DOMAIN l : ~IsText(l[i])
    BY <1>2 DEF TextAt
  <2>2. \A i \in DOMAIN r : ~IsText(r[i])
    BY <2>1, <1>1
  <2>3. FromText(l) = <<>> /\ FromText(r) = <<>>
    BY <2>1, <2>2, <1>1, WithoutText
  <2> QED BY <1>1, <2>3
<1>3. CASE TextAt(l) # {}
  <2> DEFINE f == Min(TextAt(l))
  <2>1. f \in DOMAIN l /\ IsText(l[f]) /\ \A i \in DOMAIN l : i < f => ~IsText(l[i])
    BY <1>3, FirstText
  <2>2. FromText(l) = SubSeq(l, f, Len(l))
    BY <1>3 DEF FromText
  <2> HIDE DEF f
  <2>3. f \in m .. Len(l)
    BY <2>1, <1>1 DEF Label
  <2>4. f - m + 1 \in DOMAIN r /\ r[f - m + 1] = l[f]
    <3>1. f - m + 1 \in 1 .. Len(r) /\ (f - m + 1) + m - 1 = f
      BY <1>1, <2>3
    <3> QED BY <3>1, <1>1
  <2>5. \A i \in DOMAIN r : i < f - m + 1 => ~IsText(r[i])
    <3> SUFFICES ASSUME NEW i \in DOMAIN r, i < f - m + 1 PROVE ~IsText(r[i])
      OBVIOUS
    <3>1. i + m - 1 < f
      BY <1>1, <2>3
    <3> QED BY <3>1, <1>1, <2>1
  <2> HIDE DEF r
  <2>6. FromText(r) = SubSeq(r, f - m + 1, Len(r))
    BY <1>1, <2>1, <2>4, <2>5, FromTextAt
  <2>7. SubSeq(r, f - m + 1, Len(r)) = SubSeq(l, f, Len(l))
    <3> DEFINE n == Len(l)
               a == f - m + 1
               u == SubSeq(r, a, Len(r))
               v == SubSeq(l, f, n)
    <3>1. n \in Nat /\ m \in 1 .. n /\ f \in m .. n /\ Len(r) = n - m + 1
      BY <1>1, <2>3
    <3>2. \A i \in 1 .. n : l[i] \in Token
      BY DEF Label
    <3> HIDE DEF n
    <3>3. \A i \in 1 .. Len(r) : r[i] = l[i + m - 1] /\ i + m - 1 \in 1 .. n
      BY <1>1 DEF Label, n
    <3>4. u \in Seq(Token) /\ Len(u) = n - f + 1 /\ \A i \in 1 .. n - f + 1 : u[i] = r[a + i - 1]
      <4>1. a \in Int /\ Len(r) \in Int /\ Len(r) - a = n - f /\ a \in 1 .. Len(r)
        BY <3>1
      <4>2. \A i \in a .. Len(r) : r[i] \in Token
        BY <3>2, <3>3, <4>1
      <4> HIDE DEF a
      <4>3. /\ u \in Seq(Token) /\ Len(u) = IF a <= Len(r) THEN Len(r) - a + 1 ELSE 0
            /\ \A i \in 1 .. Len(r) - a + 1 : u[i] = r[a + i - 1]
        BY <4>1, <4>2, SubSeqProperties
      <4> QED BY <4>1, <4>3, <3>1
    <3>5. v \in Seq(Token) /\ Len(v) = n - f + 1 /\ \A i \in 1 .. n - f + 1 : v[i] = l[f + i - 1]
      <4>1. f \in Int /\ n \in Int /\ f <= n /\ \A i \in f .. n : l[i] \in Token
        BY <3>1, <3>2
      <4> QED BY <4>1, SubSeqProperties
    <3>6. ASSUME NEW i \in 1 .. n - f + 1 PROVE u[i] = v[i]
      <4>1. a + i - 1 \in 1 .. Len(r) /\ (a + i - 1) + m - 1 = f + i - 1
        BY <3>1
      <4> QED BY <4>1, <3>3, <3>4, <3>5
    <3> HIDE DEF u, v
    <3>7. u = v
      BY <3>4, <3>5, <3>6, SeqEqual
    <3> QED BY <3>7 DEF u, v, n
  <2> QED BY <1>1, <2>2, <2>6, <2>7 DEF r
<1> QED BY <1>2, <1>3

\* trim_start_matches keeps the text.
LEMMA TrimStartKeepsText ==
  ASSUME NEW l \in Label
  PROVE  TrimStart(l) \in Label /\ FromText(TrimStart(l)) = FromText(l)
<1> DEFINE kept == {i \in DOMAIN l : l[i] # Space}
<1>1. CASE kept = {}
  <2>1. \A i \in DOMAIN l : ~IsText(l[i])
    BY <1>1, TokenKinds
  <2>2. TrimStart(l) = <<>>
    BY <1>1 DEF TrimStart
  <2>3. <<>> \in Label /\ \A i \in DOMAIN <<>> : FALSE
    BY DEF Label
  <2>4. FromText(l) = <<>> /\ FromText(<<>>) = <<>>
    BY <2>1, <2>3, WithoutText
  <2> QED BY <2>2, <2>3, <2>4
<1>2. CASE kept # {}
  <2> DEFINE m == Min(kept)
  <2>1. kept \in SUBSET Nat
    BY DEF Label
  <2>2. \E k \in kept : \A j \in kept : k <= j
    BY <1>2, <2>1, LeastNat
  <2>3. m \in kept /\ \A j \in kept : m <= j
    BY <2>2 DEF Min
  <2>4. TrimStart(l) = SubSeq(l, m, Len(l))
    BY <1>2 DEF TrimStart
  <2> HIDE DEF m
  <2>5. \A i \in DOMAIN l : i < m => ~IsText(l[i])
    <3> SUFFICES ASSUME NEW i \in DOMAIN l, i < m PROVE ~IsText(l[i])
      OBVIOUS
    <3>1. i \in Nat /\ m \in Nat
      BY <2>1, <2>3 DEF Label
    <3>2. ~(m <= i)
      BY <3>1
    <3>3. l[i] = Space
      BY <3>2, <2>3
    <3> QED BY <3>3, TokenKinds
  <2> QED BY <2>3, <2>4, <2>5, FromTextSuffix
<1> QED BY <1>1, <1>2

-----------------------------------------------------------------------------
(* The inductive invariant *)

LoopInv ==
  /\ input \in Label /\ rest \in Label
  /\ FromText(rest) = FromText(input)
  /\ observed = <<>> \/ \E o \in Observations : observed = <<o>>

LEMMA LoopInvInit == Init => LoopInv
<1> SUFFICES ASSUME Init PROVE LoopInv
  OBVIOUS
<1>1. CASE input \in Inputs /\ observed = <<>>
  BY <1>1, PoliciesAssumption DEF Init, LoopInv
<1>2. CASE input = <<>> /\ \E o \in Observations : observed = <<o>>
  <2>1. <<>> \in Label
    BY DEF Label
  <2> QED BY <1>2, <2>1 DEF Init, LoopInv
<1> QED BY <1>1, <1>2 DEF Init

LEMMA LoopInvNext == LoopInv /\ [Next]_vars => LoopInv'
<1> SUFFICES ASSUME LoopInv, [Next]_vars PROVE LoopInv'
  OBVIOUS
<1>1. CASE Iterate
  <2>1. rest # <<>> /\ IsNum(Head(rest)) /\ rest' = TrimStart(Tail(rest))
        /\ UNCHANGED <<input, observed>>
    BY <1>1 DEF Iterate, HasPrefix
  <2>2. rest \in Label /\ FromText(rest) = FromText(input)
    BY DEF LoopInv
  <2>3. rest[1] = Head(rest) /\ ~IsText(rest[1])
    BY <2>1, <2>2, TokenKinds DEF Label
  <2>4. Tail(rest) \in Label /\ FromText(Tail(rest)) = FromText(rest)
    BY <2>1, <2>2, <2>3, FromTextTail
  <2>5. TrimStart(Tail(rest)) \in Label
        /\ FromText(TrimStart(Tail(rest))) = FromText(Tail(rest))
    BY <2>4, TrimStartKeepsText
  <2> QED BY <2>1, <2>2, <2>4, <2>5 DEF LoopInv
<1>2. CASE Return
  BY <1>2 DEF Return, vars, LoopInv
<1>3. CASE UNCHANGED vars
  BY <1>3 DEF vars, LoopInv
<1> QED BY <1>1, <1>2, <1>3 DEF Next

LEMMA LoopInvAlways == Spec => []LoopInv
BY LoopInvInit, LoopInvNext, PTL DEF Spec

(***************************************************************************)
(* No text of the user is lost, however long the label and however many     *)
(* numbers and white space come first: strip_numeric_prefix and             *)
(* numbered_label.                                                          *)
(***************************************************************************)
THEOREM TextIsKept == Spec => []TextKept
<1>1. LoopInv => TextKept
  BY NumberedKeepsText DEF LoopInv, TextKept
<1> QED BY <1>1, LoopInvAlways, PTL

-----------------------------------------------------------------------------
(* Numbering *)

\* A label without a number prefix that does not begin with white space is text.
LEMMA BaseIsText ==
  ASSUME NEW l \in Label, Strip(l) = <<>> \/ Head(Strip(l)) # Space
  PROVE  Strip(l) = FromText(l)
<1>1. CASE l # <<>> /\ IsNum(Head(l))
  BY <1>1 DEF Strip
<1>2. CASE l = <<>>
  BY <1>2, WithoutText DEF Strip
<1>3. CASE l # <<>> /\ ~IsNum(Head(l))
  <2>1. Strip(l) = l /\ Head(l) \in Token /\ Head(l) = l[1]
    BY <1>3 DEF Strip, Label
  <2>2. IsText(l[1])
    BY <2>1, <1>3 DEF Token, IsText, IsNum, Digits, Space
  <2> QED BY <2>1, <2>2, TextFirst
<1> QED BY <1>1, <1>2, <1>3

(***************************************************************************)
(* Numbering settles for labels of any length: numbered_label.              *)
(***************************************************************************)
THEOREM NumberingDoesSettle == Spec => []NumberingSettles
<1>1. LoopInv => NumberingSettles
  <2> SUFFICES ASSUME LoopInv PROVE NumberingSettles
    OBVIOUS
  <2> DEFINE once  == Numbered(1, input)
             twice == Numbered(1, once)
             text  == FromText(input)
             tail  == IF text = <<>> THEN <<>> ELSE <<Space>> \o text
  <2>1. input \in Label
    BY DEF LoopInv
  <2>2. once \in Label /\ Strip(once) = text /\ FromText(once) = text /\ text \in Label
    BY <2>1, NumberedKeepsText, FromTextType
  <2>3. twice \in Label /\ Strip(twice) = text
    BY <2>2, NumberedKeepsText
  <2>4. twice = <<Num(1)>> \o tail /\ Numbered(1, twice) = <<Num(1)>> \o tail
        /\ Numbered(2, twice) = <<Num(2)>> \o tail
    BY <2>2, <2>3 DEF Numbered
  <2>5. tail \in Seq(Token)
    BY <2>2, TokenKinds DEF Label
  <2> HIDE DEF tail
  <2>6. Tail(<<Num(1)>> \o tail) = tail
    BY <2>5
  <2>7. Strip(input) = <<>> \/ Head(Strip(input)) # Space => once = <<Num(1)>> \o tail
    BY <2>1, BaseIsText DEF Numbered, tail
  <2> HIDE DEF once, twice
  <2>8. /\ Numbered(1, twice) = twice
        /\ Strip(input) = <<>> \/ Head(Strip(input)) # Space => once = twice
        /\ Numbered(2, twice) = <<Num(2)>> \o Tail(twice)
    BY <2>4, <2>6, <2>7
  <2> QED BY <2>8 DEF NumberingSettles, once, twice
<1> QED BY <1>1, LoopInvAlways, PTL

-----------------------------------------------------------------------------
(* Panes *)

\* The pane that names a tab is one of its panes, and in a tab of several panes the
\* one of the event or the focused one.
LEMMA NamingPaneOwn ==
  ASSUME NEW o, NamingPane(o) # NoPane
  PROVE  /\ NamingPane(o) \in o.own
         /\ o.kind = "focus" => NamingPane(o) = o.pane
         /\ o.kind # "focus" /\ Multi(o) => o.front /\ o.focused \in o.own
BY DEF NamingPane

(***************************************************************************)
(* A tab is named after one of its own panes, whatever panes there are and  *)
(* wherever the focus is: targeting.rs and computed_name.                   *)
(***************************************************************************)
THEOREM NamedByItsOwnPane == Spec => []NamedByOwnPane
<1>1. LoopInv => NamedByOwnPane
  <2> SUFFICES ASSUME LoopInv, NEW n \in DOMAIN observed, NameOf(observed[n]) # NoName
               PROVE  LET o == observed[n]
                      IN  /\ {SelectedPane(o), ProcessPane(o)} \subseteq o.own \cup {NoPane}
                          /\ Multi(o) => \/ SelectedPane(o) = o.pane /\ o.kind \notin {"other"}
                                         \/ o.front /\ o.focused \in o.own
    BY DEF NamedByOwnPane
  <2> DEFINE o == observed[n]
  <2>1. o \in Observations
    BY DEF LoopInv
  <2>2. NoPane \notin o.labelled
    BY <2>1, PoliciesAssumption
  <2> HIDE DEF o
  <2>3. SelectedPane(o) \in o.own \cup {NoPane} /\ ProcessPane(o) \in o.own \cup {NoPane}
    BY NamingPaneOwn DEF SelectedPane, ProcessPane, FromOwnShell
  <2>4. SelectedPane(o) # NoPane \/ ProcessPane(o) # NoPane
    BY <2>2 DEF NameOf, NamedByPaneLabel, o
  <2>5. ASSUME Multi(o)
        PROVE  \/ SelectedPane(o) = o.pane /\ o.kind \notin {"other"}
               \/ o.front /\ o.focused \in o.own
    <3>1. CASE FromOwnShell(o)
      BY <3>1 DEF SelectedPane, FromOwnShell
    <3>2. CASE ~FromOwnShell(o)
      <4>1. SelectedPane(o) = NamingPane(o) /\ NamingPane(o) # NoPane
        BY <2>4, <3>2 DEF SelectedPane, ProcessPane
      <4> QED BY <4>1, <2>5, NamingPaneOwn
    <3> QED BY <3>1, <3>2
  <2> QED BY <2>3, <2>5 DEF o
<1> QED BY <1>1, LoopInvAlways, PTL

-----------------------------------------------------------------------------
(* Processes *)

\* First finds a place if there is one, and none before it.
LEMMA FirstPlaceOf ==
  ASSUME NEW S, S \subseteq Nat \ {0}
  PROVE  /\ First(S) = 0 <=> S = {}
         /\ S # {} => First(S) \in S /\ \A i \in S : First(S) <= i
<1>1. CASE S = {}
  BY <1>1 DEF First
<1>2. CASE S # {}
  <2>1. \E m \in S : \A i \in S : m <= i
    BY <1>2, LeastNat
  <2>2. Min(S) \in S /\ \A i \in S : Min(S) <= i
    BY <2>1 DEF Min
  <2>3. First(S) = Min(S) /\ Min(S) # 0
    BY <1>2, <2>2 DEF First
  <2> QED BY <1>2, <2>2, <2>3
<1> QED BY <1>1, <1>2

\* What each of the five searches looks for.
Candidates(g, agent) ==
  LET all == DOMAIN g.procs
  IN  << {i \in all : IsPreferred(g, agent, i)},
         {i \in all : IsLaunched(g, i)},
         {i \in all : i = Leader(g) /\ IsOrdinary(g, i)},
         {i \in all : i # Leader(g) /\ IsOrdinary(g, i)},
         {i \in all : i = Leader(g) /\ IsShell(ProgramOf(g.procs[i]))} >>

\* A process is of the rank of the first search that would accept it.
LEMMA RankIsFirstSearch ==
  ASSUME NEW g, NEW agent, NEW i \in DOMAIN g.procs
  PROVE  /\ Rank(g, agent, i) \in 1 .. 6
         /\ Rank(g, agent, i) # 6 => i \in Candidates(g, agent)[Rank(g, agent, i)]
         /\ \A k \in 1 .. 5 : i \in Candidates(g, agent)[k] => Rank(g, agent, i) <= k
<1> DEFINE C == Candidates(g, agent)
           leads == i = Leader(g)
           shell == IsShell(ProgramOf(g.procs[i]))
<1>1. /\ i \in C[1] <=> IsPreferred(g, agent, i)
      /\ i \in C[2] <=> IsLaunched(g, i)
      /\ i \in C[3] <=> leads /\ IsOrdinary(g, i)
      /\ i \in C[4] <=> ~leads /\ IsOrdinary(g, i)
      /\ i \in C[5] <=> leads /\ shell
  BY DEF Candidates
<1>2. Rank(g, agent, i) = IF IsPreferred(g, agent, i) THEN 1
                          ELSE IF IsLaunched(g, i) THEN 2
                          ELSE IF IsOrdinary(g, i) THEN (IF leads THEN 3 ELSE 4)
                          ELSE IF leads /\ shell THEN 5 ELSE 6
  BY DEF Rank
<1> HIDE DEF C, leads, shell
<1>3. \A k \in 1 .. 5 : k = 1 \/ k = 2 \/ k = 3 \/ k = 4 \/ k = 5
  OBVIOUS
<1>4. Rank(g, agent, i) \in 1 .. 6 /\ (Rank(g, agent, i) # 6 => i \in C[Rank(g, agent, i)])
  BY <1>1, <1>2
<1>5. \A k \in 1 .. 5 : i \in C[k] => Rank(g, agent, i) <= k
  BY <1>1, <1>2, <1>3
<1> QED BY <1>4, <1>5 DEF C

\* The searches of select_representative, one after the other.
LEMMA BestOfGroup ==
  ASSUME NEW g, NEW agent, DOMAIN g.procs \subseteq Nat \ {0}
  PROVE  LET r == Representative(g, agent)
             rank(i) == Rank(g, agent, i)
         IN  IF Leader(g) = 0 \/ \A i \in DOMAIN g.procs : rank(i) = 6 THEN r = 0
             ELSE /\ r \in DOMAIN g.procs /\ rank(r) # 6
                  /\ \A i \in DOMAIN g.procs :
                       \/ rank(r) < rank(i)
                       \/ rank(r) = rank(i) /\ r <= i
<1> DEFINE C == Candidates(g, agent)
           found == Searches(g, agent)
           hits == {k \in DOMAIN found : found[k] # 0}
           r == Representative(g, agent)
           rank(i) == Rank(g, agent, i)
<1>1. DOMAIN found = 1 .. 5 /\ \A k \in 1 .. 5 : found[k] = First(C[k])
  <2>1. DOMAIN found = 1 .. 5
    BY DEF Searches
  <2>2. /\ found[1] = First(C[1]) /\ found[2] = First(C[2]) /\ found[3] = First(C[3])
        /\ found[4] = First(C[4]) /\ found[5] = First(C[5])
    BY DEF Searches, Candidates
  <2>3. \A k \in 1 .. 5 : k = 1 \/ k = 2 \/ k = 3 \/ k = 4 \/ k = 5
    OBVIOUS
  <2> HIDE DEF found, C
  <2> QED BY <2>1, <2>2, <2>3
<1>2. \A k \in 1 .. 5 : C[k] \subseteq DOMAIN g.procs
  <2>1. /\ C[1] \subseteq DOMAIN g.procs /\ C[2] \subseteq DOMAIN g.procs
        /\ C[3] \subseteq DOMAIN g.procs /\ C[4] \subseteq DOMAIN g.procs
        /\ C[5] \subseteq DOMAIN g.procs
    BY DEF Candidates
  <2>2. \A k \in 1 .. 5 : k = 1 \/ k = 2 \/ k = 3 \/ k = 4 \/ k = 5
    OBVIOUS
  <2> HIDE DEF C
  <2> QED BY <2>1, <2>2
<1>3. r = IF Leader(g) = 0 \/ hits = {} THEN 0 ELSE found[Min(hits)]
  BY DEF Representative
<1>4. \A i \in DOMAIN g.procs :
        /\ rank(i) \in 1 .. 6
        /\ rank(i) # 6 => i \in C[rank(i)]
        /\ \A k \in 1 .. 5 : i \in C[k] => rank(i) <= k
  BY RankIsFirstSearch
<1> HIDE DEF C, found, r, rank
<1>5. \A k \in 1 .. 5 : k \in hits <=> C[k] # {}
  <2> TAKE k \in 1 .. 5
  <2>1. C[k] \subseteq Nat \ {0}
    BY <1>2
  <2> QED BY <2>1, <1>1, FirstPlaceOf
<1>6. hits \subseteq 1 .. 5
  BY <1>1
<1> HIDE DEF hits
<1>7. CASE \A i \in DOMAIN g.procs : rank(i) = 6
  <2>1. \A k \in 1 .. 5 : C[k] = {}
    BY <1>2, <1>4, <1>7
  <2>2. hits = {}
    BY <2>1, <1>5, <1>6
  <2> QED BY <2>2, <1>3, <1>7 DEF r, rank
<1>8. CASE Leader(g) = 0
  BY <1>3, <1>8 DEF r
<1>9. CASE Leader(g) # 0 /\ \E i \in DOMAIN g.procs : rank(i) # 6
  <2>1. PICK i0 \in DOMAIN g.procs : rank(i0) # 6
    BY <1>9
  <2>2. rank(i0) \in hits
    BY <2>1, <1>4, <1>5
  <2> DEFINE m == Min(hits)
  <2>3. m \in hits /\ \A k \in hits : m <= k
    <3>1. \E k \in hits : \A j \in hits : k <= j
      BY <2>2, <1>6, LeastNat
    <3> QED BY <3>1 DEF Min
  <2>4. r = found[m]
    BY <1>3, <1>9, <2>3
  <2> HIDE DEF m
  <2>5. m \in 1 .. 5 /\ C[m] # {} /\ C[m] \subseteq Nat \ {0} /\ C[m] \subseteq DOMAIN g.procs
    BY <2>3, <1>2, <1>5, <1>6
  <2>6. r \in C[m] /\ \A i \in C[m] : r <= i
    BY <2>4, <2>5, <1>1, FirstPlaceOf
  <2>7. \A i \in DOMAIN g.procs : m <= rank(i)
    <3> TAKE i \in DOMAIN g.procs
    <3>1. CASE rank(i) = 6
      BY <3>1, <2>5
    <3>2. CASE rank(i) # 6
      <4>1. rank(i) \in hits
        BY <3>2, <1>4, <1>5
      <4> QED BY <4>1, <2>3
    <3> QED BY <3>1, <3>2
  <2>8. r \in DOMAIN g.procs /\ rank(r) = m
    <3>1. r \in DOMAIN g.procs
      BY <2>5, <2>6
    <3>2. rank(r) <= m /\ m <= rank(r) /\ rank(r) \in Nat /\ m \in Nat
      BY <3>1, <2>5, <2>6, <2>7, <1>4
    <3> QED BY <3>1, <3>2
  <2>9. ASSUME NEW i \in DOMAIN g.procs
        PROVE  rank(r) < rank(i) \/ (rank(r) = rank(i) /\ r <= i)
    <3>1. m <= rank(i) /\ rank(i) \in Nat /\ m \in Nat
      BY <2>5, <2>7, <1>4
    <3>2. CASE rank(i) = m
      <4>1. i \in C[m]
        BY <3>2, <2>5, <1>4
      <4> QED BY <4>1, <3>2, <2>6, <2>8
    <3>3. CASE rank(i) # m
      BY <3>1, <3>3, <2>8
    <3> QED BY <3>2, <3>3
  <2>10. rank(r) # 6
    BY <2>5, <2>8
  <2> QED BY <1>9, <2>8, <2>9, <2>10 DEF r, rank
<1> QED BY <1>7, <1>8, <1>9 DEF rank

(***************************************************************************)
(* Of a group of any number of processes the one of the best rank names the *)
(* tab: select_representative.                                              *)
(***************************************************************************)
THEOREM BestProcessDoesRepresent == Spec => []BestProcessRepresents
<1>1. LoopInv => BestProcessRepresents
  <2> SUFFICES ASSUME LoopInv, NEW n \in DOMAIN observed
               PROVE  LET g == observed[n].group
                          r == Representative(g, observed[n].agent)
                          rank(i) == Rank(g, observed[n].agent, i)
                      IN  IF Leader(g) = 0 \/ \A i \in DOMAIN g.procs : rank(i) = 6 THEN r = 0
                          ELSE /\ r # 0 /\ rank(r) # 6
                               /\ \A i \in DOMAIN g.procs :
                                    \/ rank(r) < rank(i)
                                    \/ rank(r) = rank(i) /\ r <= i
    BY DEF BestProcessRepresents
  <2>1. observed[n] \in Observations
    BY DEF LoopInv
  <2>2. DOMAIN observed[n].group.procs \subseteq Nat \ {0}
    BY <2>1, PoliciesAssumption
  <2> QED BY <2>2, BestOfGroup
<1> QED BY <1>1, LoopInvAlways, PTL

-----------------------------------------------------------------------------
(* Names *)

\* What finish leaves of a text that says something, and what it never makes of one.
LEMMA FinishOfAnything ==
  ASSUME NEW text, NEW limit
  PROVE  Finish(text, limit) = Empty => limit = 0 \/ text = Empty
BY NamingAssumption DEF Finish

\* A name for nobody is that of a shell: blank if it is hidden, or cut to nothing.
LEMMA LabelOfUnnamed ==
  ASSUME NEW o, NEW spelling, Normalized(spelling) \in Unnamed
  PROVE  LabelOf(o, spelling) \in {Idle(o, s) : s \in Shells \cup {o.shell}}
BY DEF LabelOf, Unnamed

\* policy.label is blank for three reasons only.
LEMMA BlankLabel ==
  ASSUME NEW o \in Observations, NEW spelling, LabelOf(o, spelling) = Empty
  PROVE  LET program == Normalized(spelling)
         IN  \/ o.limit = 0
             \/ program \in DOMAIN Aliases /\ Aliases[program] = Empty
             \/ o.hide /\ program \in Unnamed
<1> DEFINE program == Normalized(spelling)
<1>1. Normalized(o.shell) # Empty /\ Empty \notin Shells /\ Empty \notin DOMAIN Aliases
  BY PoliciesAssumption, NamingAssumption
<1>2. ASSUME NEW s, Idle(o, s) = Empty, Normalized(s) # Empty PROVE o.hide \/ o.limit = 0
  BY <1>2, FinishOfAnything DEF Idle
<1>3. Normalized(program) = program
  BY DEF Normalized, Empty, Slash
<1>4. CASE program = Empty
  BY <1>1, <1>2, <1>4 DEF LabelOf, Unnamed
<1>5. CASE program # Empty /\ program \in DOMAIN Aliases
  BY <1>5, FinishOfAnything DEF LabelOf
<1>6. CASE program # Empty /\ program \notin DOMAIN Aliases /\ program \in Shells
  BY <1>2, <1>3, <1>6 DEF LabelOf, Unnamed
<1>7. CASE program # Empty /\ program \notin DOMAIN Aliases /\ program \notin Shells
  BY <1>1, <1>2, <1>7, FinishOfAnything DEF LabelOf, Unnamed
<1> QED BY <1>4, <1>5, <1>6, <1>7

\* The three ways computed_name finds a name, each about the subject.
LEMMA NameIsOfSubject ==
  ASSUME NEW o, NameOf(o) \notin {NoName, PaneLabel}
  PROVE  \/ /\ FromOwnShell(o) /\ o.kind = "preexec"
            /\ GroupMatches(o.group, o.program)
            /\ NameOf(o) = LabelOf(o, o.program) /\ Subject(o) = Normalized(o.program)
         \/ /\ NameOf(o) = Idle(o, o.shell) /\ Subject(o) = Empty
         \/ LET r == Representative(o.group, o.agent)
            IN  /\ r # 0
                /\ NameOf(o) = LabelOf(o, ProgramOf(o.group.procs[r]))
                /\ Subject(o) = Normalized(ProgramOf(o.group.procs[r]))
<1> USE DEF NameOf, Subject
<1>1. CASE FromOwnShell(o) /\ o.kind = "preexec"
  BY <1>1 DEF NameByProgram
<1>2. CASE FromOwnShell(o) /\ o.kind = "prompt"
  BY <1>2 DEF NameByPrompt
<1>3. CASE ~(FromOwnShell(o) /\ o.kind \in {"preexec", "prompt"})
  <2>1. NameOf(o) = NameByProcess(o)
    BY <1>3
  <2>2. Subject(o) = Normalized(ProgramOf(o.group.procs[Representative(o.group, o.agent)]))
    BY <1>3
  <2> QED BY <2>1, <2>2 DEF NameByProcess
<1> QED BY <1>1, <1>2, <1>3

(***************************************************************************)
(* A name is blank only if the limit is zero, the user's alias is blank or  *)
(* idle shells are hidden and nothing with a name is in front, for any      *)
(* settings: NamingPolicy::label and its callers.                           *)
(***************************************************************************)
THEOREM BlankMeansHidden == Spec => []BlankOnlyWhenHidden
<1>1. LoopInv => BlankOnlyWhenHidden
  <2> SUFFICES ASSUME LoopInv, NEW n \in DOMAIN observed, NameOf(observed[n]) = Empty
               PROVE  LET o == observed[n]
                      IN  \/ o.limit = 0
                          \/ Subject(o) \in DOMAIN Aliases /\ Aliases[Subject(o)] = Empty
                          \/ o.hide /\ Subject(o) \in Unnamed
    BY DEF BlankOnlyWhenHidden
  <2> DEFINE o == observed[n]
  <2>1. o \in Observations
    BY DEF LoopInv
  <2>2. NameOf(o) = Empty
    OBVIOUS
  <2> HIDE DEF o
  <2>3. NameOf(o) \notin {NoName, PaneLabel}
    BY <2>2 DEF Empty, NoName, PaneLabel
  <2>4. Normalized(o.shell) # Empty /\ Empty \in Unnamed
    BY <2>1, PoliciesAssumption DEF Unnamed
  <2>5. NameOf(o) = Idle(o, o.shell) => o.hide \/ o.limit = 0
    BY <2>2, <2>4, FinishOfAnything DEF Idle
  <2> QED BY <2>1, <2>2, <2>3, <2>4, <2>5, NameIsOfSubject, BlankLabel DEF o
<1> QED BY <1>1, LoopInvAlways, PTL

(***************************************************************************)
(* Ignored programs leave the tab its shell's name, for groups of any size  *)
(* and any shells, aliases and ignored programs: NamingPolicy::label, and   *)
(* the callers that ask first.                                              *)
(***************************************************************************)
THEOREM IgnoredProgramsShowShell == Spec => []IgnoredShowsShell
<1>1. LoopInv => IgnoredShowsShell
  <2> SUFFICES ASSUME LoopInv, NEW n \in DOMAIN observed,
                      \A i \in DOMAIN observed[n].group.procs :
                        Normalized(ProgramOf(observed[n].group.procs[i])) \in Unnamed,
                      observed[n].kind = "preexec"
                        /\ GroupMatches(observed[n].group, observed[n].program) =>
                          Normalized(observed[n].program) \in Unnamed,
                      NameOf(observed[n]) \notin {NoName, PaneLabel}
               PROVE  LET o == observed[n]
                      IN  NameOf(o) \in {Idle(o, s) : s \in Shells \cup {o.shell}}
    BY DEF IgnoredShowsShell
  <2> DEFINE o == observed[n]
             r == Representative(o.group, o.agent)
  <2>1. DOMAIN o.group.procs \subseteq Nat \ {0}
    BY PoliciesAssumption DEF LoopInv
  <2>2. r # 0 => r \in DOMAIN o.group.procs
    BY <2>1, BestOfGroup
  <2>3. /\ r # 0 => Normalized(ProgramOf(o.group.procs[r])) \in Unnamed
        /\ o.kind = "preexec" /\ GroupMatches(o.group, o.program) =>
             Normalized(o.program) \in Unnamed
        /\ NameOf(o) \notin {NoName, PaneLabel}
    BY <2>2
  <2> HIDE DEF o
  <2> QED BY <2>3, NameIsOfSubject, LabelOfUnnamed DEF o
<1> QED BY <1>1, LoopInvAlways, PTL
=============================================================================
