-------------------------- MODULE ConvergenceProofs --------------------------
(***************************************************************************)
(* What undisturbed passes achieve, proved of Reconciler: the persisted     *)
(* state follows the session and the numbering converges.                   *)
(***************************************************************************)
EXTENDS ReconcilerProofs

-----------------------------------------------------------------------------
(* Progress of one tab: settings c, rank r, entry o, label l *)

\* A new tab that waits for a shell.
Waits(c, o, l) == c.auto /\ o = Unowned /\ IsPlaceholder(Strip(l))

\* The label begins with the number of its tab, or with no number.
BeginsRight(c, r, l) ==
  IF c.number THEN l # <<>> /\ l[1] = Num(r) ELSE l = <<>> \/ ~IsNum(l[1])

\* Settled, of any label.
Rendered(c, r, l) ==
  BeginsRight(c, r, l)
    /\ (c.number /\ Len(l) > 1 => Len(l) > 2 /\ l[2] = Space /\ IsText(l[3]))

(***************************************************************************)
(* How far n passes have brought the tab.  The first may find that it is no *)
(* longer the plugin's and leave its label alone; the second may keep what  *)
(* looks like a name behind its number; the third does not.                 *)
(***************************************************************************)
Reached(n, c, r, o, l) ==
  n > 0 => \/ Waits(c, o, l)
           \/ n = 1 /\ o = Manual
           \/ /\ BeginsRight(c, r, l)
              /\ o.own = "owned" => o.shown = l
              /\ n > 2 => Rendered(c, r, l)

-----------------------------------------------------------------------------
(* The invariant *)

PanesFollow(state) ==
  \A p \in Pane : IF place[p] \in Open THEN state.panes[p] = place[p]
                  ELSE state.panes[p] \in Open \cup {NoTab}

StateFollows(state) ==
  /\ \A t \in Tab : IF t \in Open THEN state.tabs[t].own # "pending" ELSE state.tabs[t] = Unowned
  /\ PanesFollow(state)

\* n passes have brought tab t, with entry o and label l, as far as they do.
Done(n, t, o, l) ==
  o.own # "pending" /\ Reached(n, calm.conf, Rank(t), o, l)

\* The entry of the target once its rename is done.
PlannedEntry == IF plan.owned THEN Owned(plan.base, plan.desired) ELSE mem.tabs[plan.tab]

Renaming(t) == pc \in {"guard", "rename"} /\ t = plan.tab

\* Between passes.
IdleCalm ==
  pc = "idle" =>
    /\ ~calm.clean
    /\ calm.passes > 0 =>
         StateFollows(disk) /\ \A t \in Open : Done(calm.passes, t, disk.tabs[t], label[t])

\* The tabs that the clean pass has decided about are one pass further.
TabProgress(t) ==
  IF t \in Undecided
  THEN Seen(t) = label[t] /\ Reached(calm.passes, calm.conf, Rank(t), mem.tabs[t], label[t])
  ELSE IF Renaming(t)
  THEN Seen(t) = label[t] /\ Done(calm.passes + 1, t, PlannedEntry, plan.desired)
  ELSE Done(calm.passes + 1, t, mem.tabs[t], label[t])

\* In a pass that nothing has disturbed yet.
CleanPass ==
  calm.clean =>
    /\ inv.op = "full" /\ calm.conf = conf
    /\ pc = "snapshot" /\ calm.passes > 0 =>
         \A t \in Open : Done(calm.passes, t, mem.tabs[t], label[t])
    /\ Working =>
         /\ as = inv /\ snap.order = order /\ PanesFollow(mem)
         /\ \A t \in Open : TabProgress(t)

CalmInv ==
  /\ calm \in [passes : Nat, clean : BOOLEAN, conf : Settings \cup {Idle}]
  /\ pc # "idle" /\ ~calm.clean => calm.passes = 0
  /\ IdleCalm
  /\ CleanPass

-----------------------------------------------------------------------------
(* Labels *)

(***************************************************************************)
(* strip_numeric_prefix leaves no number in front, and if there was one it  *)
(* leaves text only.                                                        *)
(***************************************************************************)
LEMMA StripBegins ==
  ASSUME NEW l \in Label
  PROVE  /\ Strip(l) = <<>> \/ ~IsNum(Strip(l)[1])
         /\ l # <<>> /\ IsNum(l[1]) => Strip(l) = FromText(l)
<1>1. l # <<>> => Head(l) = l[1]
  BY DEF Label
<1>2. FromText(l) # <<>> => ~IsNum(FromText(l)[1])
  BY FromTextType, TokenKinds
<1> QED BY <1>1, <1>2 DEF Strip

(***************************************************************************)
(* A label with its number begins with it, and is settled if the rest is    *)
(* text.                                                                    *)
(***************************************************************************)
LEMMA NumberedBegins ==
  ASSUME NEW l \in Label, NEW r \in Nat
  PROVE  /\ Numbered(r, l) # <<>> /\ Numbered(r, l)[1] = Num(r)
         /\ FromText(l) = l /\ Len(Numbered(r, l)) > 1 =>
              Len(Numbered(r, l)) > 2 /\ Numbered(r, l)[2] = Space /\ IsText(Numbered(r, l)[3])
<1> DEFINE s == Strip(l)
           e == IF s = <<>> THEN <<>> ELSE <<Space>> \o s
<1>1. s \in Label /\ Num(r) \in Token /\ Space \in Token
  BY StripKeepsText, TokenKinds
<1>2. Numbered(r, l) = <<Num(r)>> \o e
  BY DEF Numbered
<1> HIDE DEF s
<1>3. e \in Seq(Token) /\ (s = <<>> => e = <<>>) /\ (s # <<>> => e = <<Space>> \o s)
  BY <1>1 DEF Label
<1>4. s # <<>> => Len(e) > 1 /\ e[1] = Space /\ e[2] = s[1]
  BY <1>1, <1>3 DEF Label
<1> HIDE DEF e
<1>5. /\ Numbered(r, l) # <<>> /\ Numbered(r, l)[1] = Num(r)
      /\ Len(Numbered(r, l)) = Len(e) + 1
      /\ \A i \in 1 .. Len(e) : Numbered(r, l)[i + 1] = e[i]
  BY <1>1, <1>2, <1>3
<1>6. ASSUME FromText(l) = l, Len(Numbered(r, l)) > 1
      PROVE  Len(Numbered(r, l)) > 2 /\ Numbered(r, l)[2] = Space /\ IsText(Numbered(r, l)[3])
  <2>1. Len(e) > 0 /\ Len(e) \in Nat
    BY <1>3, <1>5, <1>6
  <2>2. s # <<>>
    BY <1>3, <2>1
  <2>3. s = l /\ IsText(s[1])
    BY <1>6, <2>2, StripOfText, FromTextType DEF s
  <2>4. Len(e) > 1 /\ e[1] = Space /\ IsText(e[2])
    BY <1>4, <2>2, <2>3
  <2>5. 1 \in 1 .. Len(e) /\ 2 \in 1 .. Len(e)
    BY <2>1, <2>4
  <2>6. Numbered(r, l)[1 + 1] = e[1] /\ Numbered(r, l)[2 + 1] = e[2]
    BY <1>5, <2>5
  <2> QED BY <1>5, <2>1, <2>4, <2>6
<1> QED BY <1>5, <1>6

(***************************************************************************)
(* The number that tab_positions gives a tab is its rank in its workspace.  *)
(***************************************************************************)
LEMMA PositionIsRank ==
  ASSUME SessionInv, NEW t \in Open
  PROVE  Position(order, t) = Rank(t) /\ Rank(t) \in Nat
<1> DEFINE upto == CHOOSE i \in DOMAIN order : order[i] = t
           P == {i \in 1 .. upto : WorkspaceOf[order[i]] = WorkspaceOf[t]}
           R == {u \in Open : /\ WorkspaceOf[u] = WorkspaceOf[t]
                              /\ \E i, j \in DOMAIN order :
                                   i <= j /\ order[i] = u /\ order[j] = t}
           f == [i \in P |-> order[i]]
<1>1. order \in Seq(Tab) /\ IsInjective(order) /\ DOMAIN order = 1 .. Len(order) /\ Len(order) \in Nat
  BY DEF SessionInv
<1>2. upto \in DOMAIN order /\ order[upto] = t
  BY DEF Open, Range
<1> HIDE DEF upto
<1>3. upto \in Nat /\ 1 .. upto \subseteq DOMAIN order
  BY <1>1, <1>2
<1>4. \A j \in DOMAIN order : order[j] = t => j = upto
  BY <1>1, <1>2 DEF IsInjective
<1>5. \A i \in P : order[i] \in R
  <2> SUFFICES ASSUME NEW i \in P PROVE order[i] \in R
    OBVIOUS
  <2>1. i \in DOMAIN order /\ i <= upto /\ WorkspaceOf[order[i]] = WorkspaceOf[t]
    BY <1>3
  <2>2. order[i] \in Open
    BY <2>1 DEF Open, Range
  <2> QED BY <1>2, <2>1, <2>2
<1>6. \A u \in R : \E i \in P : order[i] = u
  <2> SUFFICES ASSUME NEW u \in R PROVE \E i \in P : order[i] = u
    OBVIOUS
  <2>1. PICK i \in DOMAIN order, j \in DOMAIN order : i <= j /\ order[i] = u /\ order[j] = t
    OBVIOUS
  <2>2. j = upto /\ i \in 1 .. upto
    BY <1>1, <1>3, <1>4, <2>1
  <2> QED BY <2>1, <2>2
<1>7. \A i \in P : \A j \in P : order[i] = order[j] => i = j
  BY <1>1, <1>3 DEF IsInjective
<1> HIDE DEF R
<1>8. IsFiniteSet(P) /\ Cardinality(P) \in Nat
  <2>1. P \in SUBSET (1 .. upto) /\ IsFiniteSet(1 .. upto)
    BY <1>3, FS_Interval
  <2> HIDE DEF P
  <2> QED BY <2>1, FS_Subset, FS_CardinalityType
<1> HIDE DEF P
<1>9. f \in Injection(P, R) /\ f \in Surjection(P, R)
  BY <1>5, <1>6, <1>7 DEF Injection, Surjection, IsInjective
<1> HIDE DEF f
<1>10. Cardinality(R) = Cardinality(P)
  BY <1>8, <1>9, FS_Surjection
<1> QED BY <1>8, <1>10 DEF Position, Rank, P, R, upto

-----------------------------------------------------------------------------
(* One more pass *)

\* Passes that have been made are not lost.
LEMMA ReachedBefore ==
  ASSUME NEW n \in Nat, NEW m \in Nat, m <= n, NEW c, NEW r, NEW o, NEW l, Reached(n, c, r, o, l)
  PROVE  Reached(m, c, r, o, l)
BY DEF Reached

(***************************************************************************)
(* A pass that renders a tab brings it one pass further: base is a name of  *)
(* the plugin, or what strip_numeric_prefix leaves of the label.            *)
(***************************************************************************)
LEMMA RenderedFurther ==
  ASSUME NEW n \in Nat, NEW c, NEW r \in Nat, NEW before, NEW l \in Label,
         Reached(n, c, r, before, l), ~Waits(c, before, l),
         NEW o, NEW base \in Label, NEW desired,
         base = <<>> \/ ~IsNum(base[1]),
         FromText(base) = base \/ base = Strip(l),
         desired = IF c.number THEN Numbered(r, base) ELSE base,
         o.own = "owned" => o.shown = desired
  PROVE  Reached(n + 1, c, r, o, desired)
<1>1. BeginsRight(c, r, desired)
  BY NumberedBegins DEF BeginsRight
<1>2. ASSUME n + 1 > 2 PROVE Rendered(c, r, desired)
  <2>1. CASE ~c.number
    BY <1>1, <2>1 DEF Rendered
  <2>2. CASE c.number
    <3>1. FromText(base) = base
      <4>1. BeginsRight(c, r, l)
        BY <1>2 DEF Reached
      <4>2. l # <<>> /\ IsNum(l[1])
        BY <2>2, <4>1, TokenKinds DEF BeginsRight
      <4> QED BY <4>2, StripBegins, FromTextIdempotent
    <3> QED BY <1>1, <2>2, <3>1, NumberedBegins DEF Rendered
  <2> QED BY <2>1, <2>2
<1> QED BY <1>1, <1>2 DEF Reached

-----------------------------------------------------------------------------
(* Steps outside the loop over the targets *)

\* The rank of a tab depends on the order of the session only.
LEMMA SameSession ==
  ASSUME UNCHANGED session
  PROVE  Open' = Open /\ label' = label /\ \A t : Rank(t)' = Rank(t)
BY DEF session, Open, Rank

\* Whatever disturbs the passes, they start again from nothing.
LEMMA Disturbed ==
  ASSUME Disturb
  PROVE  CalmInv'
BY DEF Disturb, NotCalm, CalmInv, IdleCalm, CleanPass

\* A pass that does not count goes on.
LEMMA NotCounted ==
  ASSUME CalmInv, pc # "idle", ~calm.clean, UNCHANGED calm
  PROVE  CalmInv'
BY DEF CalmInv, IdleCalm, CleanPass

LEMMA SessionCalm ==
  ASSUME Session
  PROVE  CalmInv'
<1>1. Disturb
  BY DEF Session, UserRename, OpenTab, PlacePane, CloseTab, ClosePane, MoveTab, Arrange
<1> QED BY <1>1, Disturbed

LEMMA BeginCalm ==
  ASSUME TypeInv, CalmInv, NEW i \in Invocation, Begin(i)
  PROVE  CalmInv'
<1>1. /\ pc = "idle" /\ pc' = "snapshot" /\ conf' \in Settings /\ inv' = i /\ UNCHANGED session
      /\ calm' = IF i.op # "full" \/ CalmPasses = 0 THEN NotCalm
                 ELSE [passes |-> IF conf' = calm.conf THEN calm.passes ELSE 0,
                       clean |-> TRUE, conf |-> conf']
  BY DEF Begin
<1>2. CASE calm' = NotCalm
  BY <1>2, Disturbed DEF Disturb
<1>3. CASE /\ i.op = "full"
           /\ calm' = [passes |-> IF conf' = calm.conf THEN calm.passes ELSE 0,
                       clean |-> TRUE, conf |-> conf']
  <2>1. /\ calm' \in [passes : Nat, clean : BOOLEAN, conf : Settings \cup {Idle}]
        /\ calm'.clean /\ calm'.conf = conf'
        /\ calm'.passes > 0 => calm'.passes = calm.passes /\ calm'.conf = calm.conf
    <3> DEFINE n == IF conf' = calm.conf THEN calm.passes ELSE 0
    <3>1. n \in Nat /\ (n > 0 => n = calm.passes /\ conf' = calm.conf)
      BY DEF CalmInv
    <3>2. calm' = [passes |-> n, clean |-> TRUE, conf |-> conf'] /\ conf' \in Settings
      BY <1>1, <1>3
    <3> HIDE DEF n
    <3> QED BY <3>1, <3>2
  <2>2. Open' = Open /\ label' = label /\ \A t : Rank(t)' = Rank(t)
    BY <1>1, SameSession
  <2>3. \A t \in Tab : mem'.tabs[t] = disk.tabs[t]
    BY <1>3, BeginEntries
  <2>4. ASSUME calm'.passes > 0, NEW t \in Open
        PROVE  Done(calm.passes, t, mem.tabs[t], label[t])'
    <3>1. Done(calm.passes, t, disk.tabs[t], label[t])
      BY <1>1, <2>1, <2>4 DEF CalmInv, IdleCalm
    <3>2. t \in Tab
      BY OpenType DEF TypeInv
    <3> QED BY <2>1, <2>2, <2>3, <2>4, <3>1, <3>2 DEF Done
  <2> QED BY <1>1, <1>3, <2>1, <2>2, <2>4 DEF CalmInv, IdleCalm, CleanPass, Working
<1> QED BY <1>1, <1>2, <1>3

\* The panes after recovery in a pass that concerns all tabs.
LEMMA RecoveredPanes ==
  ASSUME SessionInv, StateInv, inv.op = "full"
  PROVE  PanesFollow(Recovered)
<1> DEFINE upserted(p) == IF place[p] \in Open THEN place[p] ELSE mem.panes[p]
           panes == [p \in Pane |-> IF upserted(p) \in Open THEN upserted(p) ELSE NoTab]
           refreshed == Refresh(mem, place, Open)
           tabs == [t \in Tab |-> IF WasLastPane /\ t = MappedTab THEN Unowned
                                  ELSE IF t \in Open THEN Resolve(refreshed.tabs[t], label[t])
                                  ELSE refreshed.tabs[t]]
<1>1. refreshed \in StateSet /\ refreshed.panes = panes
  <2>1. refreshed = [mem EXCEPT !.panes = panes]
    BY DEF Refresh
  <2>2. refreshed \in StateSet
    BY OpenType, RefreshType DEF StateInv
  <2> HIDE DEF panes, refreshed
  <2> QED BY <2>1, <2>2 DEF StateInv, StateSet
<1>2. Recovered = [refreshed EXCEPT
        !.panes = [p \in Pane |-> IF inv.op = "closed_pane" /\ p = inv.pane
                                  THEN NoTab ELSE refreshed.panes[p]],
        !.tabs = tabs]
  BY DEF Recovered
<1> HIDE DEF refreshed, tabs
<1>3. \A p \in Pane : Recovered.panes[p] = refreshed.panes[p]
  BY <1>1, <1>2 DEF StateSet
<1>4. \A p \in Pane : Recovered.panes[p] = IF upserted(p) \in Open THEN upserted(p) ELSE NoTab
  BY <1>1, <1>3
<1> QED BY <1>4 DEF PanesFollow

LEMMA SnapshotCalm ==
  ASSUME TypeInv, CalmInv, TakeSnapshot
  PROVE  CalmInv'
<1> DEFINE D == {k \in DOMAIN order : InScope(as', order[k], MappedTab)}
<1>1. /\ pc = "snapshot" /\ mem' = Recovered /\ pc' = "plan" /\ UNCHANGED <<session, conf, inv, calm>>
      /\ as' = IF Vanished THEN [op |-> "closed_tab", ws |-> VanishedFrom] ELSE inv
      /\ snap' = [order |-> order, label |-> label] /\ todo' = SelectAt(order, D)
  BY DEF TakeSnapshot
<1>2. SessionInv /\ StateInv /\ PassInv /\ inv \in Invocation
  BY <1>1 DEF TypeInv, PassInv
<1>3. CASE ~calm.clean
  BY <1>1, <1>3, NotCounted
<1>4. CASE calm.clean
  <2>1. inv.op = "full" /\ calm.conf = conf
    BY <1>4 DEF CalmInv, CleanPass
  <2>2. as' = inv
    BY <1>1, <2>1 DEF Vanished, WasLastPane, MappedTab
  <2>3. D = DOMAIN order
    BY <2>1, <2>2 DEF InScope
  <2>4. Range(todo') = Open /\ snap'.order = order /\ snap'.label = label
    <3>1. D \in SUBSET (DOMAIN order)
      OBVIOUS
    <3> HIDE DEF D
    <3>2. Range(todo') = {order[k] : k \in D} /\ snap'.order = order /\ snap'.label = label
      BY <1>1, <1>2, <3>1, SnapshotType
    <3> QED BY <2>3, <3>2 DEF Open, Range
  <2>5. Open' = Open /\ label' = label /\ \A t : Rank(t)' = Rank(t)
    BY <1>1, SameSession
  <2>6. Undecided' = Open
    BY <1>1, <2>4 DEF Undecided
  <2>7. \A t \in Tab : t \in Open => Recovered.tabs[t] = Resolve(mem.tabs[t], label[t])
    BY <1>2, <2>1, RecoveredEntries DEF Removed, WasLastPane, MappedTab
  <2>8. ASSUME NEW t \in Open PROVE TabProgress(t)'
    <3>1. Seen(t)' = label[t]
      BY <2>4 DEF Seen
    <3>2. t \in Tab /\ mem'.tabs[t] = Resolve(mem.tabs[t], label[t])
      BY <1>1, <1>2, <2>7, OpenType
    <3>3. Reached(calm.passes, calm.conf, Rank(t), mem'.tabs[t], label[t])
      <4>1. CASE calm.passes > 0
        <5>1. Done(calm.passes, t, mem.tabs[t], label[t])
          BY <1>1, <1>4, <4>1 DEF CalmInv, CleanPass
        <5> QED BY <3>2, <5>1 DEF Done, Resolve
      <4> QED BY <4>1 DEF Reached
    <3> QED BY <1>1, <2>5, <2>6, <3>1, <3>3 DEF TabProgress
  <2>9. PanesFollow(mem)'
    <3>1. PanesFollow(Recovered)
      BY <1>2, <2>1, RecoveredPanes
    <3>2. place' = place
      BY <1>1 DEF session
    <3> QED BY <1>1, <2>5, <3>1, <3>2 DEF PanesFollow
  <2>10. snap'.order = order'
    BY <1>1, <2>4 DEF session
  <2> QED BY <1>1, <2>1, <2>2, <2>5, <2>8, <2>9, <2>10 DEF CalmInv, IdleCalm, CleanPass
<1> QED BY <1>3, <1>4

-----------------------------------------------------------------------------
(* The loop over the targets *)

(***************************************************************************)
(* A step of a clean pass keeps the invariant if it brings the target on,   *)
(* touches no other label and moves no pane.                                *)
(***************************************************************************)
LEMMA LoopCalm ==
  ASSUME TypeInv, TypeInv', CalmInv, calm.clean, UNCHANGED calm,
         SkipTab \/ PlanTab \/ GuardRead \/ Rename,
         mem'.panes = mem.panes,
         NEW t, t = Head(todo), TabProgress(t)',
         \A u \in Tab \ {t} : label'[u] = label[u]
  PROVE  CalmInv'
<1>1. /\ Working /\ pc' \in {"plan", "guard", "rename"} /\ UNCHANGED <<order, place, conf, inv, as, snap>>
      /\ Open' = Open /\ Undecided' = Undecided \ {t} /\ (pc' # "plan" => todo' = todo)
      /\ \A u \in Tab \ {t} : mem'.tabs[u] = mem.tabs[u]
  BY LoopStep
<1>2. Open \subseteq Tab /\ \A u : Rank(u)' = Rank(u)
  BY <1>1, OpenType DEF TypeInv, Rank
<1>3. pc \in {"guard", "rename"} => plan.tab = t
  BY PlannedType
<1>4. pc' \in {"guard", "rename"} => plan'.tab = t
  <2> HAVE pc' \in {"guard", "rename"}
  <2>1. plan'.tab = Head(todo') /\ todo' = todo
    BY <1>1 DEF TypeInv, PlanInv
  <2> QED BY <2>1
<1>5. ASSUME NEW u \in Open, u # t PROVE TabProgress(u)'
  <2>1. TabProgress(u)
    BY <1>1 DEF CalmInv, CleanPass
  <2>2. u \in Undecided' <=> u \in Undecided
    BY <1>1, <1>5
  <2>3. ~Renaming(u) /\ ~Renaming(u)'
    BY <1>3, <1>4, <1>5 DEF Renaming
  <2>4. mem'.tabs[u] = mem.tabs[u] /\ label'[u] = label[u] /\ Rank(u)' = Rank(u) /\ Seen(u)' = Seen(u)
    BY <1>1, <1>2, <1>5 DEF Seen
  <2>5. CASE u \in Undecided
    BY <2>1, <2>2, <2>4, <2>5 DEF TabProgress
  <2>6. CASE u \notin Undecided
    BY <2>1, <2>2, <2>3, <2>4, <2>6 DEF TabProgress, Done
  <2> QED BY <2>5, <2>6
<1>6. PanesFollow(mem)'
  BY <1>1 DEF CalmInv, CleanPass, PanesFollow
<1> QED BY <1>1, <1>5, <1>6 DEF CalmInv, IdleCalm, CleanPass

LEMMA OwnershipKeepsPanes ==
  ASSUME NEW state \in StateSet, NEW t, NEW o
  PROVE  SetOwnership(state, t, o).panes = state.panes
BY DEF SetOwnership, StateSet

(***************************************************************************)
(* What a clean pass knows of its target: the label is the one it has seen, *)
(* no rename is pending, and the pass, of all tabs, is no event of it.      *)
(***************************************************************************)
LEMMA CleanTarget ==
  ASSUME TypeInv, ResolvedInv, CalmInv, calm.clean, pc = "plan", todo # <<>>,
         NEW t, t = Head(todo)
  PROVE  /\ t \in Open /\ t \in Tab /\ t \in Range(snap.order)
         /\ label[t] \in Label /\ Seen(t) = label[t]
         /\ mem.tabs[t] \in OwnershipSet /\ mem.tabs[t].own # "pending"
         /\ Reached(calm.passes, calm.conf, Rank(t), mem.tabs[t], label[t])
         /\ Position(snap.order, t) = Rank(t) /\ Rank(t) \in Nat
         /\ as.op = "full" /\ ~RenameEventOf(t) /\ ~Forced(t) /\ calm.conf = conf /\ inv.op = "full"
<1>1. SessionInv /\ StateInv /\ PassInv /\ Working
  BY DEF TypeInv, Working
<1>2. /\ inv.op = "full" /\ as = inv /\ calm.conf = conf /\ snap.order = order
      /\ \A u \in Open : TabProgress(u)
  BY <1>1 DEF CalmInv, CleanPass
<1>3. t \in Tab /\ t \in Range(todo) /\ t \in Range(snap.order)
  BY <1>1, TargetType DEF Target
<1>4. t \in Open
  BY <1>2, <1>3 DEF Open
<1>5. t \in Undecided
  BY <1>3 DEF Undecided
<1>6. Seen(t) = label[t] /\ Reached(calm.passes, calm.conf, Rank(t), mem.tabs[t], label[t])
  BY <1>2, <1>4, <1>5 DEF TabProgress
<1>7. mem.tabs[t].own # "pending"
  BY <1>2, <1>4, <1>5 DEF ResolvedInv
<1>8. Position(snap.order, t) = Rank(t) /\ Rank(t) \in Nat
  BY <1>1, <1>2, <1>4, PositionIsRank
<1>9. label[t] \in Label /\ mem.tabs[t] \in OwnershipSet
  BY <1>1, <1>3 DEF SessionInv, StateInv, StateSet
<1>10. as.op = "full" /\ ~RenameEventOf(t) /\ ~Forced(t)
  BY <1>2 DEF RenameEventOf, Forced
<1> QED BY <1>2, <1>3, <1>4, <1>6, <1>7, <1>8, <1>9, <1>10

LEMMA SkipTabCalm ==
  ASSUME TypeInv, TypeInv', ResolvedInv, CalmInv, calm.clean, SkipTab
  PROVE  CalmInv'
<1> DEFINE Held == InitialAdoption(Target) /\ Proceed(mem)
           Lost == Disowned(Target) /\ Proceed(SetOwnership(mem, Target, Manual))
<1>1. pc = "plan" /\ todo # <<>> /\ UNCHANGED history /\ (Held \/ Lost)
  BY DEF SkipTab
<1>2. PICK t : t = Head(todo)
  OBVIOUS
<1>3. /\ t \in Open /\ t \in Tab /\ Seen(t) = label[t]
      /\ mem.tabs[t] \in OwnershipSet /\ mem.tabs[t].own # "pending"
      /\ Reached(calm.passes, calm.conf, Rank(t), mem.tabs[t], label[t]) /\ calm.conf = conf
  BY <1>1, <1>2, CleanTarget
<1>4. pc' = "plan" /\ UNCHANGED session
  BY <1>1 DEF Proceed
<1>5. Undecided' = Undecided \ {t}
  BY <1>2, LoopStep
<1>6. calm.passes \in Nat /\ mem \in StateSet
  BY DEF CalmInv, TypeInv, StateInv
<1>7. Done(calm.passes + 1, t, mem'.tabs[t], label[t]) /\ mem'.panes = mem.panes
  <2>1. CASE Held
    <3>1. Waits(calm.conf, mem.tabs[t], label[t])
      BY <1>2, <1>3, <2>1 DEF InitialAdoption, Waits, Target
    <3>2. mem' = mem
      BY <2>1 DEF Proceed
    <3> QED BY <1>3, <3>1, <3>2 DEF Done, Reached
  <2>2. CASE Lost
    <3>1. mem' = SetOwnership(mem, t, Manual)
      BY <1>2, <2>2 DEF Proceed, Target
    <3>2. mem'.tabs[t] = Manual /\ mem'.panes = mem.panes
      BY <1>3, <1>6, <3>1, SetOwnershipType, SimpleOwnership, OwnershipKeepsPanes
    <3>3. /\ mem.tabs[t].own = "owned"
          /\ Strip(label[t]) # mem.tabs[t].base \/ label[t] # mem.tabs[t].shown
      BY <1>2, <1>3, <2>2 DEF Disowned, Target
    <3>4. mem.tabs[t].shown # label[t]
      BY <1>3, <3>3, OwnershipKinds, OwnedFields
    <3>5. calm.passes = 0
      BY <1>3, <1>6, <3>3, <3>4 DEF Reached, Waits, Unowned, Manual
    <3> QED BY <3>2, <3>5 DEF Done, Reached, Manual
  <2> QED BY <1>1, <2>1, <2>2
<1>8. TabProgress(t)'
  <2>1. UNCHANGED calm /\ label' = label /\ Rank(t)' = Rank(t)
    BY <1>1, <1>4, SameSession DEF history
  <2> QED BY <1>4, <1>5, <1>7, <2>1 DEF TabProgress, Renaming, Done
<1> QED BY <1>1, <1>2, <1>4, <1>7, <1>8, LoopCalm DEF session, history

(***************************************************************************)
(* What a clean pass decides about a tab brings it one pass further.        *)
(***************************************************************************)
LEMMA DecisionFurther ==
  ASSUME TypeInv, ResolvedInv, CalmInv, calm.clean, pc = "plan", todo # <<>>,
         NEW t, t = Head(todo), ~InitialAdoption(t), ~Disowned(t), NEW computed \in Computed(t)
  PROVE  LET base    == DesiredBase(t, computed)
             desired == Desired(t, base)
             owned   == PluginOwned(t, computed)
         IN  /\ Done(calm.passes + 1, t, IF owned THEN Owned(base, desired) ELSE Entry(t), desired)
             /\ Entry(t) \in OwnershipSet
             /\ desired \in Label /\ owned \in BOOLEAN
             /\ owned => base \in Names /\ Strip(desired) = base
<1> DEFINE base    == DesiredBase(t, computed)
           desired == Desired(t, base)
           owned   == PluginOwned(t, computed)
           entry   == IF owned THEN Owned(base, desired) ELSE Entry(t)
<1>1. StateInv /\ PassInv /\ pc # "idle" /\ calm.passes \in Nat
  BY DEF TypeInv, CalmInv
<1>2. /\ t \in Range(snap.order) /\ t \in Tab /\ label[t] \in Label /\ Seen(t) = label[t]
      /\ mem.tabs[t] \in OwnershipSet /\ mem.tabs[t].own # "pending"
      /\ Reached(calm.passes, calm.conf, Rank(t), mem.tabs[t], label[t])
      /\ Position(snap.order, t) = Rank(t) /\ Rank(t) \in Nat /\ calm.conf = conf
  BY CleanTarget
<1>3. /\ base \in Label /\ desired \in Label /\ owned \in BOOLEAN
      /\ owned => base \in Names /\ Strip(desired) = base
      /\ ~owned => Ownership(t).own # "owned"
  BY <1>1, <1>2, Decision
<1>4. Ownership(t) = mem.tabs[t]
  BY DEF Ownership
<1>5. desired = IF calm.conf.number THEN Numbered(Rank(t), base) ELSE base
  BY <1>2 DEF Desired
<1>6. owned \/ base = Strip(label[t])
  <2>1. computed # NoResult => Eligible(t)
    BY DEF Computed
  <2> QED BY <1>2, <2>1 DEF DesiredBase, PluginOwned, Eligible
<1> HIDE DEF base, desired, owned
<1>7. FromText(base) = base \/ base = Strip(label[t])
  BY <1>3, <1>6, NameFacts
<1>8. base = <<>> \/ ~IsNum(base[1])
  BY <1>2, <1>3, <1>7, StripBegins, FromTextType, TokenKinds
<1>9. Entry(t) \in {mem.tabs[t], Unowned, Manual} /\ Entry(t) \in OwnershipSet
  BY <1>1, <1>2, <1>4, OwnershipFacts
<1>10. entry.own # "pending" /\ (entry.own = "owned" => entry.shown = desired)
  <2>1. CASE owned
    BY <2>1 DEF Owned
  <2>2. CASE ~owned
    BY <1>2, <1>3, <1>4, <1>9, <2>2 DEF Unowned, Manual
  <2> QED BY <1>3, <2>1, <2>2
<1>11. ~Waits(calm.conf, mem.tabs[t], label[t])
  BY <1>2 DEF Waits, InitialAdoption
<1> HIDE DEF entry
<1>12. Reached(calm.passes + 1, calm.conf, Rank(t), entry, desired)
  BY <1>1, <1>2, <1>3, <1>5, <1>7, <1>8, <1>10, <1>11, RenderedFurther
<1>13. Done(calm.passes + 1, t, entry, desired)
  BY <1>10, <1>12 DEF Done
<1> QED BY <1>3, <1>9, <1>13 DEF base, desired, owned, entry

LEMMA PlanTabCalm ==
  ASSUME TypeInv, TypeInv', ResolvedInv, CalmInv, calm.clean, PlanTab
  PROVE  CalmInv'
<1>1. /\ pc = "plan" /\ todo # <<>> /\ UNCHANGED calm
      /\ Disowned(Target) => RenameEventOf(Target)
      /\ InitialAdoption(Target) => as.op = "shell"
  BY PlanTabCases
<1>2. PICK t : t = Head(todo)
  OBVIOUS
<1>3. /\ t \in Open /\ t \in Tab /\ Seen(t) = label[t] /\ as.op = "full" /\ ~RenameEventOf(t)
  BY <1>1, <1>2, CleanTarget
<1>4. ~Disowned(t) /\ ~InitialAdoption(t)
  BY <1>1, <1>2, <1>3 DEF Target
<1>5. PICK computed \in Computed(t) : NothingToRename(computed) \/ RenamePlanned(computed)
  BY <1>2, <1>4, PlanTabCases DEF Target
<1> DEFINE base    == DesiredBase(t, computed)
           desired == Desired(t, base)
           owned   == PluginOwned(t, computed)
<1>6. /\ Done(calm.passes + 1, t, IF owned THEN Owned(base, desired) ELSE Entry(t), desired)
      /\ Entry(t) \in OwnershipSet /\ desired \in Label /\ owned \in BOOLEAN
      /\ owned => base \in Names /\ Strip(desired) = base
  BY <1>1, <1>2, <1>4, DecisionFurther
<1>7. Undecided' = Undecided \ {t}
  BY <1>2, LoopStep
<1>8. mem \in StateSet /\ StateInv
  BY DEF TypeInv, StateInv
<1>9. ASSUME UNCHANGED session PROVE label' = label /\ Rank(t)' = Rank(t)
  BY <1>9, SameSession
<1>10. CASE NothingToRename(computed)
  <2> DEFINE entry == IF owned THEN Owned(base, desired) ELSE Entry(t)
  <2>1. desired = label[t] /\ Proceed(SetOwnership(mem, t, entry))
    BY <1>2, <1>3, <1>10 DEF NothingToRename, Target
  <2> HIDE DEF base, desired, owned
  <2>2. entry \in OwnershipSet
    BY <1>6, OwnedType, SimpleOwnership
  <2> HIDE DEF entry
  <2>3. mem' = SetOwnership(mem, t, entry) /\ pc' = "plan" /\ UNCHANGED session
    BY <2>1 DEF Proceed
  <2>4. mem'.tabs[t] = entry /\ mem'.panes = mem.panes
    BY <1>3, <1>8, <2>2, <2>3, SetOwnershipType, OwnershipKeepsPanes
  <2>5. Done(calm.passes + 1, t, mem'.tabs[t], label[t])
    BY <1>6, <2>1, <2>4 DEF entry
  <2>6. label' = label /\ Rank(t)' = Rank(t)
    BY <1>9, <2>3
  <2>7. TabProgress(t)'
    BY <1>1, <1>7, <2>3, <2>5, <2>6 DEF TabProgress, Renaming, Done
  <2> QED BY <1>1, <1>2, <2>4, <2>6, <2>7, LoopCalm
<1>11. CASE RenamePlanned(computed)
  <2> DEFINE pending == Pending(Seen(t), desired, base, Previous(Ownership(t)))
             entry   == IF owned THEN pending ELSE Entry(t)
  <2>1. /\ plan' = [tab |-> t, desired |-> desired, base |-> base, owned |-> owned]
        /\ mem' = SetOwnership(mem, t, entry) /\ pc' = "guard" /\ UNCHANGED <<session, snap>>
    BY <1>2, <1>11 DEF RenamePlanned, Target
  <2>2. Previous(Ownership(t)) \in {Unowned, Reset} \cup OwnedSet /\ Seen(t) \in Label
    <3>1. label[t] \in Label
      BY <1>3 DEF TypeInv, SessionInv
    <3> QED BY <1>3, <1>8, <3>1, OwnershipFacts
  <2> HIDE DEF base, desired, owned
  <2>3. entry \in OwnershipSet
    BY <1>6, <2>2, PendingType, SimpleOwnership
  <2>4. ~owned => entry = Entry(t)
    OBVIOUS
  <2> HIDE DEF pending, entry
  <2>5. mem'.tabs[t] = entry /\ mem'.panes = mem.panes
    BY <1>3, <1>8, <2>1, <2>3, SetOwnershipType, OwnershipKeepsPanes
  <2>6. label' = label /\ Rank(t)' = Rank(t) /\ Seen(t)' = Seen(t)
    BY <1>9, <2>1 DEF Seen
  <2>7. plan'.tab = t /\ plan'.desired = desired /\ plan'.base = base /\ plan'.owned = owned
    BY <2>1
  <2>8. PlannedEntry' = IF owned THEN Owned(base, desired) ELSE Entry(t)
    BY <2>4, <2>5, <2>7 DEF PlannedEntry
  <2>9. TabProgress(t)'
    BY <1>1, <1>3, <1>6, <1>7, <2>1, <2>6, <2>7, <2>8 DEF TabProgress, Renaming, Done
  <2> QED BY <1>1, <1>2, <2>5, <2>6, <2>9, LoopCalm
<1> QED BY <1>5, <1>10, <1>11

\* The target of a rename in a clean pass has the label that the pass has seen.
LEMMA CleanRename ==
  ASSUME TypeInv, CalmInv, calm.clean, pc \in {"guard", "rename"}
  PROVE  /\ plan.tab \in Open /\ plan.tab \in Tab /\ plan.tab = Head(todo)
         /\ Seen(plan.tab) = label[plan.tab] /\ plan.tab \notin Undecided
         /\ Done(calm.passes + 1, plan.tab, PlannedEntry, plan.desired)
<1>1. Working /\ plan.tab = Head(todo) /\ plan.tab \in Tab /\ plan.tab \in Range(snap.order)
      /\ plan.tab \notin Range(Tail(todo))
  BY PlannedType DEF Working
<1>2. snap.order = order /\ \A u \in Open : TabProgress(u)
  BY <1>1 DEF CalmInv, CleanPass
<1>3. plan.tab \in Open /\ plan.tab \notin Undecided
  BY <1>1, <1>2 DEF Open, Undecided
<1>4. TabProgress(plan.tab)
  BY <1>2, <1>3
<1> QED BY <1>1, <1>3, <1>4 DEF TabProgress, Renaming

LEMMA GuardReadCalm ==
  ASSUME TypeInv, TypeInv', CalmInv, calm.clean, GuardRead
  PROVE  CalmInv'
<1>1. pc = "guard" /\ UNCHANGED history
  BY DEF GuardRead
<1>2. PICK t : t = plan.tab
  OBVIOUS
<1>3. /\ t \in Open /\ t = Head(todo) /\ Seen(t) = label[t]
      /\ Done(calm.passes + 1, t, PlannedEntry, plan.desired)
  BY <1>1, <1>2, CleanRename
<1>4. pc' = "rename" /\ UNCHANGED <<session, mem, snap, plan>>
  BY <1>2, <1>3 DEF GuardRead
<1>5. Undecided' = Undecided \ {t}
  BY <1>3, LoopStep
<1>6. label' = label /\ Rank(t)' = Rank(t) /\ Seen(t)' = Seen(t) /\ PlannedEntry' = PlannedEntry
  BY <1>4, SameSession DEF Seen, PlannedEntry
<1>7. TabProgress(t)'
  BY <1>1, <1>2, <1>3, <1>4, <1>5, <1>6 DEF TabProgress, Renaming, Done, history
<1> QED BY <1>1, <1>3, <1>4, <1>6, <1>7, LoopCalm DEF history

LEMMA RenameCalm ==
  ASSUME TypeInv, TypeInv', CalmInv, calm.clean, Rename
  PROVE  CalmInv'
<1>1. /\ pc = "rename" /\ pc' = "plan" /\ Apply /\ UNCHANGED <<order, place, gone, env, calm>>
      /\ mem' = IF plan.owned THEN SetOwnership(mem, plan.tab, Owned(plan.base, plan.desired)) ELSE mem
  BY DEF Rename
<1>2. PICK t : t = plan.tab
  OBVIOUS
<1>3. /\ t \in Open /\ t \in Tab /\ t = Head(todo)
      /\ Done(calm.passes + 1, t, PlannedEntry, plan.desired)
  BY <1>1, <1>2, CleanRename
<1>4. \A u \in Tab \ {t} : label'[u] = label[u]
  BY <1>1, <1>2, ApplyType
<1>5. label'[t] = plan.desired
  BY <1>1, <1>2, <1>3, ApplyType
<1>6. mem'.tabs[t] = PlannedEntry /\ mem'.panes = mem.panes
  <2>1. plan.owned => Owned(plan.base, plan.desired) \in OwnershipSet
    <3>1. plan.owned => plan.base \in Names /\ Strip(plan.desired) = plan.base
      BY <1>1 DEF TypeInv, PlanInv
    <3> QED BY <1>1, <3>1, PlannedType, OwnedType, SimpleOwnership
  <2>2. mem \in StateSet
    BY DEF TypeInv, StateInv
  <2> QED BY <1>1, <1>2, <1>3, <2>1, <2>2, SetOwnershipType, OwnershipKeepsPanes DEF PlannedEntry
<1>7. Undecided' = Undecided \ {t} /\ Rank(t)' = Rank(t)
  BY <1>1, <1>3, LoopStep DEF Rank, Open
<1>8. TabProgress(t)'
  BY <1>1, <1>3, <1>5, <1>6, <1>7 DEF TabProgress, Renaming, Done
<1> QED BY <1>1, <1>3, <1>4, <1>6, <1>8, LoopCalm

-----------------------------------------------------------------------------
(* The end of a pass *)

\* Prune leaves the panes of open tabs where they are.
LEMMA PrunePanesFollow ==
  ASSUME NEW state \in StateSet, PanesFollow(state)
  PROVE  PanesFollow(Prune(state, Open))
<1>1. \A p \in Pane : Prune(state, Open).panes[p] = IF state.panes[p] \in Open THEN state.panes[p]
                                                    ELSE NoTab
  BY DEF Prune, StateSet
<1> QED BY <1>1 DEF PanesFollow

LEMMA FinishCalm ==
  ASSUME TypeInv, CalmInv, Finish
  PROVE  CalmInv'
<1>1. /\ pc = "plan" /\ todo = <<>> /\ pc' = "idle" /\ UNCHANGED session
      /\ inv.op = "full" => disk' = Prune(mem, Range(snap.order))
      /\ calm' = IF inv.op = "full" /\ calm.clean
                 THEN [calm EXCEPT !.passes = Min({@ + 1, CalmPasses}), !.clean = FALSE]
                 ELSE NotCalm
  BY DEF Finish, EndOfPass
<1>2. CASE calm' = NotCalm
  BY <1>2, Disturbed DEF Disturb
<1>3. CASE /\ inv.op = "full" /\ calm.clean
           /\ calm' = [calm EXCEPT !.passes = Min({@ + 1, CalmPasses}), !.clean = FALSE]
  <2>1. PICK n \in Nat : n <= calm.passes + 1 /\ n = Min({calm.passes + 1, CalmPasses})
    <3>1. calm.passes + 1 \in Nat /\ CalmPasses \in Nat
      BY ReconcilerAssumption DEF CalmInv
    <3>2. \E m \in {calm.passes + 1, CalmPasses} : \A k \in {calm.passes + 1, CalmPasses} : m <= k
      BY <3>1
    <3> DEFINE m == Min({calm.passes + 1, CalmPasses})
    <3>3. m \in {calm.passes + 1, CalmPasses} /\ m <= calm.passes + 1
      BY <3>2 DEF Min
    <3> QED BY <3>1, <3>3
  <2>2. /\ calm' \in [passes : Nat, clean : BOOLEAN, conf : Settings \cup {Idle}]
        /\ ~calm'.clean /\ calm'.passes = n /\ calm'.conf = calm.conf
    <3>1. calm' = [calm EXCEPT !.passes = n, !.clean = FALSE]
      BY <1>3, <2>1
    <3> QED BY <3>1 DEF CalmInv
  <2>3. Open' = Open /\ label' = label /\ place' = place /\ \A t : Rank(t)' = Rank(t)
    BY <1>1, SameSession DEF session
  <2>4. /\ snap.order = order /\ PanesFollow(mem) /\ \A t \in Open : TabProgress(t)
    BY <1>1, <1>3 DEF CalmInv, CleanPass, Working
  <2>5. disk' = Prune(mem, Open) /\ mem \in StateSet /\ Open \subseteq Tab
    BY <1>1, <1>3, <2>4, OpenType DEF Open, TypeInv, StateInv
  <2>6. Undecided = {} /\ \A t : ~Renaming(t)
    BY <1>1 DEF Undecided, Renaming, Range
  <2>7. \A t \in Open : Done(calm.passes + 1, t, mem.tabs[t], label[t])
    BY <2>4, <2>6 DEF TabProgress
  <2>8. \A t \in Tab : disk'.tabs[t] = IF t \in Open THEN mem.tabs[t] ELSE Unowned
    BY <2>5, PruneType
  <2>9. PanesFollow(disk)'
    BY <2>3, <2>4, <2>5, PrunePanesFollow DEF PanesFollow
  <2>10. StateFollows(disk)'
    BY <2>3, <2>7, <2>8, <2>9 DEF StateFollows, Done
  <2>11. ASSUME NEW t \in Open PROVE Done(calm.passes, t, disk.tabs[t], label[t])'
    <3>1. Done(calm.passes + 1, t, mem.tabs[t], label[t]) /\ disk'.tabs[t] = mem.tabs[t]
      BY <2>5, <2>7, <2>8
    <3>2. calm.passes + 1 \in Nat
      BY DEF CalmInv
    <3>3. Reached(n, calm.conf, Rank(t), mem.tabs[t], label[t])
      BY <2>1, <3>1, <3>2, ReachedBefore DEF Done
    <3> QED BY <2>2, <2>3, <3>1, <3>3 DEF Done
  <2> QED BY <1>1, <2>2, <2>3, <2>10, <2>11 DEF CalmInv, IdleCalm, CleanPass
<1> QED BY <1>1, <1>2, <1>3

-----------------------------------------------------------------------------
(* The inductive invariant *)

LEMMA CalmInit == Init => CalmInv
BY DEF Init, NotCalm, CalmInv, IdleCalm, CleanPass

LEMMA CalmStep ==
  ASSUME AllInv, AllInv', CalmInv, [Next]_vars
  PROVE  CalmInv'
<1>1. TypeInv /\ TypeInv' /\ ResolvedInv
  BY DEF AllInv
<1>2. CASE UNCHANGED vars
  <2>1. UNCHANGED <<session, disk, mem, pc, conf, inv, as, snap, todo, plan, calm>>
    BY <1>2 DEF vars, pass, history
  <2>2. Open' = Open /\ label' = label /\ place' = place /\ order' = order /\ \A t : Rank(t)' = Rank(t)
    BY <2>1, SameSession DEF session
  <2>3. IdleCalm'
    BY <2>1, <2>2 DEF CalmInv, IdleCalm, StateFollows, PanesFollow, Done
  <2>4. \A t : TabProgress(t) => TabProgress(t)'
    BY <2>1, <2>2 DEF TabProgress, Undecided, Renaming, Seen, Done, PlannedEntry
  <2>5. PanesFollow(mem) => PanesFollow(mem)'
    BY <2>1, <2>2 DEF PanesFollow
  <2>6. CleanPass'
    BY <2>1, <2>2, <2>4, <2>5 DEF CalmInv, CleanPass, Working, Done
  <2> QED BY <2>1, <2>3, <2>6 DEF CalmInv
<1>3. CASE Session
  BY <1>3, SessionCalm
<1>4. ASSUME NEW i \in Invocation, Begin(i) PROVE CalmInv'
  BY <1>1, <1>4, BeginCalm
<1>5. CASE TakeSnapshot
  BY <1>1, <1>5, SnapshotCalm
<1>6. CASE IgnoreClosedPane \/ TakeClearSnapshot \/ PlanClear
  <2>1. pc # "idle" /\ inv.op # "full" /\ UNCHANGED calm
    BY <1>6 DEF IgnoreClosedPane, TakeClearSnapshot, PlanClear, history
  <2> QED BY <2>1, NotCounted DEF CalmInv, CleanPass
<1>7. CASE Fail \/ RenameUnanswered
  BY <1>7, Disturbed DEF Fail, RenameUnanswered
<1>8. CASE Finish
  BY <1>1, <1>8, FinishCalm
<1>9. CASE SkipTab \/ PlanTab \/ GuardRead \/ Rename
  <2>1. pc # "idle" /\ UNCHANGED calm
    BY <1>9, PlanTabCases DEF SkipTab, GuardRead, Rename, history
  <2>2. CASE ~calm.clean
    BY <2>1, <2>2, NotCounted
  <2>3. CASE calm.clean
    BY <1>1, <1>9, <2>3, SkipTabCalm, PlanTabCalm, GuardReadCalm, RenameCalm
  <2> QED BY <2>2, <2>3
<1> QED BY <1>2, <1>3, <1>4, <1>5, <1>6, <1>7, <1>8, <1>9, PassSteps DEF Next

LEMMA CalmHolds == Spec => []CalmInv
BY AllInit, AllStep, CalmInit, CalmStep, PTL DEF Spec

(***************************************************************************)
(* One undisturbed full reconciliation already brings the persisted state   *)
(* in line with the session.                                                *)
(***************************************************************************)
THEOREM StateDoesFollow == Spec => []StateFollowsSession
<1>1. CalmInv => StateFollowsSession
  BY DEF CalmInv, IdleCalm, StateFollows, PanesFollow, StateFollowsSession, Calm
<1> QED BY <1>1, CalmHolds, PTL

(***************************************************************************)
(* Three undisturbed full reconciliations number every label, or take the   *)
(* numbers away, for any labels to begin with and any names found meanwhile. *)
(***************************************************************************)
THEOREM NumberingDoesConverge ==
  ASSUME CalmPasses > 2
  PROVE  Spec => []NumberingConverges
<1>1. CalmInv => NumberingConverges
  <2> SUFFICES ASSUME CalmInv, Calm, NEW t \in Open
               PROVE  \/ Settled(t)
                      \/ calm.conf.auto /\ disk.tabs[t] = Unowned /\ IsPlaceholder(Strip(label[t]))
    BY DEF NumberingConverges
  <2>1. pc = "idle" /\ calm.passes > 2
    BY DEF Calm
  <2>2. Reached(calm.passes, calm.conf, Rank(t), disk.tabs[t], label[t])
    BY <2>1 DEF CalmInv, IdleCalm, Done
  <2> QED BY <2>1, <2>2 DEF CalmInv, Reached, Waits, Rendered, BeginsRight, Settled
<1> QED BY <1>1, CalmHolds, PTL
=============================================================================
