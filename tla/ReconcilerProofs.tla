--------------------------- MODULE ReconcilerProofs ---------------------------
(***************************************************************************)
(* Proofs about Reconciler: for any tabs, panes, names, settings and        *)
(* labels, and any interleaving of passes, failures and changes of the      *)
(* session.                                                                 *)
(***************************************************************************)
EXTENDS Reconciler, LabelProofs, SelectionProofs

-----------------------------------------------------------------------------
(* The inductive invariant: types *)

OwnedSet ==
  {o \in [own : {"owned"}, base : Names, shown : Label] : Strip(o.shown) = o.base}

PendingSet ==
  {o \in [own : {"pending"}, observed : Label, desired : Label, base : Names,
          previous : {Unowned, Reset} \cup OwnedSet] : Strip(o.desired) = o.base}

OwnershipSet == {Unowned, Manual, Disabled, Reset} \cup OwnedSet \cup PendingSet

StateSet == [suspended : BOOLEAN, tabs : [Tab -> OwnershipSet], panes : [Pane -> Tab \cup {NoTab}]]

SessionInv ==
  /\ order \in Seq(Tab)
  /\ IsInjective(order)
  /\ label \in [Tab -> Label]
  /\ place \in [Pane -> Open \cup {Unborn, Gone}]
  /\ gone \subseteq Tab
  /\ Open \cap gone = {}
  /\ env \in [renames : Nat, moves : Nat]
  /\ \A t \in Tab \ (Open \cup gone) : label[t] = FreshLabel

StateInv == disk \in StateSet /\ mem \in StateSet

Working == pc \in {"plan", "guard", "rename"}

PassInv ==
  /\ pc \in {"idle", "snapshot", "plan", "guard", "rename"}
  /\ inv \in Invocation \cup {Idle}
  /\ pc = "idle" <=> inv = Idle
  /\ pc # "idle" => conf \in Settings
  /\ Working => as \in Invocation /\ (inv.op = "clear" => as = inv)
  /\ snap \in [order : Seq(Tab), label : [Tab -> Label]]
  /\ Range(snap.order) \subseteq Open \cup gone
  /\ todo \in Seq(Tab)
  /\ IsInjective(todo)
  /\ Range(todo) \subseteq Range(snap.order)

PlanInv ==
  pc \in {"guard", "rename"} =>
    /\ todo # <<>>
    /\ plan \in [tab : {Head(todo)}, desired : Label, base : Label, owned : BOOLEAN]
    /\ plan.owned =>
         /\ inv.op # "clear"
         /\ plan.base \in Names
         /\ Strip(plan.desired) = plan.base
         /\ disk = mem
         /\ mem.tabs[plan.tab].own = "pending"
         /\ mem.tabs[plan.tab].observed = Seen(plan.tab)
         /\ mem.tabs[plan.tab].desired = plan.desired
    /\ ~plan.owned => FromText(plan.desired) = FromText(Seen(plan.tab))
    /\ ~conf.auto => FromText(plan.desired) = FromText(Seen(plan.tab))

TypeInv == SessionInv /\ StateInv /\ PassInv /\ PlanInv

\* The tabs that the pass has still to decide about.
Undecided == IF pc = "plan" THEN Range(todo)
             ELSE IF pc \in {"guard", "rename"} THEN Range(Tail(todo)) ELSE {}

ResolvedInv ==
  inv.op # "clear" => \A t \in Undecided \cap Open : mem.tabs[t].own # "pending"

-----------------------------------------------------------------------------
(* Who wrote a label *)

Recognises(state, t) == Resolve(state.tabs[t], label[t]) = Owned(Strip(label[t]), label[t])

\* What holds of a tab whose label the plugin has written.
PluginLabel(t) ==
  /\ Recognises(disk, t)
  /\ pc # "idle" => Recognises(mem, t)
  /\ Working => t \in Range(snap.order)
  /\ t \in Range(todo) => Seen(t) = label[t]
  /\ pc \in {"guard", "rename"} /\ t = plan.tab => plan.owned \/ inv.op = "clear"

AuthorInv ==
  /\ author \in [Tab -> {"herdr", "user", "plugin", "unclaimed"}]
  /\ \A t \in Tab \ Open : author[t] # "plugin"
  /\ \A t \in Open : author[t] = "plugin" => PluginLabel(t)

NotAName == \A t \in Tab \ gone : author[t] \in {"herdr", "user"} =>
              FromText(label[t]) \notin Names \ {<<>>}

-----------------------------------------------------------------------------
(* The names of the user *)

Durings == {"nothing", "number", "reset", "rename", "race"}
TypedSet == [text : Label, during : Durings]

Fixed(t) == typed[t] # NoName /\ typed[t].during = "nothing"

\* Ownership o does not let the plugin overwrite text x.
Protects(o, x) ==
  /\ o # Reset
  /\ o = Unowned => ~IsPlaceholder(x)
  /\ o.own = "owned" => o.base # x
  /\ o.own = "pending" => FromText(o.observed) # x /\ FromText(o.desired) # x

\* A name that the user has typed, and not fixed with a toggle.
IsUserText(x) == x \notin Names /\ ~IsPlaceholder(x)

\* What holds of a tab whose name the user has fixed.
FixedLabel(t) ==
  LET x == typed[t].text
  IN  /\ t \in Open
      /\ x # <<>> /\ FromText(label[t]) = x
      /\ Protects(disk.tabs[t], x)
      /\ pc # "idle" => Protects(mem.tabs[t], x)
      /\ Working => IsUserText(x) \/ (t \in Range(snap.order) /\ FromText(Seen(t)) = x)
      /\ pc = "rename" /\ plan.tab = t => FromText(Seen(t)) = x

FixedInv ==
  /\ typed \in [Tab -> TypedSet]
  /\ \A t \in Tab : Fixed(t) => FixedLabel(t)

ResetInv ==
  /\ inv.op = "reset" /\ pc = "snapshot" => mem.tabs[inv.tab] = Reset
  /\ \A t \in Undecided : Forced(t) => mem.tabs[t] = Reset

AllInv == TypeInv /\ ResolvedInv /\ AuthorInv /\ NotAName /\ FixedInv /\ ResetInv

-----------------------------------------------------------------------------
(* Ownership *)

\* What there is to know of an ownership, kind by kind.
LEMMA OwnershipKinds ==
  ASSUME NEW o \in OwnershipSet
  PROVE  /\ o.own \in {"unowned", "manual", "disabled", "reset", "owned", "pending"}
         /\ o.own = "unowned" <=> o = Unowned
         /\ o.own = "manual" <=> o = Manual
         /\ o.own = "disabled" <=> o = Disabled
         /\ o.own = "reset" <=> o = Reset
         /\ o.own = "owned" <=> o \in OwnedSet
         /\ o.own = "pending" <=> o \in PendingSet
<1>1. CASE o \in {Unowned, Manual, Disabled, Reset}
  <2>1. o.own \in {"unowned", "manual", "disabled", "reset"}
    BY <1>1 DEF Unowned, Manual, Disabled, Reset
  <2>2. o \notin OwnedSet /\ o \notin PendingSet
    BY <2>1 DEF OwnedSet, PendingSet
  <2> QED BY <1>1, <2>1, <2>2 DEF Unowned, Manual, Disabled, Reset
<1>2. CASE o \in OwnedSet
  <2>1. o.own = "owned"
    BY <1>2 DEF OwnedSet
  <2>2. o \notin PendingSet
    BY <2>1 DEF PendingSet
  <2> QED BY <1>2, <2>1, <2>2 DEF Unowned, Manual, Disabled, Reset
<1>3. CASE o \in PendingSet
  <2>1. o.own = "pending"
    BY <1>3 DEF PendingSet
  <2>2. o \notin OwnedSet
    BY <2>1 DEF OwnedSet
  <2> QED BY <1>3, <2>1, <2>2 DEF Unowned, Manual, Disabled, Reset
<1> QED BY <1>1, <1>2, <1>3 DEF OwnershipSet

LEMMA SimpleOwnership ==
  {Unowned, Manual, Disabled, Reset} \subseteq OwnershipSet /\ OwnedSet \subseteq OwnershipSet
    /\ PendingSet \subseteq OwnershipSet
BY DEF OwnershipSet

LEMMA OwnedFields ==
  ASSUME NEW o \in OwnedSet
  PROVE  /\ o.base \in Names /\ o.shown \in Label /\ Strip(o.shown) = o.base
         /\ o = Owned(o.base, o.shown)
BY DEF OwnedSet, Owned

LEMMA OwnedType ==
  ASSUME NEW base \in Names, NEW shown \in Label, Strip(shown) = base
  PROVE  /\ Owned(base, shown) \in OwnedSet
         /\ Owned(base, shown).own = "owned" /\ Owned(base, shown).base = base
         /\ Owned(base, shown).shown = shown
BY DEF OwnedSet, Owned

LEMMA PendingFields ==
  ASSUME NEW o \in PendingSet
  PROVE  /\ o.observed \in Label /\ o.desired \in Label /\ o.base \in Names
         /\ o.previous \in {Unowned, Reset} \cup OwnedSet
         /\ Strip(o.desired) = o.base
BY DEF PendingSet

LEMMA PendingType ==
  ASSUME NEW observed \in Label, NEW desired \in Label, NEW base \in Names,
         NEW previous \in {Unowned, Reset} \cup OwnedSet, Strip(desired) = base
  PROVE  LET o == Pending(observed, desired, base, previous)
         IN  /\ o \in PendingSet
             /\ o.own = "pending" /\ o.observed = observed /\ o.desired = desired
             /\ o.base = base /\ o.previous = previous
BY DEF PendingSet, Pending

\* The names the plugin renders are text, and labels.
LEMMA NameFacts ==
  ASSUME NEW n \in Names
  PROVE  n \in Label /\ FromText(n) = n /\ Strip(n) = n
BY NamesAssumption, StripOfText

(***************************************************************************)
(* resolve_pending_rename leaves no rename pending.                         *)
(***************************************************************************)
LEMMA ResolveType ==
  ASSUME NEW o \in OwnershipSet, NEW l \in Label
  PROVE  /\ Resolve(o, l) \in OwnershipSet
         /\ Resolve(o, l).own # "pending"
         /\ \A k : Resolve(Resolve(o, l), k) = Resolve(o, l)
<1>1. CASE o.own # "pending"
  BY <1>1 DEF Resolve
<1>2. CASE o.own = "pending"
  <2>1. o \in PendingSet
    BY <1>2, OwnershipKinds
  <2>2. /\ o.desired \in Label /\ o.base \in Names /\ Strip(o.desired) = o.base
        /\ o.previous \in {Unowned, Reset} \cup OwnedSet
    BY <2>1, PendingFields
  <2>3. Owned(o.base, o.desired) \in OwnedSet
    BY <2>2, OwnedType
  <2>4. Resolve(o, l) \in {Unowned, Reset, Manual} \cup OwnedSet
    BY <1>2, <2>2, <2>3 DEF Resolve
  <2>5. Resolve(o, l) \in OwnershipSet
    BY <2>4, SimpleOwnership
  <2>6. Resolve(o, l).own # "pending"
    BY <2>4 DEF Unowned, Reset, Manual, OwnedSet
  <2> QED BY <2>5, <2>6 DEF Resolve
<1> QED BY <1>1, <1>2

-----------------------------------------------------------------------------
(* The persisted state *)

LEMMA EmptyStateType == EmptyState \in StateSet
BY SimpleOwnership DEF EmptyState, StateSet

LEMMA SetOwnershipType ==
  ASSUME NEW state \in StateSet, NEW t \in Tab, NEW o \in OwnershipSet
  PROVE  /\ SetOwnership(state, t, o) \in StateSet
         /\ SetOwnership(state, t, o).tabs[t] = o
         /\ \A u \in Tab \ {t} : SetOwnership(state, t, o).tabs[u] = state.tabs[u]
BY DEF SetOwnership, StateSet

LEMMA RefreshType ==
  ASSUME NEW state \in StateSet, NEW where, NEW open \in SUBSET Tab
  PROVE  /\ Refresh(state, where, open) \in StateSet
         /\ Refresh(state, where, open).tabs = state.tabs
<1> DEFINE upserted(p) == IF where[p] \in open THEN where[p] ELSE state.panes[p]
           panes == [p \in Pane |-> IF upserted(p) \in open THEN upserted(p) ELSE NoTab]
<1>1. Refresh(state, where, open) = [state EXCEPT !.panes = panes]
  BY DEF Refresh
<1>2. panes \in [Pane -> Tab \cup {NoTab}]
  OBVIOUS
<1> HIDE DEF panes
<1> QED BY <1>1, <1>2 DEF StateSet

LEMMA PruneType ==
  ASSUME NEW state \in StateSet, NEW tabs
  PROVE  /\ Prune(state, tabs) \in StateSet
         /\ \A t \in Tab : Prune(state, tabs).tabs[t] = IF t \in tabs THEN state.tabs[t]
                                                        ELSE Unowned
<1>1. /\ state.tabs \in [Tab -> OwnershipSet] /\ state.panes \in [Pane -> Tab \cup {NoTab}]
      /\ state.suspended \in BOOLEAN
  BY DEF StateSet
<1>2. [t \in Tab |-> IF t \in tabs THEN state.tabs[t] ELSE Unowned] \in [Tab -> OwnershipSet]
  BY <1>1, SimpleOwnership
<1>3. [p \in Pane |-> IF state.panes[p] \in tabs THEN state.panes[p] ELSE NoTab]
        \in [Pane -> Tab \cup {NoTab}]
  BY <1>1
<1> QED BY <1>1, <1>2, <1>3 DEF Prune, StateSet

-----------------------------------------------------------------------------
(* The session *)

LEMMA OpenType == SessionInv => Open \in SUBSET Tab
BY DEF SessionInv, Open, Range

(***************************************************************************)
(* Closed tabs leave the session, with their panes, and the others stay.    *)
(***************************************************************************)
LEMMA ArrangeSession ==
  ASSUME SessionInv, NEW where \in [Pane -> Open \cup {Unborn, Gone}], Arrange(where),
         env' \in [renames : Nat, moves : Nat]
  PROVE  /\ SessionInv'
         /\ Open' \subseteq Open /\ Open' \cup gone' = Open \cup gone
         /\ Open' = Open \cap {where[p] : p \in Pane}
<1> DEFINE left == {where[p] : p \in Pane}
           D == {i \in DOMAIN order : order[i] \in left}
<1>1. /\ place' = where /\ order' = SelectAt(order, D) /\ gone' = gone \cup (Open \ left)
      /\ UNCHANGED label
  BY DEF Arrange
<1>2. order \in Seq(Tab) /\ IsInjective(order) /\ D \in SUBSET DOMAIN order
  BY DEF SessionInv
<1>3. order' \in Seq(Tab) /\ Range(order') = {order[d] : d \in D} /\ IsInjective(order')
  BY <1>1, <1>2, SelectAtProperties
<1>4. Open' = Open \cap left
  BY <1>3 DEF Open, Range
<1>5. Open \in SUBSET Tab
  BY OpenType
<1>6. place' \in [Pane -> Open' \cup {Unborn, Gone}]
  BY <1>1, <1>4
<1>7. gone' \subseteq Tab /\ Open' \cap gone' = {} /\ Open' \cup gone' = Open \cup gone
  BY <1>1, <1>4, <1>5 DEF SessionInv
<1>8. label' \in [Tab -> Label] /\ \A t \in Tab \ (Open' \cup gone') : label'[t] = FreshLabel
  BY <1>1, <1>7 DEF SessionInv
<1> HIDE DEF left, D
<1>9. Open' \subseteq Open
  BY <1>4
<1> QED BY <1>3, <1>4, <1>6, <1>7, <1>8, <1>9 DEF SessionInv, left

LEMMA MovedType ==
  ASSUME SessionInv, CanMove, Moved
  PROVE  env' \in [renames : Nat, moves : Nat]
<1>1. env \in [renames : Nat, moves : Nat] /\ env.moves > 0
  BY DEF SessionInv, CanMove
<1>2. env.moves - 1 \in Nat
  BY <1>1
<1> QED BY <1>1, <1>2 DEF Moved

\* Where the panes are after CloseTab(t), ClosePane(p) and PlacePane(p, t).
LEMMA PlacesType ==
  ASSUME SessionInv
  PROVE  /\ \A t : [p \in Pane |-> IF place[p] = t THEN Gone ELSE place[p]]
                     \in [Pane -> Open \cup {Unborn, Gone}]
         /\ \A p \in Pane : [place EXCEPT ![p] = Gone] \in [Pane -> Open \cup {Unborn, Gone}]
         /\ \A p \in Pane : \A t \in Open :
              [place EXCEPT ![p] = t] \in [Pane -> Open \cup {Unborn, Gone}]
<1>1. place \in [Pane -> Open \cup {Unborn, Gone}]
  BY DEF SessionInv
<1> QED BY <1>1

LEMMA RangeOfAppend ==
  ASSUME NEW s \in Seq(Tab), NEW t \in Tab
  PROVE  Range(Append(s, t)) = Range(s) \cup {t}
<1>1. /\ DOMAIN Append(s, t) = 1 .. Len(s) + 1 /\ DOMAIN s = 1 .. Len(s)
      /\ \A i \in 1 .. Len(s) : Append(s, t)[i] = s[i]
      /\ Append(s, t)[Len(s) + 1] = t
  BY AppendProperties
<1>2. Range(Append(s, t)) = {Append(s, t)[i] : i \in 1 .. Len(s) + 1}
  BY <1>1 DEF Range
<1>3. Range(s) = {s[i] : i \in 1 .. Len(s)}
  BY <1>1 DEF Range
<1>4. \A i \in 1 .. Len(s) + 1 : i \in 1 .. Len(s) \/ i = Len(s) + 1
  OBVIOUS
<1>5. Len(s) + 1 \in 1 .. Len(s) + 1 /\ 1 .. Len(s) \subseteq 1 .. Len(s) + 1
  OBVIOUS
<1> QED BY <1>1, <1>2, <1>3, <1>4, <1>5

\* Moving a tab swaps two tabs.
LEMMA TabsSwapped ==
  ASSUME SessionInv, NEW k, MoveTab(k)
  PROVE  order' \in Seq(Tab) /\ IsInjective(order') /\ Open' = Open
<1>1. /\ k \in 1 .. Len(order) - 1
      /\ order' = [order EXCEPT ![k] = order[k + 1], ![k + 1] = order[k]]
  BY DEF MoveTab
<1>2. order \in Seq(Tab) /\ IsInjective(order)
  BY DEF SessionInv
<1>3. k \in 1 .. Len(order) /\ k + 1 \in 1 .. Len(order) /\ k + 1 # k
  BY <1>1, <1>2
<1>4. /\ order' \in Seq(Tab) /\ Len(order') = Len(order)
      /\ DOMAIN order' = 1 .. Len(order) /\ DOMAIN order = 1 .. Len(order)
      /\ \A i \in 1 .. Len(order) : order'[i] = IF i = k + 1 THEN order[k]
                                                ELSE IF i = k THEN order[k + 1] ELSE order[i]
  BY <1>1, <1>2, <1>3
<1>5. IsInjective(order')
  BY <1>2, <1>3, <1>4 DEF IsInjective
<1>6. Open' = Open
  BY <1>3, <1>4 DEF Open, Range
<1> QED BY <1>4, <1>5, <1>6

(***************************************************************************)
(* What the user and Herdr do leaves the pass alone, forgets no closed tab  *)
(* and keeps the session well formed.                                       *)
(***************************************************************************)
LEMMA SessionStep ==
  ASSUME SessionInv, Session
  PROVE  /\ SessionInv'
         /\ Open \cup gone \subseteq Open' \cup gone' /\ gone \subseteq gone'
         /\ UNCHANGED <<disk, mem, pass>>
<1>1. ASSUME NEW t \in Tab, NEW l \in UserLabels, UserRename(t, l)
      PROVE  SessionInv' /\ Open' = Open /\ gone' = gone /\ UNCHANGED <<disk, mem, pass>>
  <2>1. /\ t \in Open /\ label' = [label EXCEPT ![t] = l]
        /\ env' = [env EXCEPT !.renames = @ - 1] /\ env.renames > 0
        /\ UNCHANGED <<order, place, gone, disk, mem, pass>>
    BY <1>1 DEF UserRename
  <2>2. l \in Label
    BY LabelsAssumption
  <2>3. label' \in [Tab -> Label] /\ \A u \in Tab \ Open : label'[u] = label[u]
    BY <2>1, <2>2 DEF SessionInv
  <2>4. env' \in [renames : Nat, moves : Nat]
    <3>1. env \in [renames : Nat, moves : Nat] /\ env.renames - 1 \in Nat
      BY <2>1 DEF SessionInv
    <3> QED BY <3>1, <2>1
  <2>5. Open' = Open
    BY <2>1 DEF Open
  <2> QED BY <2>1, <2>3, <2>4, <2>5 DEF SessionInv
<1>2. ASSUME NEW t \in Tab, NEW p \in Pane, OpenTab(t, p)
      PROVE  /\ SessionInv' /\ Open' = Open \cup {t} /\ gone' = gone
             /\ UNCHANGED <<disk, mem, pass>>
  <2>1. /\ t \notin Open /\ t \notin gone /\ order' = Append(order, t)
        /\ place' = [place EXCEPT ![p] = t] /\ CanMove /\ Moved
        /\ UNCHANGED <<label, gone, disk, mem, pass>>
    BY <1>2 DEF OpenTab
  <2>2. order \in Seq(Tab) /\ IsInjective(order)
    BY DEF SessionInv
  <2>3. /\ order' \in Seq(Tab) /\ Len(order') = Len(order) + 1
        /\ DOMAIN order' = 1 .. Len(order) + 1 /\ DOMAIN order = 1 .. Len(order)
        /\ \A i \in 1 .. Len(order) : order'[i] = order[i]
        /\ order'[Len(order) + 1] = t
    BY <2>1, <2>2, AppendProperties
  <2>4. \A i \in 1 .. Len(order) : order[i] # t
    BY <2>1, <2>3 DEF Open, Range
  <2>5. IsInjective(order')
    <3> SUFFICES ASSUME NEW i \in 1 .. Len(order) + 1, NEW j \in 1 .. Len(order) + 1,
                        order'[i] = order'[j]
                 PROVE  i = j
      BY <2>3 DEF IsInjective
    <3>1. i \in 1 .. Len(order) \/ i = Len(order) + 1
      BY <2>2
    <3>2. j \in 1 .. Len(order) \/ j = Len(order) + 1
      BY <2>2
    <3> QED BY <3>1, <3>2, <2>2, <2>3, <2>4 DEF IsInjective
  <2>6. Open' = Open \cup {t}
    BY <2>1, <2>2, RangeOfAppend DEF Open
  <2>7. place' \in [Pane -> Open' \cup {Unborn, Gone}]
    BY <2>1, <2>6 DEF SessionInv
  <2>8. env' \in [renames : Nat, moves : Nat]
    BY <2>1, MovedType
  <2>9. /\ label' \in [Tab -> Label] /\ gone' \subseteq Tab /\ Open' \cap gone' = {}
        /\ \A u \in Tab \ (Open' \cup gone') : label'[u] = FreshLabel
    BY <2>1, <2>6 DEF SessionInv
  <2> QED BY <2>1, <2>3, <2>5, <2>6, <2>7, <2>8, <2>9 DEF SessionInv
<1>3. ASSUME NEW t \in Tab, NEW p \in Pane, PlacePane(p, t)
      PROVE  /\ SessionInv' /\ Open' \cup gone' = Open \cup gone /\ gone \subseteq gone'
             /\ UNCHANGED <<disk, mem, pass>>
  <2>1. CanMove /\ Moved /\ t \in Open /\ Arrange([place EXCEPT ![p] = t])
    BY <1>3 DEF PlacePane
  <2>2. UNCHANGED <<disk, mem, pass>> /\ gone \subseteq gone'
    BY <2>1 DEF Arrange
  <2> QED BY <2>1, <2>2, MovedType, PlacesType, ArrangeSession
<1>4. ASSUME NEW t \in Tab, CloseTab(t)
      PROVE  /\ SessionInv' /\ Open' \cup gone' = Open \cup gone /\ gone \subseteq gone'
             /\ UNCHANGED <<disk, mem, pass>>
  <2>1. CanMove /\ Moved /\ Arrange([p \in Pane |-> IF place[p] = t THEN Gone ELSE place[p]])
    BY <1>4 DEF CloseTab
  <2>2. UNCHANGED <<disk, mem, pass>> /\ gone \subseteq gone'
    BY <2>1 DEF Arrange
  <2> QED BY <2>1, <2>2, MovedType, PlacesType, ArrangeSession
<1>5. ASSUME NEW p \in Pane, ClosePane(p)
      PROVE  /\ SessionInv' /\ Open' \cup gone' = Open \cup gone /\ gone \subseteq gone'
             /\ UNCHANGED <<disk, mem, pass>>
  <2>1. CanMove /\ Moved /\ Arrange([place EXCEPT ![p] = Gone])
    BY <1>5 DEF ClosePane
  <2>2. UNCHANGED <<disk, mem, pass>> /\ gone \subseteq gone'
    BY <2>1 DEF Arrange
  <2> QED BY <2>1, <2>2, MovedType, PlacesType, ArrangeSession
<1>6. ASSUME NEW k \in 1 .. Len(order), MoveTab(k)
      PROVE  SessionInv' /\ Open' = Open /\ gone' = gone /\ UNCHANGED <<disk, mem, pass>>
  <2>1. /\ k \in 1 .. Len(order) - 1
        /\ order' = [order EXCEPT ![k] = order[k + 1], ![k + 1] = order[k]]
        /\ CanMove /\ Moved
        /\ UNCHANGED <<label, place, gone, disk, mem, pass>>
    BY <1>6 DEF MoveTab
  <2>2. order' \in Seq(Tab) /\ IsInjective(order') /\ Open' = Open
    BY <1>6, TabsSwapped
  <2>3. env' \in [renames : Nat, moves : Nat]
    BY <2>1, MovedType
  <2> QED BY <2>1, <2>2, <2>3 DEF SessionInv
<1> QED BY <1>1, <1>2, <1>3, <1>4, <1>5, <1>6 DEF Session

-----------------------------------------------------------------------------
(* Targets and decisions *)

\* What the fields of an invocation are.
LEMMA InvocationFields ==
  ASSUME NEW i \in Invocation
  PROVE  /\ i.op \in {"full", "clear", "workspace", "closed_tab", "tab", "renamed", "reset",
                      "toggle", "closed_pane", "shell", "sample"}
         /\ i.op \in {"tab", "renamed", "reset", "toggle"} => i.tab \in Tab
         /\ i # Idle
BY DEF Invocation, TabInvocation, Idle

\* Without its first element a sequence that repeats nothing has all but that one.
LEMMA TailOfTargets ==
  ASSUME NEW s \in Seq(Tab), IsInjective(s), s # <<>>
  PROVE  /\ Head(s) \in Tab /\ Head(s) \in Range(s)
         /\ Tail(s) \in Seq(Tab) /\ IsInjective(Tail(s))
         /\ Range(Tail(s)) = Range(s) \ {Head(s)}
<1>1. /\ Tail(s) \in Seq(Tab) /\ Len(s) \in Nat \ {0} /\ Len(Tail(s)) = Len(s) - 1
      /\ DOMAIN s = 1 .. Len(s) /\ DOMAIN Tail(s) = 1 .. Len(s) - 1
      /\ \A i \in 1 .. Len(s) - 1 : Tail(s)[i] = s[i + 1]
      /\ Head(s) = s[1] /\ Head(s) \in Tab
  BY HeadTailProperties
<1>2. \A i \in 1 .. Len(s) - 1 : i + 1 \in 1 .. Len(s) /\ i + 1 # 1
  BY <1>1
<1>3. IsInjective(Tail(s))
  BY <1>1, <1>2 DEF IsInjective
<1>4. Head(s) \in Range(s)
  BY <1>1 DEF Range
<1>5. ASSUME NEW x \in Range(Tail(s)) PROVE x \in Range(s) /\ x # Head(s)
  <2>1. PICK i \in 1 .. Len(s) - 1 : x = s[i + 1]
    BY <1>1 DEF Range
  <2>2. i + 1 \in 1 .. Len(s) /\ 1 \in 1 .. Len(s) /\ i + 1 # 1
    BY <1>1, <1>2
  <2> QED BY <1>1, <2>1, <2>2 DEF Range, IsInjective
<1>6. ASSUME NEW x \in Range(s), x # Head(s) PROVE x \in Range(Tail(s))
  <2>1. PICK i \in 1 .. Len(s) : x = s[i]
    BY <1>1 DEF Range
  <2>2. i # 1
    BY <2>1, <1>1, <1>6
  <2>3. i - 1 \in 1 .. Len(s) - 1 /\ i - 1 + 1 = i
    BY <1>1, <2>2
  <2> QED BY <2>1, <2>3, <1>1 DEF Range
<1> QED BY <1>1, <1>3, <1>4, <1>5, <1>6

LEMMA PositionType ==
  ASSUME NEW tabs \in Seq(Tab), NEW t \in Range(tabs)
  PROVE  Position(tabs, t) \in Nat
<1> DEFINE upto == CHOOSE i \in DOMAIN tabs : tabs[i] = t
           before == {i \in 1 .. upto : WorkspaceOf[tabs[i]] = WorkspaceOf[t]}
<1>1. upto \in DOMAIN tabs
  BY DEF Range
<1>2. upto \in Nat
  BY <1>1
<1> HIDE DEF upto
<1>3. IsFiniteSet(1 .. upto)
  BY <1>2, FS_Interval
<1>4. before \in SUBSET (1 .. upto)
  OBVIOUS
<1>5. Cardinality(before) \in Nat
  BY <1>3, <1>4, FS_Subset, FS_CardinalityType
<1> QED BY <1>5 DEF Position, upto

(***************************************************************************)
(* With a number or without, the desired label has the text of its base.    *)
(***************************************************************************)
LEMMA DesiredText ==
  ASSUME PassInv, NEW t \in Range(snap.order), NEW base \in Label
  PROVE  /\ Desired(t, base) \in Label
         /\ FromText(Desired(t, base)) = FromText(base)
         /\ base \in Names => Strip(Desired(t, base)) = base
<1>1. Position(snap.order, t) \in Nat
  BY PositionType DEF PassInv
<1>2. /\ Numbered(Position(snap.order, t), base) \in Label
      /\ FromText(Numbered(Position(snap.order, t), base)) = FromText(base)
      /\ Strip(Numbered(Position(snap.order, t), base)) = FromText(base)
  BY <1>1, NumberedKeepsText
<1>3. base \in Names => FromText(base) = base /\ Strip(base) = base
  BY NameFacts
<1> QED BY <1>2, <1>3 DEF Desired

(***************************************************************************)
(* The variable ownership of reconcile_tab, and the entry it leaves.        *)
(***************************************************************************)
LEMMA OwnershipFacts ==
  ASSUME StateInv, NEW t \in Tab
  PROVE  /\ mem.tabs[t] \in OwnershipSet
         /\ Ownership(t) \in OwnershipSet
         /\ Ownership(t).own = "owned" =>
              /\ Ownership(t) = mem.tabs[t] /\ Ownership(t).base \in Names
              /\ Ownership(t).base = Strip(Seen(t)) /\ Ownership(t).shown = Seen(t)
         /\ Previous(Ownership(t)) \in {Unowned, Reset} \cup OwnedSet
         /\ Entry(t) \in {Ownership(t), Unowned, Manual} /\ Entry(t) \in OwnershipSet
<1>1. mem.tabs[t] \in OwnershipSet
  BY DEF StateInv, StateSet
<1>2. Ownership(t) \in {Manual, mem.tabs[t]} /\ Ownership(t) \in OwnershipSet
  BY <1>1, SimpleOwnership DEF Ownership
<1>3. ASSUME Ownership(t).own = "owned"
      PROVE  /\ Ownership(t) = mem.tabs[t] /\ Ownership(t).base \in Names
             /\ Ownership(t).base = Strip(Seen(t)) /\ Ownership(t).shown = Seen(t)
  <2>1. Ownership(t) # Manual
    BY <1>3 DEF Manual
  <2>2. ~Disowned(t) /\ Ownership(t) = mem.tabs[t]
    BY <2>1 DEF Ownership
  <2>3. Ownership(t) \in OwnedSet
    BY <1>2, <1>3, OwnershipKinds
  <2> QED BY <1>3, <2>2, <2>3, OwnedFields DEF Disowned
<1>4. Previous(Ownership(t)) \in {Unowned, Reset} \cup OwnedSet
  BY <1>2, OwnershipKinds DEF Previous
<1>5. Entry(t) \in {Ownership(t), Unowned, Manual}
  BY DEF Entry
<1> QED BY <1>1, <1>2, <1>3, <1>4, <1>5, SimpleOwnership

(***************************************************************************)
(* The decision about one tab: what the plugin renders for itself is a name *)
(* and reads back; otherwise, or with automatic naming off, the text stays. *)
(***************************************************************************)
LEMMA Decision ==
  ASSUME StateInv, PassInv, pc # "idle", NEW t \in Range(snap.order), NEW computed \in Computed(t)
  PROVE  LET base    == DesiredBase(t, computed)
             desired == Desired(t, base)
             owned   == PluginOwned(t, computed)
         IN  /\ t \in Tab /\ Seen(t) \in Label
             /\ base \in Label /\ desired \in Label /\ owned \in BOOLEAN
             /\ owned => base \in Names /\ Strip(desired) = base
             /\ ~owned => FromText(desired) = FromText(Seen(t)) /\ Ownership(t).own # "owned"
             /\ ~conf.auto => FromText(desired) = FromText(Seen(t))
             /\ owned /\ computed = NoResult => Ownership(t).own = "owned"
<1> DEFINE base    == DesiredBase(t, computed)
           desired == Desired(t, base)
           owned   == PluginOwned(t, computed)
<1>1. t \in Tab /\ Seen(t) \in Label
  BY DEF PassInv, Range, Seen
<1>2. computed # NoResult => /\ conf.auto /\ Eligible(t)
                             /\ \E n \in Names : computed = <<n>>
  BY DEF Computed
<1>3. computed # NoResult => computed[1] \in Names
  BY <1>2
<1>4. ASSUME computed # NoResult
      PROVE  /\ base \in Label /\ desired \in Label
             /\ base \in Names /\ owned /\ Strip(desired) = base /\ conf.auto
  <2>1. base \in Names /\ owned
    BY <1>2, <1>3, <1>4 DEF DesiredBase, PluginOwned
  <2>2. base \in Label
    BY <2>1, NameFacts
  <2>3. desired \in Label /\ Strip(desired) = base
    BY <2>1, <2>2, DesiredText
  <2>4. conf.auto
    BY <1>2, <1>4
  <2> QED BY <2>1, <2>2, <2>3, <2>4
<1>5. ASSUME computed = NoResult, Ownership(t).own = "owned"
      PROVE  /\ base \in Label /\ desired \in Label /\ FromText(desired) = FromText(Seen(t))
             /\ base \in Names /\ owned /\ Strip(desired) = base
  <2>1. base = Ownership(t).base /\ base \in Names /\ base = Strip(Seen(t))
    BY <1>1, <1>5, OwnershipFacts DEF DesiredBase
  <2>2. base \in Label /\ FromText(base) = FromText(Seen(t))
    BY <1>1, <2>1, NameFacts, StripKeepsText
  <2>3. desired \in Label /\ Strip(desired) = base /\ FromText(desired) = FromText(Seen(t))
    BY <2>1, <2>2, DesiredText
  <2>4. owned
    BY <1>5 DEF PluginOwned, Eligible
  <2> QED BY <2>1, <2>2, <2>3, <2>4
<1>6. ASSUME computed = NoResult, Ownership(t).own # "owned"
      PROVE  /\ base \in Label /\ desired \in Label /\ FromText(desired) = FromText(Seen(t))
             /\ ~owned
  <2>1. base = Strip(Seen(t)) /\ ~owned
    BY <1>6 DEF DesiredBase, PluginOwned
  <2>2. base \in Label /\ FromText(base) = FromText(Seen(t))
    BY <1>1, <2>1, StripKeepsText
  <2>3. desired \in Label /\ FromText(desired) = FromText(Seen(t))
    BY <2>2, DesiredText
  <2> QED BY <2>1, <2>2, <2>3
<1>7. owned \in BOOLEAN
  BY DEF PluginOwned
<1> HIDE DEF base, desired, owned
<1>8. /\ base \in Label /\ desired \in Label
      /\ owned => base \in Names /\ Strip(desired) = base
      /\ ~owned => FromText(desired) = FromText(Seen(t)) /\ Ownership(t).own # "owned"
      /\ ~conf.auto => FromText(desired) = FromText(Seen(t))
      /\ owned /\ computed = NoResult => Ownership(t).own = "owned"
  BY <1>4, <1>5, <1>6
<1> QED BY <1>1, <1>7, <1>8 DEF base, desired, owned

-----------------------------------------------------------------------------
(* Types, action by action *)

\* A pass opens, moves and closes nothing.
LEMMA SessionFrame ==
  ASSUME SessionInv, UNCHANGED <<order, place, gone, env>>, label' \in [Tab -> Label],
         \A t \in Tab \ Open : label'[t] = label[t]
  PROVE  SessionInv' /\ Open' = Open /\ gone' = gone
<1>1. Open' = Open
  BY DEF Open
<1> QED BY <1>1 DEF SessionInv

LEMMA PassKeepsSession ==
  ASSUME SessionInv, UNCHANGED session
  PROVE  SessionInv' /\ Open' = Open /\ gone' = gone
BY DEF session, SessionInv, Open

\* Nothing is left to do when a pass ends.
LEMMA EndOfPassType ==
  ASSUME SessionInv', disk' \in StateSet, EndOfPass
  PROVE  TypeInv'
<1>1. /\ pc' = "idle" /\ inv' = Idle /\ todo' = <<>>
      /\ snap' = [order |-> <<>>, label |-> [t \in Tab |-> <<>>]] /\ mem' = EmptyState
  BY DEF EndOfPass
<1>2. StateInv'
  BY <1>1, EmptyStateType DEF StateInv
<1>3. snap' \in [order : Seq(Tab), label : [Tab -> Label]] /\ snap'.order = <<>>
  <2>1. <<>> \in Seq(Tab) /\ <<>> \in Label
    BY DEF Label
  <2> QED BY <1>1, <2>1
<1>4. Range(snap'.order) = {} /\ Range(todo') = {} /\ IsInjective(todo') /\ todo' \in Seq(Tab)
  BY <1>1, <1>3 DEF Range, IsInjective
<1>5. PassInv'
  BY <1>1, <1>3, <1>4 DEF PassInv, Working
<1>6. PlanInv'
  BY <1>1 DEF PlanInv
<1> QED BY <1>2, <1>5, <1>6 DEF TypeInv

\* The pass goes on with the next target.
LEMMA NextTargetType ==
  ASSUME PassInv, SessionInv', StateInv', Open' = Open, gone' = gone,
         Working, todo # <<>>, pc' = "plan", todo' = Tail(todo), UNCHANGED <<conf, inv, as, snap>>
  PROVE  TypeInv'
<1>1. todo \in Seq(Tab) /\ IsInjective(todo)
  BY DEF PassInv
<1>2. todo' \in Seq(Tab) /\ IsInjective(todo') /\ Range(todo') \subseteq Range(todo)
  BY <1>1, TailOfTargets
<1>3. pc # "idle"
  BY DEF Working
<1>4. PassInv'
  BY <1>2, <1>3 DEF PassInv, Working
<1>5. PlanInv'
  BY DEF PlanInv
<1> QED BY <1>4, <1>5 DEF TypeInv

\* What is known of the target of reconcile_tab.
LEMMA TargetType ==
  ASSUME PassInv, pc = "plan", todo # <<>>
  PROVE  /\ Target \in Tab /\ Target \in Range(todo) /\ Target \in Range(snap.order)
         /\ Seen(Target) \in Label
<1>1. todo \in Seq(Tab) /\ IsInjective(todo) /\ Range(todo) \subseteq Range(snap.order)
  BY DEF PassInv
<1>2. snap.label \in [Tab -> Label]
  BY DEF PassInv
<1> QED BY <1>1, <1>2, TailOfTargets DEF Target, Seen

LEMMA SessionType ==
  ASSUME TypeInv, Session
  PROVE  TypeInv'
<1>1. /\ SessionInv' /\ Open \cup gone \subseteq Open' \cup gone'
      /\ UNCHANGED <<disk, mem, pc, conf, inv, as, snap, todo, plan>>
  BY SessionStep DEF TypeInv, pass
<1>2. PassInv /\ StateInv /\ PlanInv
  BY DEF TypeInv
<1>3. StateInv'
  BY <1>1, <1>2 DEF StateInv
<1>4. PassInv'
  BY <1>1, <1>2 DEF PassInv, Working
<1>5. PlanInv'
  BY <1>1, <1>2 DEF PlanInv, Seen
<1> QED BY <1>1, <1>3, <1>4, <1>5 DEF TypeInv

LEMMA BeginType ==
  ASSUME TypeInv, NEW i \in Invocation, Begin(i)
  PROVE  TypeInv'
<1>1. /\ pc = "idle" /\ disk' = mem' /\ pc' = "snapshot" /\ conf' \in Settings /\ inv' = i
      /\ UNCHANGED <<order, label, place, gone, env, as, snap, todo, plan>>
      /\ mem' = CASE i.op = "clear" -> [disk EXCEPT !.suspended = TRUE]
                  [] i.op = "reset" ->
                       SetOwnership([disk EXCEPT !.suspended = FALSE], i.tab, Reset)
                  [] i.op = "toggle" -> [disk EXCEPT !.suspended = FALSE]
                  [] OTHER -> disk
  BY DEF Begin, session
<1>2. SessionInv /\ PassInv /\ disk \in StateSet
  BY DEF TypeInv, StateInv
<1>3. [disk EXCEPT !.suspended = FALSE] \in StateSet /\ [disk EXCEPT !.suspended = TRUE] \in StateSet
  BY <1>2 DEF StateSet
<1>4. i.op = "reset" => i.tab \in Tab
  BY InvocationFields
<1>5. Reset \in OwnershipSet
  BY SimpleOwnership
<1>6. i.op = "reset" => SetOwnership([disk EXCEPT !.suspended = FALSE], i.tab, Reset) \in StateSet
  BY <1>3, <1>4, <1>5, SetOwnershipType
<1>7. mem' \in StateSet
  BY <1>1, <1>2, <1>3, <1>6
<1>8. SessionInv' /\ Open' = Open /\ gone' = gone
  BY <1>1, <1>2, PassKeepsSession DEF session
<1>9. i # Idle
  BY InvocationFields
<1>10. PassInv'
  BY <1>1, <1>2, <1>8, <1>9 DEF PassInv, Working
<1>11. PlanInv'
  BY <1>1 DEF PlanInv
<1> QED BY <1>1, <1>7, <1>8, <1>10, <1>11 DEF TypeInv, StateInv

\* The entry of tab t after recovery and before a toggle.
Removed(t) == IF WasLastPane /\ t = MappedTab THEN Unowned
              ELSE IF t \in Open THEN Resolve(mem.tabs[t], label[t])
              ELSE mem.tabs[t]

(***************************************************************************)
(* What run_pass has done to the entries when it starts with the targets:   *)
(* those of open tabs are resolved, or toggled.                             *)
(***************************************************************************)
LEMMA RecoveredEntries ==
  ASSUME SessionInv, StateInv, inv \in Invocation
  PROVE  /\ Recovered \in StateSet
         /\ \A t \in Tab : Recovered.tabs[t] = IF inv.op = "toggle" /\ t \in Open /\ inv.tab = t
                                               THEN Toggled(Resolve(mem.tabs[t], label[t]), label[t])
                                               ELSE Removed(t)
         /\ \A t \in Open : Recovered.tabs[t].own # "pending"
<1> DEFINE refreshed == Refresh(mem, place, Open)
           tabs == [t \in Tab |-> Removed(t)]
           panes == [p \in Pane |-> IF inv.op = "closed_pane" /\ p = inv.pane
                                    THEN NoTab ELSE refreshed.panes[p]]
           removed == [refreshed EXCEPT !.panes = panes, !.tabs = tabs]
<1>1. Open \in SUBSET Tab
  BY OpenType
<1>2. refreshed \in StateSet /\ refreshed.tabs = mem.tabs
  BY <1>1, RefreshType DEF StateInv
<1>3. \A t \in Tab : mem.tabs[t] \in OwnershipSet
  BY DEF StateInv, StateSet
<1>4. \A t \in Open : label[t] \in Label
  BY <1>1 DEF SessionInv
<1>5. \A t \in Open : Resolve(mem.tabs[t], label[t]) \in OwnershipSet
                      /\ Resolve(mem.tabs[t], label[t]).own # "pending"
  BY <1>1, <1>3, <1>4, ResolveType
<1>6. \A t \in Open : Removed(t) = Resolve(mem.tabs[t], label[t])
  BY DEF Removed, WasLastPane
<1>7. tabs \in [Tab -> OwnershipSet]
  BY <1>3, <1>5, SimpleOwnership DEF Removed
<1>8. refreshed.panes \in [Pane -> Tab \cup {NoTab}] /\ refreshed.suspended \in BOOLEAN
  BY <1>2 DEF StateSet
<1>9. panes \in [Pane -> Tab \cup {NoTab}]
  BY <1>8
<1>10. Recovered = IF inv.op = "toggle" /\ inv.tab \in Open
                   THEN SetOwnership(removed, inv.tab,
                                     Toggled(removed.tabs[inv.tab], label[inv.tab]))
                   ELSE removed
  BY <1>2 DEF Recovered, Removed
<1> HIDE DEF refreshed, tabs, panes
<1>11. removed \in StateSet /\ removed.tabs = tabs
  BY <1>2, <1>7, <1>9 DEF StateSet
<1>12. \A t \in Tab : removed.tabs[t] = Removed(t)
  BY <1>11 DEF tabs
<1> HIDE DEF removed
<1>13. \A t \in Open : removed.tabs[t] = Resolve(mem.tabs[t], label[t])
  BY <1>1, <1>6, <1>12
<1>14. CASE inv.op = "toggle" /\ inv.tab \in Open
  <2> DEFINE new == Toggled(removed.tabs[inv.tab], label[inv.tab])
  <2>1. new \in OwnershipSet /\ new.own # "pending"
    BY SimpleOwnership DEF Toggled, Reset, Disabled
  <2>2. inv.tab \in Tab /\ new = Toggled(Resolve(mem.tabs[inv.tab], label[inv.tab]), label[inv.tab])
    BY <1>1, <1>13, <1>14
  <2>3. Recovered = SetOwnership(removed, inv.tab, new)
    BY <1>10, <1>14
  <2> HIDE DEF new
  <2>4. /\ Recovered \in StateSet /\ Recovered.tabs[inv.tab] = new
        /\ \A u \in Tab \ {inv.tab} : Recovered.tabs[u] = removed.tabs[u]
    BY <1>11, <2>1, <2>2, <2>3, SetOwnershipType
  <2>5. \A t \in Open : Recovered.tabs[t].own # "pending"
    BY <1>1, <1>5, <1>13, <2>1, <2>4
  <2> QED BY <1>12, <1>14, <2>2, <2>4, <2>5
<1>15. CASE ~(inv.op = "toggle" /\ inv.tab \in Open)
  <2>1. Recovered = removed
    BY <1>10, <1>15
  <2>2. \A t \in Open : Recovered.tabs[t].own # "pending"
    BY <1>5, <1>13, <2>1
  <2> QED BY <1>11, <1>12, <1>15, <2>1, <2>2
<1> QED BY <1>14, <1>15

\* The targets are tabs of the snapshot.
LEMMA SnapshotType ==
  ASSUME SessionInv, UNCHANGED session, NEW D \in SUBSET (DOMAIN order),
         snap' = [order |-> order, label |-> label], todo' = SelectAt(order, D)
  PROVE  /\ snap' \in [order : Seq(Tab), label : [Tab -> Label]]
         /\ snap'.order = order /\ snap'.label = label /\ Range(snap'.order) = Open
         /\ todo' \in Seq(Tab) /\ IsInjective(todo')
         /\ Range(todo') = {order[k] : k \in D} /\ Range(todo') \subseteq Open
<1>1. order \in Seq(Tab) /\ IsInjective(order) /\ label \in [Tab -> Label]
  BY DEF SessionInv
<1>2. todo' \in Seq(Tab) /\ Range(todo') = {order[k] : k \in D} /\ IsInjective(todo')
  BY <1>1, SelectAtProperties
<1>3. Range(todo') \subseteq Open
  BY <1>2 DEF Open, Range
<1> QED BY <1>1, <1>2, <1>3 DEF Open

LEMMA TakeSnapshotType ==
  ASSUME TypeInv, TakeSnapshot
  PROVE  TypeInv'
<1> DEFINE D == {k \in DOMAIN order : InScope(as', order[k], MappedTab)}
<1>1. /\ pc = "snapshot" /\ inv.op # "clear" /\ mem' = Recovered
      /\ inv.op = "closed_pane" => ClosedPaneValid \/ WasLastPane
      /\ disk' = IF inv.op = "toggle" THEN mem' ELSE disk
      /\ as' = IF Vanished THEN [op |-> "closed_tab", ws |-> VanishedFrom] ELSE inv
      /\ snap' = [order |-> order, label |-> label] /\ todo' = SelectAt(order, D)
      /\ pc' = "plan" /\ UNCHANGED <<session, conf, inv, plan>>
  BY DEF TakeSnapshot
<1>2. SessionInv /\ StateInv /\ PassInv /\ inv \in Invocation /\ conf \in Settings
  BY <1>1 DEF TypeInv, PassInv
<1>3. SessionInv' /\ Open' = Open /\ gone' = gone
  BY <1>1, <1>2, PassKeepsSession
<1>4. mem' \in StateSet
  BY <1>1, <1>2, RecoveredEntries
<1>5. StateInv'
  BY <1>1, <1>2, <1>4 DEF StateInv
<1>6. D \in SUBSET (DOMAIN order)
  OBVIOUS
<1> HIDE DEF D
<1>7. /\ snap' \in [order : Seq(Tab), label : [Tab -> Label]] /\ Range(snap'.order) = Open
      /\ todo' \in Seq(Tab) /\ IsInjective(todo') /\ Range(todo') \subseteq Open
  BY <1>1, <1>2, <1>6, SnapshotType
<1>8. as' \in Invocation
  <2>1. CASE ~Vanished
    BY <1>1, <1>2, <2>1
  <2>2. CASE inv.op = "tab" /\ Vanished
    <3>1. inv.tab \in Tab
      BY <1>2, <2>2, InvocationFields
    <3>2. WorkspaceOf[inv.tab] \in Workspace
      BY <3>1, ReconcilerAssumption
    <3> QED BY <1>1, <2>2, <3>2 DEF VanishedFrom, Invocation
  <2>3. CASE inv.op # "tab" /\ Vanished
    <3>1. inv.op = "closed_pane"
      BY <2>3 DEF Vanished, WasLastPane, MappedTab
    <3>2. inv.ws \in Workspace
      BY <3>1, <1>2 DEF Invocation, TabInvocation
    <3> QED BY <1>1, <2>3, <3>2 DEF VanishedFrom, Invocation
  <2> QED BY <2>1, <2>2, <2>3
<1>9. PassInv'
  BY <1>1, <1>2, <1>3, <1>7, <1>8, InvocationFields DEF PassInv, Working
<1>10. PlanInv'
  BY <1>1 DEF PlanInv
<1> QED BY <1>3, <1>5, <1>9, <1>10 DEF TypeInv

LEMMA TakeClearSnapshotType ==
  ASSUME TypeInv, TakeClearSnapshot
  PROVE  TypeInv'
<1> DEFINE D == {k \in DOMAIN order : Strip(label[order[k]]) # label[order[k]]}
<1>1. /\ pc = "snapshot" /\ inv.op = "clear" /\ as' = inv /\ todo' = SelectAt(order, D)
      /\ snap' = [order |-> order, label |-> label] /\ pc' = "plan"
      /\ UNCHANGED <<session, disk, mem, conf, inv, plan>>
  BY DEF TakeClearSnapshot
<1>2. SessionInv /\ StateInv /\ PassInv /\ inv \in Invocation /\ conf \in Settings
  BY <1>1 DEF TypeInv, PassInv
<1>3. SessionInv' /\ Open' = Open /\ gone' = gone
  BY <1>1, <1>2, PassKeepsSession
<1>4. D \in SUBSET (DOMAIN order)
  OBVIOUS
<1> HIDE DEF D
<1>5. /\ snap' \in [order : Seq(Tab), label : [Tab -> Label]] /\ Range(snap'.order) = Open
      /\ todo' \in Seq(Tab) /\ IsInjective(todo') /\ Range(todo') \subseteq Open
  BY <1>1, <1>2, <1>4, SnapshotType
<1>6. PassInv'
  BY <1>1, <1>2, <1>3, <1>5, InvocationFields DEF PassInv, Working
<1>7. StateInv' /\ PlanInv'
  BY <1>1, <1>2 DEF StateInv, PlanInv
<1> QED BY <1>3, <1>6, <1>7 DEF TypeInv

LEMMA IgnoreClosedPaneType ==
  ASSUME TypeInv, IgnoreClosedPane
  PROVE  TypeInv'
<1>1. disk' = Refresh(mem, place, Open) /\ EndOfPass /\ UNCHANGED session
  BY DEF IgnoreClosedPane
<1>2. SessionInv /\ StateInv
  BY DEF TypeInv
<1>3. disk' \in StateSet
  BY <1>1, <1>2, OpenType, RefreshType DEF StateInv
<1> QED BY <1>1, <1>2, <1>3, PassKeepsSession, EndOfPassType

LEMMA FailType ==
  ASSUME TypeInv, Fail
  PROVE  TypeInv'
<1>1. EndOfPass /\ UNCHANGED <<session, disk>>
  BY DEF Fail
<1>2. SessionInv /\ disk \in StateSet
  BY DEF TypeInv, StateInv
<1> QED BY <1>1, <1>2, PassKeepsSession, EndOfPassType

LEMMA FinishType ==
  ASSUME TypeInv, Finish
  PROVE  TypeInv'
<1>1. /\ EndOfPass /\ UNCHANGED session
      /\ disk' \in {mem, Prune(mem, {}), Prune(mem, Range(snap.order))}
  BY DEF Finish
<1>2. SessionInv /\ mem \in StateSet
  BY DEF TypeInv, StateInv
<1>3. disk' \in StateSet
  BY <1>1, <1>2, PruneType
<1> QED BY <1>1, <1>2, <1>3, PassKeepsSession, EndOfPassType

LEMMA SkipTabType ==
  ASSUME TypeInv, SkipTab
  PROVE  TypeInv'
<1>1. /\ pc = "plan" /\ todo # <<>> /\ UNCHANGED disk
      /\ Proceed(mem) \/ Proceed(SetOwnership(mem, Target, Manual))
  BY DEF SkipTab
<1>2. SessionInv /\ StateInv /\ PassInv
  BY DEF TypeInv
<1>3. Target \in Tab /\ Manual \in OwnershipSet
  BY <1>1, <1>2, TargetType, SimpleOwnership
<1>4. mem' \in StateSet /\ pc' = "plan" /\ todo' = Tail(todo) /\ UNCHANGED <<session, conf, inv, as, snap>>
  BY <1>1, <1>2, <1>3, SetOwnershipType DEF Proceed, StateInv
<1>5. StateInv'
  BY <1>1, <1>2, <1>4 DEF StateInv
<1>6. SessionInv' /\ Open' = Open /\ gone' = gone
  BY <1>2, <1>4, PassKeepsSession
<1> QED BY <1>1, <1>2, <1>4, <1>5, <1>6, NextTargetType DEF Working

(***************************************************************************)
(* The two outcomes of reconcile_tab that leave something to look at: the   *)
(* label stays (NothingToRename) or a rename is planned.                    *)
(***************************************************************************)
NothingToRename(computed) ==
  LET t       == Target
      base    == DesiredBase(t, computed)
      desired == Desired(t, base)
      owned   == PluginOwned(t, computed)
  IN  /\ desired = Seen(t)
      /\ Proceed(SetOwnership(mem, t, IF owned THEN Owned(base, desired) ELSE Entry(t)))
      /\ author' = [author EXCEPT ![t] =
                      IF owned /\ label[t] = desired /\ @ # "plugin" THEN "unclaimed" ELSE @]
      /\ UNCHANGED disk

RenamePlanned(computed) ==
  LET t       == Target
      base    == DesiredBase(t, computed)
      desired == Desired(t, base)
      owned   == PluginOwned(t, computed)
  IN  /\ desired # Seen(t)
      /\ plan' = [tab |-> t, desired |-> desired, base |-> base, owned |-> owned]
      /\ mem' = SetOwnership(mem, t, IF owned THEN Pending(Seen(t), desired, base,
                                                          Previous(Ownership(t)))
                                     ELSE Entry(t))
      /\ disk' = IF owned THEN mem' ELSE disk
      /\ pc' = "guard"
      /\ UNCHANGED <<session, conf, inv, as, snap, todo, author>>

LEMMA PlanTabCases ==
  ASSUME PlanTab
  PROVE  /\ pc = "plan" /\ inv.op # "clear" /\ todo # <<>> /\ UNCHANGED <<typed, calm>>
         /\ Disowned(Target) => RenameEventOf(Target)
         /\ InitialAdoption(Target) => as.op = "shell"
         /\ \E computed \in Computed(Target) :
              \/ InitialAdoption(Target) /\ Proceed(mem) /\ UNCHANGED <<disk, author>>
              \/ /\ InitialAdoption(Target) => computed # NoResult
                 /\ NothingToRename(computed) \/ RenamePlanned(computed)
<1>1. /\ pc = "plan" /\ inv.op # "clear" /\ todo # <<>> /\ UNCHANGED <<typed, calm>>
      /\ Disowned(Target) => RenameEventOf(Target)
      /\ InitialAdoption(Target) => as.op = "shell"
  BY DEF PlanTab
<1>2. PICK computed \in Computed(Target) :
        \/ InitialAdoption(Target) /\ Proceed(mem) /\ UNCHANGED <<disk, author>>
        \/ /\ ~(InitialAdoption(Target) /\ computed = NoResult)
           /\ NothingToRename(computed) \/ RenamePlanned(computed)
  BY DEF PlanTab, NothingToRename, RenamePlanned, RecordRename
<1> QED BY <1>1, <1>2

LEMMA PlanTabType ==
  ASSUME TypeInv, PlanTab
  PROVE  TypeInv'
<1>1. SessionInv /\ StateInv /\ PassInv /\ mem \in StateSet /\ disk \in StateSet
  BY DEF TypeInv, StateInv
<1>2. pc = "plan" /\ inv.op # "clear" /\ todo # <<>> /\ Working /\ pc # "idle"
  BY PlanTabCases DEF Working
<1>3. Target \in Tab /\ Target \in Range(snap.order) /\ Seen(Target) \in Label
  BY <1>1, <1>2, TargetType
<1>4. ASSUME NEW state \in StateSet, Proceed(state), UNCHANGED disk
      PROVE  TypeInv'
  <2>1. mem' = state /\ pc' = "plan" /\ todo' = Tail(todo) /\ UNCHANGED <<session, conf, inv, as, snap>>
    BY <1>4 DEF Proceed
  <2>2. StateInv'
    BY <1>1, <1>4, <2>1 DEF StateInv
  <2>3. SessionInv' /\ Open' = Open /\ gone' = gone
    BY <1>1, <2>1, PassKeepsSession
  <2> QED BY <1>1, <1>2, <2>1, <2>2, <2>3, NextTargetType
<1>5. ASSUME NEW computed \in Computed(Target), NothingToRename(computed)
      PROVE  TypeInv'
  <2> DEFINE base    == DesiredBase(Target, computed)
             desired == Desired(Target, base)
             owned   == PluginOwned(Target, computed)
             entry   == IF owned THEN Owned(base, desired) ELSE Entry(Target)
  <2>1. Proceed(SetOwnership(mem, Target, entry)) /\ UNCHANGED disk
    BY <1>5 DEF NothingToRename
  <2>2. desired \in Label /\ (owned => base \in Names /\ Strip(desired) = base)
    BY <1>1, <1>2, <1>3, Decision
  <2>3. Entry(Target) \in OwnershipSet
    BY <1>1, <1>3, OwnershipFacts
  <2> HIDE DEF base, desired, owned
  <2>4. entry \in OwnershipSet
    BY <2>2, <2>3, OwnedType, SimpleOwnership
  <2> HIDE DEF entry
  <2>5. SetOwnership(mem, Target, entry) \in StateSet
    BY <1>1, <1>3, <2>4, SetOwnershipType
  <2> QED BY <1>4, <2>1, <2>5
<1>6. ASSUME NEW computed \in Computed(Target), RenamePlanned(computed)
      PROVE  TypeInv'
  <2> DEFINE base    == DesiredBase(Target, computed)
             desired == Desired(Target, base)
             owned   == PluginOwned(Target, computed)
             pending == Pending(Seen(Target), desired, base, Previous(Ownership(Target)))
             entry   == IF owned THEN pending ELSE Entry(Target)
  <2>1. /\ plan' = [tab |-> Target, desired |-> desired, base |-> base, owned |-> owned]
        /\ mem' = SetOwnership(mem, Target, entry)
        /\ disk' = IF owned THEN mem' ELSE disk
        /\ pc' = "guard" /\ UNCHANGED <<session, conf, inv, as, snap, todo>>
    BY <1>6 DEF RenamePlanned
  <2>2. /\ desired \in Label /\ base \in Label /\ owned \in BOOLEAN
        /\ owned => base \in Names /\ Strip(desired) = base
        /\ ~owned => FromText(desired) = FromText(Seen(Target))
        /\ ~conf.auto => FromText(desired) = FromText(Seen(Target))
    BY <1>1, <1>2, <1>3, Decision
  <2>3. /\ Entry(Target) \in OwnershipSet
        /\ Previous(Ownership(Target)) \in {Unowned, Reset} \cup OwnedSet
    BY <1>1, <1>3, OwnershipFacts
  <2> HIDE DEF base, desired, owned
  <2>4. owned => /\ pending \in PendingSet /\ pending.own = "pending"
                 /\ pending.observed = Seen(Target) /\ pending.desired = desired
    BY <1>3, <2>2, <2>3, PendingType
  <2> HIDE DEF pending
  <2>5. entry \in OwnershipSet
    BY <2>3, <2>4, SimpleOwnership
  <2>6. owned => entry = pending
    OBVIOUS
  <2> HIDE DEF entry
  <2>7. mem' \in StateSet /\ mem'.tabs[Target] = entry
    BY <1>1, <1>3, <2>1, <2>5, SetOwnershipType
  <2>8. disk' \in StateSet
    BY <1>1, <2>1, <2>7
  <2>9. SessionInv' /\ Open' = Open /\ gone' = gone
    BY <1>1, <2>1, PassKeepsSession
  <2>10. PassInv'
    BY <1>1, <1>2, <2>1, <2>9 DEF PassInv, Working
  <2>11. /\ plan'.tab = Target /\ plan'.desired = desired /\ plan'.base = base
         /\ plan'.owned = owned
         /\ plan' \in [tab : {Head(todo')}, desired : Label, base : Label, owned : BOOLEAN]
    BY <2>1, <2>2 DEF Target
  <2>13. Seen(plan.tab)' = Seen(Target)
    BY <2>1, <2>11 DEF Seen
  <2>14. PlanInv'
    BY <1>2, <2>1, <2>2, <2>4, <2>6, <2>7, <2>11, <2>13 DEF PlanInv
  <2> QED BY <2>7, <2>8, <2>9, <2>10, <2>14 DEF TypeInv, StateInv
<1> QED BY <1>1, <1>4, <1>5, <1>6, PlanTabCases

LEMMA PlanClearType ==
  ASSUME TypeInv, PlanClear
  PROVE  TypeInv'
<1>1. /\ pc = "plan" /\ inv.op = "clear" /\ todo # <<>> /\ pc' = "guard"
      /\ plan' = [tab |-> Target, desired |-> Strip(Seen(Target)), base |-> <<>>, owned |-> FALSE]
      /\ UNCHANGED <<session, disk, mem, conf, inv, as, snap, todo>>
  BY DEF PlanClear
<1>2. SessionInv /\ StateInv /\ PassInv
  BY DEF TypeInv
<1>3. Target \in Tab /\ Seen(Target) \in Label
  BY <1>1, <1>2, TargetType
<1>4. Strip(Seen(Target)) \in Label /\ FromText(Strip(Seen(Target))) = FromText(Seen(Target))
  BY <1>3, StripKeepsText
<1>5. SessionInv' /\ Open' = Open /\ gone' = gone
  BY <1>1, <1>2, PassKeepsSession
<1>6. PassInv'
  BY <1>1, <1>2, <1>5 DEF PassInv, Working
<1>7. /\ plan'.tab = Target /\ plan'.desired = Strip(Seen(Target)) /\ plan'.owned = FALSE
      /\ plan' \in [tab : {Head(todo')}, desired : Label, base : Label, owned : BOOLEAN]
  BY <1>1, <1>4 DEF Target, Label
<1>8. Seen(plan.tab)' = Seen(Target)
  BY <1>1, <1>7 DEF Seen
<1>9. PlanInv'
  BY <1>1, <1>4, <1>7, <1>8 DEF PlanInv
<1>10. StateInv'
  BY <1>1, <1>2 DEF StateInv
<1> QED BY <1>5, <1>6, <1>9, <1>10 DEF TypeInv

\* What is known of the rename that the pass is about to make.
LEMMA PlannedType ==
  ASSUME TypeInv, pc \in {"guard", "rename"}
  PROVE  /\ todo # <<>> /\ plan.tab = Head(todo) /\ plan.tab \in Tab
         /\ plan.tab \in Range(todo) /\ plan.tab \in Range(snap.order)
         /\ plan.tab \notin Range(Tail(todo)) /\ Range(todo) = {plan.tab} \cup Range(Tail(todo))
         /\ plan.desired \in Label /\ plan.owned \in BOOLEAN /\ Seen(plan.tab) \in Label
         /\ mem.tabs[plan.tab] \in OwnershipSet
<1>1. PassInv /\ PlanInv /\ StateInv
  BY DEF TypeInv
<1>2. todo # <<>> /\ plan \in [tab : {Head(todo)}, desired : Label, base : Label, owned : BOOLEAN]
  BY <1>1 DEF PlanInv
<1>3. todo \in Seq(Tab) /\ IsInjective(todo) /\ Range(todo) \subseteq Range(snap.order)
  BY <1>1 DEF PassInv
<1>4. plan.tab = Head(todo) /\ plan.desired \in Label /\ plan.owned \in BOOLEAN
  BY <1>2
<1>5. /\ Head(todo) \in Tab /\ Head(todo) \in Range(todo)
      /\ Range(Tail(todo)) = Range(todo) \ {Head(todo)}
  BY <1>2, <1>3, TailOfTargets
<1>6. Seen(plan.tab) \in Label /\ mem.tabs[plan.tab] \in OwnershipSet
  BY <1>1, <1>4, <1>5 DEF PassInv, StateInv, StateSet, Seen
<1> QED BY <1>2, <1>3, <1>4, <1>5, <1>6

LEMMA GuardReadType ==
  ASSUME TypeInv, GuardRead
  PROVE  TypeInv'
<1> DEFINE resolved == SetOwnership(mem, plan.tab, Resolve(mem.tabs[plan.tab], label[plan.tab]))
<1>1. pc = "guard" /\ SessionInv /\ StateInv /\ PassInv /\ PlanInv /\ Working
  BY DEF GuardRead, TypeInv, Working
<1>2. todo # <<>> /\ plan.tab \in Tab /\ mem.tabs[plan.tab] \in OwnershipSet
  BY <1>1, PlannedType
<1>3. label[plan.tab] \in Label
  BY <1>1, <1>2 DEF SessionInv
<1>4. resolved \in StateSet
  BY <1>1, <1>2, <1>3, ResolveType, SetOwnershipType DEF StateInv
<1>5. ASSUME NEW state \in StateSet, Proceed(state), disk' \in {disk, mem'}
      PROVE  TypeInv'
  <2>1. mem' = state /\ pc' = "plan" /\ todo' = Tail(todo) /\ UNCHANGED <<session, conf, inv, as, snap>>
    BY <1>5 DEF Proceed
  <2>2. StateInv'
    BY <1>1, <1>5, <2>1 DEF StateInv
  <2>3. SessionInv' /\ Open' = Open /\ gone' = gone
    BY <1>1, <2>1, PassKeepsSession
  <2> QED BY <1>1, <1>2, <2>1, <2>2, <2>3, NextTargetType
<1>6. CASE /\ pc' = "rename"
           /\ UNCHANGED <<session, disk, mem, conf, inv, as, snap, todo, plan>>
  <2>1. SessionInv' /\ Open' = Open /\ gone' = gone
    BY <1>1, <1>6, PassKeepsSession
  <2>2. PassInv'
    BY <1>1, <1>6, <2>1 DEF PassInv, Working
  <2>3. PlanInv'
    BY <1>1, <1>6 DEF PlanInv, Seen
  <2> QED BY <1>1, <1>6, <2>1, <2>2, <2>3 DEF TypeInv, StateInv
<1>7. \/ Proceed(mem) /\ disk' \in {disk, mem'}
      \/ Proceed(resolved) /\ disk' \in {disk, mem'}
      \/ pc' = "rename" /\ UNCHANGED <<session, disk, mem, conf, inv, as, snap, todo, plan>>
  BY DEF GuardRead
<1> HIDE DEF resolved
<1> QED BY <1>1, <1>4, <1>5, <1>6, <1>7 DEF StateInv

LEMMA ApplyType ==
  ASSUME TypeInv, pc = "rename", Apply, UNCHANGED <<order, place, gone, env>>
  PROVE  /\ SessionInv' /\ Open' = Open /\ gone' = gone
         /\ \A t \in Tab \ {plan.tab} : label'[t] = label[t]
         /\ plan.tab \in Open => label'[plan.tab] = plan.desired
<1>1. plan.tab \in Tab /\ plan.desired \in Label
  BY PlannedType
<1>2. SessionInv /\ label \in [Tab -> Label]
  BY DEF TypeInv, SessionInv
<1>3. label' = IF plan.tab \in Open THEN [label EXCEPT ![plan.tab] = plan.desired] ELSE label
  BY DEF Apply
<1>4. label' \in [Tab -> Label] /\ \A t \in Tab \ Open : label'[t] = label[t]
  BY <1>1, <1>2, <1>3
<1> QED BY <1>1, <1>2, <1>3, <1>4, SessionFrame

LEMMA RenameType ==
  ASSUME TypeInv, Rename
  PROVE  TypeInv'
<1>1. /\ pc = "rename" /\ Apply /\ todo' = Tail(todo) /\ pc' = "plan"
      /\ mem' = IF plan.owned THEN SetOwnership(mem, plan.tab, Owned(plan.base, plan.desired))
                ELSE mem
      /\ UNCHANGED <<order, place, gone, env, disk, conf, inv, as, snap>>
  BY DEF Rename
<1>2. SessionInv /\ StateInv /\ PassInv /\ PlanInv
  BY DEF TypeInv
<1>3. SessionInv' /\ Open' = Open /\ gone' = gone
  BY <1>1, ApplyType
<1>4. todo # <<>> /\ plan.tab \in Tab /\ plan.desired \in Label
  BY <1>1, PlannedType
<1>5. plan.owned => Owned(plan.base, plan.desired) \in OwnershipSet
  <2>1. plan.owned => plan.base \in Names /\ Strip(plan.desired) = plan.base
    BY <1>1, <1>2 DEF PlanInv
  <2> QED BY <1>4, <2>1, OwnedType, SimpleOwnership
<1>6. mem' \in StateSet
  BY <1>1, <1>2, <1>4, <1>5, SetOwnershipType DEF StateInv
<1>7. StateInv'
  BY <1>1, <1>2, <1>6 DEF StateInv
<1> QED BY <1>1, <1>2, <1>3, <1>4, <1>7, NextTargetType DEF Working

LEMMA RenameUnansweredType ==
  ASSUME TypeInv, RenameUnanswered
  PROVE  TypeInv'
<1>1. pc = "rename" /\ Apply /\ EndOfPass /\ UNCHANGED <<order, place, gone, env, disk>>
  BY DEF RenameUnanswered
<1>2. disk \in StateSet
  BY DEF TypeInv, StateInv
<1> QED BY <1>1, <1>2, ApplyType, EndOfPassType

LEMMA TypeStep ==
  ASSUME TypeInv, [Next]_vars
  PROVE  TypeInv'
<1>1. CASE UNCHANGED vars
  <2>1. UNCHANGED <<session, disk, mem, pass>>
    BY <1>1 DEF vars
  <2>2. SessionInv' /\ Open' = Open /\ gone' = gone
    BY <2>1, PassKeepsSession DEF TypeInv
  <2> QED BY <2>1, <2>2 DEF TypeInv, StateInv, PassInv, PlanInv, Working, Seen, pass
<1>2. CASE Session
  BY <1>2, SessionType
<1>3. CASE RunPass
  <2>1. ASSUME NEW i \in Invocation, Begin(i) PROVE TypeInv'
    BY <2>1, BeginType
  <2> QED BY <1>3, <2>1, IgnoreClosedPaneType, TakeSnapshotType, TakeClearSnapshotType,
             SkipTabType, PlanTabType, PlanClearType, GuardReadType, RenameType,
             RenameUnansweredType, FailType, FinishType DEF RunPass
<1> QED BY <1>1, <1>2, <1>3 DEF Next

LEMMA TypeInit == Init => TypeInv
<1> SUFFICES ASSUME Init PROVE TypeInv
  OBVIOUS
<1>1. /\ order = FirstOrder /\ label = [t \in Tab |-> FreshLabel] /\ place = FirstPlace
      /\ gone = {} /\ env = [renames |-> MaxRenames, moves |-> MaxMoves]
      /\ disk = EmptyState /\ mem = EmptyState
      /\ pc = "idle" /\ inv = Idle /\ todo = <<>>
      /\ snap = [order |-> <<>>, label |-> [t \in Tab |-> <<>>]]
  BY DEF Init
<1>2. SessionInv
  BY <1>1, ReconcilerAssumption, LabelsAssumption DEF SessionInv, Open
<1>3. StateInv
  BY <1>1, EmptyStateType DEF StateInv
<1>4. snap \in [order : Seq(Tab), label : [Tab -> Label]] /\ snap.order = <<>>
  <2>1. <<>> \in Seq(Tab) /\ <<>> \in Label
    BY DEF Label
  <2> QED BY <1>1, <2>1
<1>5. Range(snap.order) = {} /\ Range(todo) = {} /\ IsInjective(todo) /\ todo \in Seq(Tab)
  BY <1>1, <1>4 DEF Range, IsInjective
<1>6. PassInv
  BY <1>1, <1>4, <1>5 DEF PassInv, Working
<1>7. PlanInv
  BY <1>1 DEF PlanInv
<1> QED BY <1>2, <1>3, <1>6, <1>7 DEF TypeInv

LEMMA TypesHold == Spec => []TypeInv
BY TypeInit, TypeStep, PTL DEF Spec

(***************************************************************************)
(* The variables have their types: in particular a pass only ever works on  *)
(* tabs that it has seen, and the recovery of a recorded rename falls back  *)
(* on no entry, on Owned or on ResetPending, never on another recorded      *)
(* rename.                                                                  *)
(***************************************************************************)
THEOREM TypesAreKept == Spec => []TypeOK
<1>1. TypeInv => TypeOK
  <2> SUFFICES ASSUME TypeInv PROVE TypeOK
    OBVIOUS
  <2>1. SessionInv /\ StateInv /\ PassInv
    BY DEF TypeInv
  <2>2. Open \subseteq Tab \ gone /\ \A p \in Pane : place[p] \in Open \cup {Unborn, Gone}
    BY <2>1, OpenType DEF SessionInv
  <2>3. Range(todo) \subseteq Tab
    BY <2>1 DEF PassInv, Range
  <2>4. disk.tabs \in [Tab -> OwnershipSet] /\ disk.panes \in [Pane -> Tab \cup {NoTab}]
    BY <2>1 DEF StateInv, StateSet
  <2>5. ASSUME NEW t \in Tab
        PROVE  /\ disk.tabs[t].own \in {"unowned", "manual", "disabled", "reset", "owned", "pending"}
               /\ disk.tabs[t].own = "pending" =>
                    disk.tabs[t].previous.own \in {"unowned", "reset", "owned"}
    <3>1. disk.tabs[t] \in OwnershipSet
      BY <2>4
    <3>2. disk.tabs[t].own = "pending" => disk.tabs[t].previous \in {Unowned, Reset} \cup OwnedSet
      BY <3>1, OwnershipKinds, PendingFields
    <3>3. \A o \in {Unowned, Reset} \cup OwnedSet : o.own \in {"unowned", "reset", "owned"}
      BY DEF Unowned, Reset, OwnedSet
    <3> QED BY <3>1, <3>2, <3>3, OwnershipKinds
  <2> QED BY <2>1, <2>2, <2>3, <2>4, <2>5 DEF PassInv, TypeOK
<1> QED BY <1>1, TypesHold, PTL

(***************************************************************************)
(* While auto_name_tabs is off no pass changes the text of a label, for any *)
(* labels, settings and records.                                            *)
(***************************************************************************)
THEOREM NoNamingWhileOff == Spec => NoNamingWhenOff
<1>1. ASSUME TypeInv, [Next]_vars
      PROVE  [\A t \in Open :
                /\ pc = "rename" /\ pc' # pc /\ ~conf.auto
                /\ plan.tab = t /\ label[t] = Seen(t)
                => FromText(label'[t]) = FromText(label[t])]_vars
  <2> SUFFICES ASSUME pc = "rename", pc' # pc, ~conf.auto, plan.tab \in Open,
                      label[plan.tab] = Seen(plan.tab)
               PROVE  FromText(label'[plan.tab]) = FromText(label[plan.tab])
    OBVIOUS
  <2>1. FromText(plan.desired) = FromText(Seen(plan.tab))
    BY <1>1 DEF TypeInv, PlanInv
  <2>2. CASE Rename \/ RenameUnanswered
    <3>1. Apply /\ UNCHANGED <<order, place, gone, env>>
      BY <2>2 DEF Rename, RenameUnanswered
    <3>2. label'[plan.tab] = plan.desired
      BY <1>1, <3>1, ApplyType
    <3> QED BY <2>1, <3>2
  <2>3. CASE ~(Rename \/ RenameUnanswered)
    <3>1. UNCHANGED pc \/ Fail
      <4>1. CASE Session
        BY <1>1, <4>1, SessionStep DEF TypeInv, pass
      <4>2. CASE RunPass
        BY <2>3, <4>2 DEF RunPass, Begin, IgnoreClosedPane, TakeSnapshot, TakeClearSnapshot,
                          SkipTab, PlanTab, PlanClear, GuardRead, Finish
      <4> QED BY <1>1, <4>1, <4>2 DEF Next, vars, pass
    <3>2. UNCHANGED label
      BY <3>1 DEF Fail, session
    <3> QED BY <3>2
  <2> QED BY <2>2, <2>3
<1> QED BY <1>1, TypesHold, PTL DEF Spec, NoNamingWhenOff

-----------------------------------------------------------------------------
(* Every rename is resolved before a tab is decided about *)

(***************************************************************************)
(* A step of the loop over the targets decides about the first of them and  *)
(* touches no other entry.                                                  *)
(***************************************************************************)
LEMMA LoopStep ==
  ASSUME TypeInv, SkipTab \/ PlanTab \/ PlanClear \/ GuardRead \/ Rename
  PROVE  /\ Working /\ todo # <<>> /\ Head(todo) \in Tab
         /\ pc' \in {"plan", "guard", "rename"}
         /\ UNCHANGED <<order, place, gone, env, conf, inv, as, snap>> /\ Open' = Open
         /\ todo' \in {todo, Tail(todo)} /\ (pc' # "plan" => todo' = todo)
         /\ disk' \in {disk, mem'}
         /\ \A t \in Tab \ {Head(todo)} : mem'.tabs[t] = mem.tabs[t]
         /\ Range(todo') \subseteq Range(todo)
         /\ Undecided' = Undecided \ {Head(todo)}
<1>1. StateInv /\ PassInv /\ mem \in StateSet /\ todo \in Seq(Tab) /\ IsInjective(todo)
  BY DEF TypeInv, StateInv, PassInv
<1>2. Working /\ todo # <<>>
  BY PlanTabCases DEF SkipTab, PlanClear, GuardRead, Rename, Working, TypeInv, PlanInv
<1>3. /\ Head(todo) \in Tab /\ Range(Tail(todo)) = Range(todo) \ {Head(todo)}
  BY <1>1, <1>2, TailOfTargets
<1> DEFINE Keeps(state) == \A t \in Tab \ {Head(todo)} : state.tabs[t] = mem.tabs[t]
           Frame == UNCHANGED <<order, place, gone, env, conf, inv, as, snap>>
           Advances == pc' = "plan" /\ todo' = Tail(todo)
           Stays == pc' \in {"guard", "rename"} /\ todo' = todo
           Result == Keeps(mem') /\ Frame /\ disk' \in {disk, mem'} /\ (Advances \/ Stays)
<1>4. Keeps(mem) /\ \A o : Keeps(SetOwnership(mem, Head(todo), o))
  BY <1>1 DEF SetOwnership, StateSet
<1> HIDE DEF Keeps
<1>5. ASSUME NEW state, Proceed(state), Keeps(state), disk' \in {disk, mem'}
      PROVE  Result
  BY <1>5 DEF Proceed, session
<1>6. ASSUME SkipTab PROVE Result
  BY <1>4, <1>5, <1>6 DEF SkipTab, Target
<1>7. ASSUME PlanTab PROVE Result
  <2>1. ASSUME NEW computed, NothingToRename(computed) PROVE Result
    <3>1. PICK o : Proceed(SetOwnership(mem, Head(todo), o)) /\ disk' = disk
      BY <2>1 DEF NothingToRename, Target
    <3> QED BY <1>4, <1>5, <3>1
  <2>2. ASSUME NEW computed, RenamePlanned(computed) PROVE Result
    <3>1. PICK o : mem' = SetOwnership(mem, Head(todo), o)
      BY <2>2 DEF RenamePlanned, Target
    <3>2. disk' \in {disk, mem'} /\ Frame /\ Stays
      BY <2>2 DEF RenamePlanned, session
    <3> QED BY <1>4, <3>1, <3>2
  <2>3. ASSUME Proceed(mem), disk' = disk PROVE Result
    BY <1>4, <1>5, <2>3
  <2> HIDE DEF Result
  <2> QED BY <1>7, <2>1, <2>2, <2>3, PlanTabCases
<1>8. ASSUME PlanClear PROVE Result
  BY <1>4, <1>8 DEF PlanClear, session
<1>9. ASSUME GuardRead PROVE Result
  <2>1. plan.tab = Head(todo)
    BY <1>9, PlannedType DEF GuardRead
  <2> DEFINE resolved == SetOwnership(mem, Head(todo), Resolve(mem.tabs[plan.tab], label[plan.tab]))
  <2>2. \/ Proceed(mem) /\ disk' \in {disk, mem'}
        \/ Proceed(resolved) /\ disk' \in {disk, mem'}
        \/ pc' = "rename" /\ UNCHANGED <<session, disk, mem, conf, inv, as, snap, todo, plan>>
    BY <1>9, <2>1 DEF GuardRead
  <2>3. Keeps(resolved)
    BY <1>4
  <2>4. CASE pc' = "rename" /\ UNCHANGED <<session, disk, mem, conf, inv, as, snap, todo, plan>>
    BY <1>4, <2>4 DEF session
  <2> HIDE DEF resolved, Result
  <2> QED BY <1>4, <1>5, <2>2, <2>3, <2>4
<1>10. ASSUME Rename PROVE Result
  <2>1. plan.tab = Head(todo)
    BY <1>10, PlannedType DEF Rename
  <2>2. mem' = mem \/ \E o : mem' = SetOwnership(mem, Head(todo), o)
    BY <1>10, <2>1 DEF Rename
  <2>3. Keeps(mem')
    BY <1>4, <2>2
  <2> QED BY <1>10, <2>3 DEF Rename
<1>11. Result
  BY <1>6, <1>7, <1>8, <1>9, <1>10
<1>12. Undecided' = Range(Tail(todo))
  BY <1>11 DEF Undecided
<1>13. Undecided \in {Range(todo), Range(Tail(todo))}
  BY <1>2 DEF Undecided, Working
<1>14. /\ Range(todo') \subseteq Range(todo) /\ todo' \in {todo, Tail(todo)}
       /\ pc' # "plan" => todo' = todo
  BY <1>3, <1>11
<1>15. Open' = Open
  BY <1>11 DEF Open
<1> QED BY <1>2, <1>3, <1>11, <1>12, <1>13, <1>14, <1>15 DEF Keeps

\* When a pass ends nothing is left to decide.
LEMMA NothingLeft ==
  ASSUME EndOfPass
  PROVE  pc' = "idle" /\ inv' = Idle /\ Undecided' = {} /\ Range(todo') = {}
BY DEF EndOfPass, Undecided, Range

\* The kinds of steps of a pass.
LEMMA PassSteps ==
  ASSUME RunPass
  PROVE  \/ \E i \in Invocation : Begin(i)
         \/ IgnoreClosedPane \/ TakeSnapshot \/ TakeClearSnapshot
         \/ SkipTab \/ PlanTab \/ PlanClear \/ GuardRead \/ Rename
         \/ RenameUnanswered \/ Fail \/ Finish
BY DEF RunPass

LEMMA ResolvedStep ==
  ASSUME TypeInv, ResolvedInv, [Next]_vars
  PROVE  ResolvedInv'
<1>1. PassInv /\ SessionInv /\ StateInv
  BY DEF TypeInv
<1>2. CASE Session
  <2>1. /\ SessionInv' /\ gone \subseteq gone' /\ UNCHANGED <<mem, pc, inv, todo>>
    BY <1>1, <1>2, SessionStep DEF pass
  <2>2. Undecided' = Undecided /\ Undecided \subseteq Range(todo)
    <3>1. Undecided' = Undecided
      BY <2>1 DEF Undecided
    <3>2. pc \in {"guard", "rename"} => Range(Tail(todo)) \subseteq Range(todo)
      BY PlannedType
    <3> QED BY <3>1, <3>2 DEF Undecided
  <2>3. Undecided \subseteq Open \cup gone
    BY <1>1, <2>2 DEF PassInv
  <2>4. Undecided' \cap Open' \subseteq Undecided \cap Open
    BY <2>1, <2>2, <2>3 DEF SessionInv
  <2> QED BY <2>1, <2>4 DEF ResolvedInv
<1>3. CASE EndOfPass
  BY <1>3, NothingLeft DEF ResolvedInv
<1>4. ASSUME NEW i \in Invocation, Begin(i) PROVE ResolvedInv'
  BY <1>4 DEF Begin, ResolvedInv, Undecided
<1>5. CASE TakeSnapshot
  <2>1. mem' = Recovered /\ UNCHANGED session /\ pc = "snapshot"
    BY <1>5 DEF TakeSnapshot
  <2>2. Open' = Open
    BY <1>1, <2>1, PassKeepsSession
  <2>3. inv \in Invocation
    BY <1>1, <2>1 DEF PassInv
  <2>4. \A t \in Open : mem'.tabs[t].own # "pending"
    BY <1>1, <2>1, <2>3, RecoveredEntries
  <2> QED BY <2>2, <2>4 DEF ResolvedInv
<1>6. CASE TakeClearSnapshot
  BY <1>6 DEF TakeClearSnapshot, ResolvedInv
<1>7. CASE SkipTab \/ PlanTab \/ PlanClear \/ GuardRead \/ Rename
  <2>1. /\ Undecided' \subseteq Undecided \ {Head(todo)} /\ inv' = inv /\ Open' = Open
        /\ \A t \in Tab \ {Head(todo)} : mem'.tabs[t] = mem.tabs[t]
    BY <1>7, LoopStep
  <2>2. Open \subseteq Tab
    BY <1>1, OpenType
  <2> QED BY <2>1, <2>2 DEF ResolvedInv
<1>8. CASE UNCHANGED vars
  BY <1>8 DEF vars, session, pass, ResolvedInv, Undecided, Open
<1> QED BY <1>2, <1>3, <1>4, <1>5, <1>6, <1>7, <1>8, PassSteps
        DEF Next, IgnoreClosedPane, RenameUnanswered, Fail, Finish

LEMMA ResetStep ==
  ASSUME TypeInv, ResetInv, [Next]_vars
  PROVE  ResetInv'
<1>1. PassInv /\ SessionInv /\ StateInv
  BY DEF TypeInv
<1>2. CASE UNCHANGED <<mem, pass>>
  BY <1>2 DEF pass, ResetInv, Undecided, Forced
<1>3. CASE EndOfPass
  BY <1>3, NothingLeft DEF ResetInv
<1>4. ASSUME NEW i \in Invocation, Begin(i) PROVE ResetInv'
  <2>1. /\ pc' = "snapshot" /\ inv' = i
        /\ i.op = "reset" => mem' = SetOwnership([disk EXCEPT !.suspended = FALSE], i.tab, Reset)
    BY <1>4 DEF Begin
  <2>2. [disk EXCEPT !.suspended = FALSE] \in StateSet
    BY <1>1 DEF StateInv, StateSet
  <2>3. i.op = "reset" => mem'.tabs[i.tab] = Reset
    BY <2>1, <2>2, InvocationFields, SetOwnershipType, SimpleOwnership
  <2>4. Undecided' = {}
    BY <2>1 DEF Undecided
  <2> QED BY <2>1, <2>3, <2>4 DEF ResetInv
<1>5. CASE TakeSnapshot
  <2>1. /\ mem' = Recovered /\ pc = "snapshot" /\ pc' = "plan" /\ UNCHANGED session
        /\ as' = IF Vanished THEN [op |-> "closed_tab", ws |-> VanishedFrom] ELSE inv
    BY <1>5 DEF TakeSnapshot
  <2>2. inv \in Invocation
    BY <1>1, <2>1 DEF PassInv
  <2>3. ASSUME NEW t \in Undecided', Forced(t)' PROVE mem'.tabs[t] = Reset
    <3>1. as' = [op |-> "reset", tab |-> t]
      BY <2>3 DEF Forced
    <3>2. as'.op = "reset" /\ as'.tab = t
      BY <3>1
    <3>3. as' = inv
      BY <2>1, <3>2
    <3>4. inv.op = "reset" /\ inv.tab = t /\ t \in Tab
      BY <2>2, <3>2, <3>3, InvocationFields
    <3>5. mem.tabs[t] = Reset
      BY <2>1, <3>4 DEF ResetInv
    <3>6. Removed(t) = Reset
      BY <3>4, <3>5 DEF Removed, WasLastPane, MappedTab, Resolve, Reset
    <3> QED BY <1>1, <2>1, <2>2, <3>4, <3>6, RecoveredEntries
  <2> QED BY <2>1, <2>3 DEF ResetInv
<1>6. CASE TakeClearSnapshot
  <2>1. as' = inv /\ inv.op = "clear" /\ pc' = "plan"
    BY <1>6 DEF TakeClearSnapshot
  <2>2. \A t : ~Forced(t)'
    BY <2>1 DEF Forced
  <2> QED BY <2>1, <2>2 DEF ResetInv
<1>7. CASE SkipTab \/ PlanTab \/ PlanClear \/ GuardRead \/ Rename
  <2>1. /\ Undecided' \subseteq Undecided \ {Head(todo)} /\ pc' # "snapshot" /\ as' = as
        /\ \A t \in Tab \ {Head(todo)} : mem'.tabs[t] = mem.tabs[t]
    BY <1>7, LoopStep
  <2>2. Undecided \subseteq Tab
    <3>1. todo \in Seq(Tab) /\ Range(todo) \subseteq Tab
      BY <1>1 DEF PassInv, Range
    <3>2. pc \in {"guard", "rename"} => Range(Tail(todo)) \subseteq Range(todo)
      BY PlannedType
    <3> QED BY <3>1, <3>2 DEF Undecided
  <2>3. \A t : Forced(t)' = Forced(t)
    BY <2>1 DEF Forced
  <2> QED BY <2>1, <2>2, <2>3 DEF ResetInv
<1>8. Session => UNCHANGED <<mem, pass>>
  BY <1>1, SessionStep
<1>9. UNCHANGED vars => UNCHANGED <<mem, pass>>
  BY DEF vars
<1> QED BY <1>2, <1>3, <1>4, <1>5, <1>6, <1>7, <1>8, <1>9, PassSteps
        DEF Next, IgnoreClosedPane, RenameUnanswered, Fail, Finish

-----------------------------------------------------------------------------
(* What a step of the session does to one tab *)

TabKept(t) ==
  (t \in Open' <=> t \in Open) /\ label'[t] = label[t] /\ typed'[t] = typed[t] /\ author'[t] = author[t]

RenamedByUser(t) ==
  /\ t \in Open /\ t \in Open' /\ label'[t] # label[t]
  /\ label'[t] \in UserLabels /\ typed'[t] = FixedBy(t, label'[t]) /\ author'[t] = "user"

OpenedByUser(t) ==
  /\ t \notin Open /\ t \notin gone
  /\ label'[t] = label[t] /\ typed'[t] = typed[t] /\ author'[t] = author[t]

ClosedByUser(t) ==
  t \notin Open' /\ label'[t] = label[t] /\ typed'[t] = NoName /\ author'[t] = "herdr"

LEMMA SessionEffect ==
  ASSUME SessionInv, Session, NEW A, NEW B, typed \in [Tab -> A], author \in [Tab -> B]
  PROVE  /\ \A t \in Tab : TabKept(t) \/ RenamedByUser(t) \/ OpenedByUser(t) \/ ClosedByUser(t)
         /\ typed' = [t \in Tab |-> typed'[t]] /\ author' = [t \in Tab |-> author'[t]]
<1> DEFINE Functions == typed' = [t \in Tab |-> typed'[t]] /\ author' = [t \in Tab |-> author'[t]]
           Each(t) == TabKept(t) \/ RenamedByUser(t) \/ OpenedByUser(t) \/ ClosedByUser(t)
           Result == (\A t \in Tab : Each(t)) /\ Functions
<1>1. ASSUME NEW u \in Tab, NEW l \in UserLabels, UserRename(u, l) PROVE Result
  <2>1. /\ u \in Open /\ label' = [label EXCEPT ![u] = l] /\ l # label[u]
        /\ typed' = [typed EXCEPT ![u] = FixedBy(u, l)]
        /\ author' = [author EXCEPT ![u] = "user"] /\ order' = order
    BY <1>1 DEF UserRename
  <2>2. Open' = Open
    BY <2>1 DEF Open
  <2>3. Functions
    BY <2>1
  <2>4. ASSUME NEW t \in Tab PROVE Each(t)
    <3>1. CASE t = u
      BY <2>1, <2>2, <3>1 DEF RenamedByUser, SessionInv
    <3>2. CASE t # u
      BY <2>1, <2>2, <3>2 DEF TabKept, SessionInv
    <3> QED BY <3>1, <3>2
  <2> QED BY <2>3, <2>4
<1>2. ASSUME NEW u \in Tab, NEW p \in Pane, OpenTab(u, p) PROVE Result
  <2>1. /\ u \notin Open /\ u \notin gone /\ order' = Append(order, u)
        /\ UNCHANGED <<label, typed, author>>
    BY <1>2 DEF OpenTab
  <2>2. Open' = Open \cup {u}
    <3>1. order \in Seq(Tab)
      BY DEF SessionInv
    <3> QED BY <2>1, <3>1, RangeOfAppend DEF Open
  <2> QED BY <2>1, <2>2 DEF TabKept, OpenedByUser
<1>3. ASSUME NEW where \in [Pane -> Open \cup {Unborn, Gone}], Arrange(where), CanMove, Moved
      PROVE  Result
  <2>1. Open' = Open \cap {where[p] : p \in Pane}
    BY <1>3, MovedType, ArrangeSession
  <2>2. /\ typed' = [u \in Tab |-> IF u \in Open' THEN typed[u] ELSE NoName]
        /\ author' = [u \in Tab |-> IF u \in Open' THEN author[u] ELSE "herdr"]
        /\ label' = label
    BY <1>3, <2>1 DEF Arrange
  <2> QED BY <2>1, <2>2 DEF TabKept, ClosedByUser
<1>4. ASSUME NEW k, MoveTab(k) PROVE Result
  <2>1. k \in 1 .. Len(order) /\ UNCHANGED <<label, typed, author>>
    <3>1. k \in 1 .. Len(order) - 1 /\ order \in Seq(Tab)
      BY <1>4 DEF MoveTab, SessionInv
    <3> QED BY <1>4, <3>1 DEF MoveTab
  <2>2. Open' = Open
    BY <1>4, TabsSwapped
  <2> QED BY <2>1, <2>2 DEF TabKept
<1> HIDE DEF Result
<1>5. ASSUME NEW u \in Tab, NEW p \in Pane, PlacePane(p, u) PROVE Result
  BY <1>3, <1>5, PlacesType DEF PlacePane
<1>6. ASSUME NEW u \in Tab, CloseTab(u) PROVE Result
  BY <1>3, <1>6, PlacesType DEF CloseTab
<1>7. ASSUME NEW p \in Pane, ClosePane(p) PROVE Result
  BY <1>3, <1>7, PlacesType DEF ClosePane
<1>8. Result
  BY <1>1, <1>2, <1>4, <1>5, <1>6, <1>7 DEF Session
<1> QED BY <1>8 DEF Result

-----------------------------------------------------------------------------
(* Who wrote a label *)

\* Of a label that the plugin wrote its own entry says so.
LEMMA RecognisedEntry ==
  ASSUME NEW state, NEW t, Recognises(state, t), state.tabs[t].own # "pending"
  PROVE  state.tabs[t] = Owned(Strip(label[t]), label[t])
BY DEF Recognises, Resolve

\* There is nothing to resolve in an Owned entry.
LEMMA OwnedResolves ==
  ASSUME NEW base, NEW shown, NEW l
  PROVE  Resolve(Owned(base, shown), l) = Owned(base, shown)
BY DEF Resolve, Owned

(***************************************************************************)
(* When reconcile_tab looks at a label that the plugin wrote it finds it    *)
(* Owned, and goes on owning it.                                            *)
(***************************************************************************)
LEMMA PluginTarget ==
  ASSUME TypeInv, ResolvedInv, AuthorInv, pc = "plan", inv.op # "clear", todo # <<>>,
         Target \in Open, author[Target] = "plugin"
  PROVE  /\ Seen(Target) = label[Target]
         /\ mem.tabs[Target] = Owned(Strip(label[Target]), label[Target])
         /\ ~Disowned(Target)
         /\ Ownership(Target) = Owned(Strip(label[Target]), label[Target])
         /\ \A computed : PluginOwned(Target, computed)
<1>1. Target \in Range(todo)
  BY TargetType DEF TypeInv
<1>2. Seen(Target) = label[Target] /\ Recognises(mem, Target)
  BY <1>1 DEF AuthorInv, PluginLabel
<1>3. mem.tabs[Target].own # "pending"
  BY <1>1 DEF ResolvedInv, Undecided
<1>4. mem.tabs[Target] = Owned(Strip(label[Target]), label[Target])
  BY <1>2, <1>3, RecognisedEntry
<1>5. ~Disowned(Target)
  BY <1>2, <1>4 DEF Disowned, Owned
<1>6. Ownership(Target) = mem.tabs[Target] /\ Ownership(Target).own = "owned"
  BY <1>4, <1>5 DEF Ownership, Owned
<1> QED BY <1>2, <1>4, <1>5, <1>6 DEF PluginOwned, Eligible

\* A rename that the plugin has recorded reads back as done, or as not done.
LEMMA PendingResolves ==
  ASSUME NEW observed, NEW desired, NEW base, NEW previous, observed # desired
  PROVE  /\ Resolve(Pending(observed, desired, base, previous), desired) = Owned(base, desired)
         /\ Resolve(Pending(observed, desired, base, previous), observed) = previous
BY DEF Resolve, Pending

\* The end of a pass: what the state on disk recognises.
LEMMA EndKeepsAuthor ==
  ASSUME TypeInv, AuthorInv, EndOfPass, UNCHANGED session,
         author' \in [Tab -> {"herdr", "user", "plugin", "unclaimed"}],
         \A t \in Tab : author'[t] = "plugin" => author[t] = "plugin",
         \A t \in Open : author'[t] = "plugin" => disk'.tabs[t] \in {disk.tabs[t], mem.tabs[t]},
         pc # "idle"
  PROVE  AuthorInv'
<1>1. Open' = Open /\ label' = label
  BY DEF session, Open
<1>2. pc' = "idle" /\ Range(todo') = {}
  BY NothingLeft
<1>3. ASSUME NEW t \in Open, author'[t] = "plugin" PROVE Recognises(disk, t)'
  <2>1. Recognises(disk, t) /\ Recognises(mem, t)
    BY <1>3, OpenType DEF AuthorInv, PluginLabel, TypeInv
  <2>2. disk'.tabs[t] \in {disk.tabs[t], mem.tabs[t]}
    BY <1>3
  <2> QED BY <1>1, <2>1, <2>2 DEF Recognises
<1> QED BY <1>1, <1>2, <1>3 DEF AuthorInv, PluginLabel, Working

LEMMA SessionAuthor ==
  ASSUME TypeInv, AuthorInv, FixedInv, Session
  PROVE  AuthorInv'
<1>1. SessionInv
  BY DEF TypeInv
<1>2. SessionInv' /\ UNCHANGED <<disk, mem, pc, inv, snap, todo, plan>>
  BY <1>1, SessionStep DEF pass
<1>3. /\ \A t \in Tab : TabKept(t) \/ RenamedByUser(t) \/ OpenedByUser(t) \/ ClosedByUser(t)
      /\ author' = [t \in Tab |-> author'[t]]
  BY <1>1, SessionEffect DEF AuthorInv, PluginLabel, FixedInv
<1>4. Open' \subseteq Tab
  BY <1>2 DEF SessionInv, Open, Range
<1>5. \A t \in Tab : author'[t] \in {"herdr", "user", "plugin", "unclaimed"}
  BY <1>3 DEF TabKept, RenamedByUser, OpenedByUser, ClosedByUser, AuthorInv, PluginLabel
<1>6. author' \in [Tab -> {"herdr", "user", "plugin", "unclaimed"}]
  BY <1>3, <1>5
<1>7. \A t \in Tab \ Open' : author'[t] # "plugin"
  BY <1>3 DEF TabKept, RenamedByUser, OpenedByUser, ClosedByUser, AuthorInv, PluginLabel
<1>8. ASSUME NEW t \in Open', author'[t] = "plugin"
      PROVE  t \in Open /\ label'[t] = label[t] /\ author[t] = "plugin"
  BY <1>3, <1>4, <1>8 DEF TabKept, RenamedByUser, OpenedByUser, ClosedByUser, AuthorInv, PluginLabel
<1> QED BY <1>2, <1>6, <1>7, <1>8 DEF AuthorInv, PluginLabel, Recognises, Seen, Working

\* A pass begins with the state on disk, but for the tab that it resets.
LEMMA BeginEntries ==
  ASSUME TypeInv, NEW i \in Invocation, Begin(i)
  PROVE  disk' = mem' /\ \A t \in Tab : (i.op = "reset" => t # i.tab) => mem'.tabs[t] = disk.tabs[t]
<1>1. /\ disk' = mem'
      /\ mem' = CASE i.op = "clear" -> [disk EXCEPT !.suspended = TRUE]
                  [] i.op = "reset" ->
                       SetOwnership([disk EXCEPT !.suspended = FALSE], i.tab, Reset)
                  [] i.op = "toggle" -> [disk EXCEPT !.suspended = FALSE]
                  [] OTHER -> disk
  BY DEF Begin
<1>2. disk \in StateSet
  BY DEF TypeInv, StateInv
<1>3. ASSUME NEW t \in Tab, i.op = "reset" => t # i.tab PROVE mem'.tabs[t] = disk.tabs[t]
  <2>1. /\ [disk EXCEPT !.suspended = FALSE].tabs = disk.tabs
        /\ [disk EXCEPT !.suspended = TRUE].tabs = disk.tabs
        /\ [disk EXCEPT !.suspended = FALSE] \in StateSet
    BY <1>2 DEF StateSet
  <2>2. CASE i.op = "reset"
    <3>1. i.tab \in Tab
      BY <2>2, InvocationFields
    <3> DEFINE resumed == [disk EXCEPT !.suspended = FALSE]
    <3>2. mem' = SetOwnership(resumed, i.tab, Reset) /\ t \in Tab \ {i.tab}
      BY <1>1, <1>3, <2>2
    <3>3. resumed \in StateSet /\ resumed.tabs = disk.tabs /\ Reset \in OwnershipSet
      BY <2>1, SimpleOwnership
    <3> HIDE DEF resumed
    <3> QED BY <3>1, <3>2, <3>3, SetOwnershipType
  <2> QED BY <1>1, <2>1, <2>2
<1> QED BY <1>1, <1>3

LEMMA BeginAuthor ==
  ASSUME TypeInv, AuthorInv, NEW i \in Invocation, Begin(i)
  PROVE  AuthorInv'
<1>1. /\ pc' = "snapshot" /\ disk' = mem' /\ UNCHANGED <<session, snap, todo>>
      /\ author' = IF i.op = "reset" THEN GiveUp(i.tab) ELSE author
  BY DEF Begin
<1>2. \A t \in Tab : (i.op = "reset" => t # i.tab) => mem'.tabs[t] = disk.tabs[t]
  BY BeginEntries
<1>3. Open' = Open /\ label' = label
  BY <1>1 DEF session, Open
<1>4. author \in [Tab -> {"herdr", "user", "plugin", "unclaimed"}] /\ Open \subseteq Tab
  BY OpenType DEF AuthorInv, TypeInv
<1>5. /\ author' \in [Tab -> {"herdr", "user", "plugin", "unclaimed"}]
      /\ \A t \in Tab : author'[t] = "plugin" =>
           author[t] = "plugin" /\ (i.op = "reset" => t # i.tab)
  BY <1>1, <1>4 DEF GiveUp
<1>6. ASSUME NEW t \in Open, author'[t] = "plugin" PROVE Recognises(disk, t)' /\ Recognises(mem, t)'
  <2>1. author[t] = "plugin" /\ (i.op = "reset" => t # i.tab) /\ t \in Tab
    BY <1>4, <1>5, <1>6
  <2>2. mem'.tabs[t] = disk.tabs[t]
    BY <1>2, <2>1
  <2> QED BY <1>1, <1>3, <2>1, <2>2 DEF AuthorInv, PluginLabel, Recognises
<1> QED BY <1>1, <1>3, <1>4, <1>5, <1>6 DEF AuthorInv, PluginLabel, Working, Seen

LEMMA SnapshotAuthor ==
  ASSUME TypeInv, AuthorInv, TakeSnapshot
  PROVE  AuthorInv'
<1>1. /\ pc = "snapshot" /\ pc' = "plan" /\ mem' = Recovered /\ UNCHANGED session
      /\ disk' = IF inv.op = "toggle" THEN mem' ELSE disk
      /\ snap' = [order |-> order, label |-> label]
      /\ author' = IF inv.op = "toggle" THEN GiveUp(inv.tab) ELSE author
  BY DEF TakeSnapshot
<1>2. SessionInv /\ StateInv /\ inv \in Invocation /\ Open \subseteq Tab
  BY <1>1, OpenType DEF TypeInv, PassInv
<1>3. Open' = Open /\ label' = label /\ snap'.order = order /\ snap'.label = label
  BY <1>1 DEF session, Open
<1>4. author \in [Tab -> {"herdr", "user", "plugin", "unclaimed"}]
  BY DEF AuthorInv
<1>5. /\ author' \in [Tab -> {"herdr", "user", "plugin", "unclaimed"}]
      /\ \A t \in Tab : author'[t] = "plugin" =>
           author[t] = "plugin" /\ (inv.op = "toggle" => t # inv.tab)
  BY <1>1, <1>4 DEF GiveUp
<1>6. ASSUME NEW t \in Open, author'[t] = "plugin" PROVE Recognises(disk, t)' /\ Recognises(mem, t)'
  <2>1. author[t] = "plugin" /\ (inv.op = "toggle" => t # inv.tab) /\ t \in Tab
    BY <1>2, <1>5, <1>6
  <2>2. Recognises(disk, t) /\ Recognises(mem, t)
    BY <1>1, <2>1 DEF AuthorInv, PluginLabel
  <2>3. Removed(t) = Resolve(mem.tabs[t], label[t])
    BY DEF Removed, WasLastPane
  <2>4. mem'.tabs[t] = Owned(Strip(label[t]), label[t])
    BY <1>1, <1>2, <2>1, <2>2, <2>3, RecoveredEntries DEF Recognises
  <2>5. Recognises(mem, t)'
    BY <1>3, <2>4, OwnedResolves DEF Recognises
  <2>6. Recognises(disk, t)'
    BY <1>1, <1>3, <2>2, <2>5 DEF Recognises
  <2> QED BY <2>5, <2>6
<1> QED BY <1>1, <1>2, <1>3, <1>4, <1>5, <1>6 DEF AuthorInv, PluginLabel, Open, Seen

(***************************************************************************)
(* In the loop over the targets only the first target is in question.       *)
(***************************************************************************)
LEMMA LoopAuthor ==
  ASSUME TypeInv, TypeInv', AuthorInv, SkipTab \/ PlanTab \/ PlanClear \/ GuardRead \/ Rename,
         author' \in [Tab -> {"herdr", "user", "plugin", "unclaimed"}],
         \A t \in Tab : t # Head(todo) \/ t \notin Open =>
           label'[t] = label[t] /\ (author'[t] = "plugin" => author[t] = "plugin"),
         \A t \in Open : t = Head(todo) /\ author'[t] = "plugin" => PluginLabel(t)'
  PROVE  AuthorInv'
<1>1. /\ Working /\ todo # <<>> /\ Head(todo) \in Tab /\ Open' = Open
      /\ pc' \in {"plan", "guard", "rename"}
      /\ UNCHANGED <<inv, snap>> /\ disk' \in {disk, mem'}
      /\ pc' # "plan" => todo' = todo
      /\ \A t \in Tab \ {Head(todo)} : mem'.tabs[t] = mem.tabs[t]
      /\ Range(todo') \subseteq Range(todo)
  BY LoopStep
<1>2. Open \subseteq Tab
  BY OpenType DEF TypeInv
<1>3. pc' # "plan" => plan'.tab = Head(todo)
  BY <1>1 DEF TypeInv, PlanInv
<1>4. ASSUME NEW t \in Open, t # Head(todo), author'[t] = "plugin" PROVE PluginLabel(t)'
  <2>1. label'[t] = label[t] /\ author[t] = "plugin" /\ t \in Tab
    BY <1>2, <1>4
  <2>2. PluginLabel(t) /\ Recognises(mem, t) /\ t \in Range(snap.order)
    BY <1>1, <2>1 DEF AuthorInv, PluginLabel, Working
  <2>3. mem'.tabs[t] = mem.tabs[t] /\ disk'.tabs[t] \in {disk.tabs[t], mem.tabs[t]}
    BY <1>1, <1>4, <2>1
  <2>4. Recognises(mem, t)' /\ Recognises(disk, t)'
    BY <2>1, <2>2, <2>3 DEF Recognises, PluginLabel
  <2> QED BY <1>1, <1>3, <1>4, <2>1, <2>2, <2>4 DEF PluginLabel, Seen
<1>5. \A t \in Tab \ Open : author'[t] # "plugin"
  BY DEF AuthorInv
<1> QED BY <1>1, <1>4, <1>5 DEF AuthorInv

\* The target keeps its author and its label, and the pass leaves it behind.
LEMMA LeftAlone ==
  ASSUME TypeInv, AuthorInv, Working, NEW t \in Open, author[t] = "plugin",
         label' = label, UNCHANGED <<inv, snap>>, pc' = "plan",
         Range(todo') \subseteq Range(todo), Recognises(disk, t)', Recognises(mem, t)'
  PROVE  PluginLabel(t)'
BY DEF AuthorInv, PluginLabel, Working, Seen

LEMMA SkipTabAuthor ==
  ASSUME TypeInv, TypeInv', ResolvedInv, AuthorInv, SkipTab
  PROVE  AuthorInv'
<1>1. /\ pc = "plan" /\ inv.op # "clear" /\ todo # <<>> /\ UNCHANGED <<disk, author>>
      /\ \/ Proceed(mem)
         \/ Disowned(Target) /\ Proceed(SetOwnership(mem, Target, Manual))
  BY DEF SkipTab, history
<1>2. label' = label /\ pc' = "plan" /\ UNCHANGED <<inv, snap>> /\ Working
  BY <1>1 DEF Proceed, session, Working
<1>3. Range(todo') \subseteq Range(todo) /\ Head(todo) \in Tab
  BY LoopStep
<1>4. ASSUME NEW t \in Open, t = Target, author[t] = "plugin" PROVE PluginLabel(t)'
  <2>1. mem' = mem
    BY <1>1, <1>4, PluginTarget DEF Proceed
  <2>2. Recognises(disk, t) /\ Recognises(mem, t)
    BY <1>1, <1>4 DEF AuthorInv, PluginLabel
  <2>3. Recognises(disk, t)' /\ Recognises(mem, t)'
    BY <1>1, <1>2, <2>1, <2>2 DEF Recognises
  <2> QED BY <1>2, <1>3, <1>4, <2>3, LeftAlone
<1> QED BY <1>1, <1>2, <1>4, LoopAuthor DEF AuthorInv, Target

LEMMA PlanTabAuthor ==
  ASSUME TypeInv, TypeInv', ResolvedInv, AuthorInv, PlanTab
  PROVE  AuthorInv'
<1>1. /\ pc = "plan" /\ inv.op # "clear" /\ todo # <<>> /\ Working /\ pc # "idle"
      /\ Target \in Tab /\ Target \in Range(snap.order) /\ Seen(Target) \in Label
      /\ StateInv /\ PassInv /\ mem \in StateSet
  BY PlanTabCases, TargetType DEF Working, TypeInv, StateInv
<1>2. Range(todo') \subseteq Range(todo)
  BY LoopStep
<1>3. author \in [Tab -> {"herdr", "user", "plugin", "unclaimed"}] /\ Open \subseteq Tab
  BY OpenType DEF AuthorInv, TypeInv
<1>4. ASSUME NEW t \in Open, t = Target, author[t] = "plugin"
      PROVE  /\ Recognises(disk, t) /\ Recognises(mem, t) /\ Seen(t) = label[t] /\ t \in Tab
             /\ Ownership(t) = Owned(Strip(label[t]), label[t])
             /\ \A computed : PluginOwned(t, computed)
  BY <1>1, <1>3, <1>4, PluginTarget DEF AuthorInv, PluginLabel
<1>5. ASSUME Proceed(mem), UNCHANGED <<disk, author>> PROVE AuthorInv'
  <2>1. label' = label /\ pc' = "plan" /\ UNCHANGED <<inv, snap, mem>>
    BY <1>5 DEF Proceed, session
  <2>2. ASSUME NEW t \in Open, t = Target, author[t] = "plugin" PROVE PluginLabel(t)'
    <3>1. Recognises(disk, t)' /\ Recognises(mem, t)'
      BY <1>4, <1>5, <2>1, <2>2 DEF Recognises
    <3> QED BY <1>1, <1>2, <2>1, <2>2, <3>1, LeftAlone
  <2> QED BY <1>3, <1>5, <2>1, <2>2, LoopAuthor DEF Target
<1>6. ASSUME NEW computed \in Computed(Target), NothingToRename(computed) PROVE AuthorInv'
  <2> DEFINE base    == DesiredBase(Target, computed)
             desired == Desired(Target, base)
             owned   == PluginOwned(Target, computed)
             entry   == IF owned THEN Owned(base, desired) ELSE Entry(Target)
  <2>1. /\ desired = Seen(Target) /\ Proceed(SetOwnership(mem, Target, entry)) /\ UNCHANGED disk
        /\ author' = [author EXCEPT ![Target] =
             IF owned /\ label[Target] = desired /\ @ # "plugin" THEN "unclaimed" ELSE @]
    BY <1>6 DEF NothingToRename
  <2>2. owned => Strip(desired) = base
    BY <1>1, Decision
  <2>3. /\ label' = label /\ pc' = "plan" /\ UNCHANGED <<inv, snap>>
        /\ mem' = SetOwnership(mem, Target, entry)
    BY <2>1 DEF Proceed, session
  <2>4. /\ author' \in [Tab -> {"herdr", "user", "plugin", "unclaimed"}]
        /\ \A t \in Tab : (t # Target => author'[t] = author[t])
                          /\ (author'[t] = "plugin" <=> author[t] = "plugin")
    BY <1>1, <1>3, <2>1
  <2>5. ASSUME NEW t \in Open, t = Target, author[t] = "plugin" PROVE PluginLabel(t)'
    <3>1. owned /\ Seen(t) = label[t] /\ t \in Tab
      BY <1>4, <2>5
    <3>2. entry = Owned(Strip(label[t]), label[t])
      BY <2>1, <2>2, <2>5, <3>1
    <3> HIDE DEF entry
    <3>3. mem'.tabs[t] = Owned(Strip(label[t]), label[t])
      BY <1>1, <2>3, <2>5, <3>1, <3>2 DEF SetOwnership, StateSet
    <3>4. Recognises(mem, t)'
      BY <2>3, <3>3, OwnedResolves DEF Recognises
    <3>5. Recognises(disk, t)'
      BY <1>4, <2>1, <2>3, <2>5 DEF Recognises
    <3> QED BY <1>1, <1>2, <2>3, <2>5, <3>4, <3>5, LeftAlone
  <2> QED BY <1>3, <2>3, <2>4, <2>5, LoopAuthor DEF Target
<1>7. ASSUME NEW computed \in Computed(Target), RenamePlanned(computed) PROVE AuthorInv'
  <2> DEFINE base    == DesiredBase(Target, computed)
             desired == Desired(Target, base)
             owned   == PluginOwned(Target, computed)
             pending == Pending(Seen(Target), desired, base, Previous(Ownership(Target)))
             entry   == IF owned THEN pending ELSE Entry(Target)
  <2>1. /\ desired # Seen(Target)
        /\ plan' = [tab |-> Target, desired |-> desired, base |-> base, owned |-> owned]
        /\ mem' = SetOwnership(mem, Target, entry)
        /\ disk' = IF owned THEN mem' ELSE disk
        /\ pc' = "guard" /\ UNCHANGED <<session, inv, snap, todo, author>>
    BY <1>7 DEF RenamePlanned
  <2>2. label' = label
    BY <2>1 DEF session
  <2>3. ASSUME NEW t \in Open, t = Target, author[t] = "plugin" PROVE PluginLabel(t)'
    <3>1. /\ owned /\ Seen(t) = label[t] /\ t \in Tab
          /\ Ownership(t) = Owned(Strip(label[t]), label[t])
      BY <1>4, <2>3
    <3>2. Previous(Ownership(t)) = Owned(Strip(label[t]), label[t])
      BY <3>1 DEF Previous, Owned
    <3>3. entry = Pending(label[t], desired, base, Owned(Strip(label[t]), label[t]))
      BY <2>3, <3>1, <3>2
    <3>4. label[t] # desired
      BY <2>1, <2>3, <3>1
    <3>5. owned = TRUE
      BY <3>1 DEF PluginOwned
    <3> HIDE DEF entry, desired, base, owned
    <3>6. mem'.tabs[t] = entry
      BY <1>1, <2>1, <2>3, <3>1 DEF SetOwnership, StateSet
    <3>7. Recognises(mem, t)'
      BY <2>2, <3>3, <3>4, <3>6, PendingResolves DEF Recognises
    <3>8. Recognises(disk, t)'
      BY <2>1, <3>1, <3>7 DEF Recognises
    <3>9. plan'.owned
      BY <2>1, <3>5
    <3> QED BY <1>1, <2>1, <2>2, <2>3, <3>1, <3>7, <3>8, <3>9 DEF PluginLabel, Seen
  <2> QED BY <1>3, <2>1, <2>2, <2>3, LoopAuthor DEF Target
<1> QED BY <1>5, <1>6, <1>7, PlanTabCases

LEMMA PlanClearAuthor ==
  ASSUME TypeInv, TypeInv', AuthorInv, PlanClear
  PROVE  AuthorInv'
<1>1. /\ pc = "plan" /\ inv.op = "clear" /\ todo # <<>> /\ pc' = "guard"
      /\ UNCHANGED <<session, disk, mem, inv, snap, todo, author>>
  BY DEF PlanClear, history
<1>2. label' = label /\ author \in [Tab -> {"herdr", "user", "plugin", "unclaimed"}]
  BY <1>1 DEF session, AuthorInv
<1>3. ASSUME NEW t \in Open, author[t] = "plugin" PROVE PluginLabel(t)'
  BY <1>1, <1>2, <1>3 DEF AuthorInv, PluginLabel, Recognises, Seen, Working
<1> QED BY <1>1, <1>2, <1>3, LoopAuthor

LEMMA GuardReadAuthor ==
  ASSUME TypeInv, TypeInv', AuthorInv, GuardRead
  PROVE  AuthorInv'
<1> DEFINE resolved == SetOwnership(mem, plan.tab, Resolve(mem.tabs[plan.tab], label[plan.tab]))
<1>1. /\ pc = "guard" /\ Working /\ todo # <<>> /\ plan.tab = Head(todo) /\ plan.tab \in Range(todo)
      /\ UNCHANGED author
  BY PlannedType DEF GuardRead, Working, history
<1>2. Range(todo') \subseteq Range(todo)
  BY LoopStep
<1>3. author \in [Tab -> {"herdr", "user", "plugin", "unclaimed"}]
  BY DEF AuthorInv
<1>4. CASE plan.tab \notin Open \/ label[plan.tab] # Seen(plan.tab)
  <2>1. \E state : Proceed(state)
    BY <1>4 DEF GuardRead
  <2>2. label' = label
    BY <2>1 DEF Proceed, session
  <2>3. \A t \in Open : t = Head(todo) => author[t] # "plugin"
    BY <1>1, <1>4 DEF AuthorInv, PluginLabel
  <2> QED BY <1>1, <1>3, <2>2, <2>3, LoopAuthor
<1>5. CASE plan.tab \in Open /\ label[plan.tab] = Seen(plan.tab)
  <2>1. pc' = "rename" /\ UNCHANGED <<session, disk, mem, inv, snap, todo, plan>>
    BY <1>5 DEF GuardRead
  <2>2. label' = label
    BY <2>1 DEF session
  <2>3. ASSUME NEW t \in Open, author[t] = "plugin" PROVE PluginLabel(t)'
    BY <1>1, <2>1, <2>2, <2>3 DEF AuthorInv, PluginLabel, Recognises, Seen, Working
  <2> QED BY <1>1, <1>3, <2>2, <2>3, LoopAuthor
<1> QED BY <1>4, <1>5

(***************************************************************************)
(* The rename itself: what was recorded before it now reads back as Owned.  *)
(***************************************************************************)
LEMMA AppliedAuthor ==
  ASSUME TypeInv, AuthorInv, pc = "rename", Apply, UNCHANGED <<order, place, gone, env>>
  PROVE  /\ author' \in [Tab -> {"herdr", "user", "plugin", "unclaimed"}]
         /\ \A t \in Tab : t # plan.tab \/ t \notin Open =>
              label'[t] = label[t] /\ author'[t] = author[t]
         /\ \A t \in Open : t = plan.tab /\ author'[t] = "plugin" =>
              /\ plan.owned /\ label'[t] = plan.desired
              /\ Resolve(disk.tabs[t], label'[t]) = Owned(Strip(label'[t]), label'[t])
              /\ Owned(plan.base, plan.desired) = Owned(Strip(label'[t]), label'[t])
<1>1. /\ plan.tab \in Tab /\ plan.desired \in Label /\ plan.owned \in BOOLEAN
      /\ mem.tabs[plan.tab] \in OwnershipSet
  BY PlannedType
<1>2. author \in [Tab -> {"herdr", "user", "plugin", "unclaimed"}]
  BY DEF AuthorInv
<1>3. label \in [Tab -> Label] /\ Open \subseteq Tab
  BY OpenType DEF TypeInv, SessionInv
<1>4. /\ label' = IF plan.tab \in Open THEN [label EXCEPT ![plan.tab] = plan.desired] ELSE label
      /\ author' = IF plan.tab \in Open
                   THEN [author EXCEPT ![plan.tab] =
                           IF plan.owned THEN "plugin"
                           ELSE IF inv.op = "clear" \/ label[plan.tab] # Seen(plan.tab)
                                THEN "unclaimed" ELSE @]
                   ELSE author
  BY DEF Apply
<1>5. author' \in [Tab -> {"herdr", "user", "plugin", "unclaimed"}]
  BY <1>1, <1>2, <1>4
<1>6. \A t \in Tab : t # plan.tab \/ t \notin Open =>
        label'[t] = label[t] /\ author'[t] = author[t]
  BY <1>1, <1>2, <1>3, <1>4
<1>7. ASSUME NEW t \in Open, t = plan.tab, author'[t] = "plugin"
      PROVE  /\ plan.owned /\ label'[t] = plan.desired
             /\ Resolve(disk.tabs[t], label'[t]) = Owned(Strip(label'[t]), label'[t])
             /\ Owned(plan.base, plan.desired) = Owned(Strip(label'[t]), label'[t])
  <2>1. label'[t] = plan.desired
    BY <1>1, <1>3, <1>4, <1>7
  <2>2. author[t] = "plugin" => plan.owned \/ inv.op = "clear"
    BY <1>7 DEF AuthorInv, PluginLabel
  <2>3. plan.owned
    BY <1>1, <1>2, <1>4, <1>7, <2>2
  <2>4. /\ Strip(plan.desired) = plan.base /\ disk = mem
        /\ mem.tabs[t].own = "pending" /\ mem.tabs[t].desired = plan.desired
    BY <1>7, <2>3 DEF TypeInv, PlanInv
  <2>5. mem.tabs[t].base = Strip(plan.desired)
    BY <1>1, <1>7, <2>4, OwnershipKinds, PendingFields
  <2>6. Resolve(mem.tabs[t], plan.desired) = Owned(plan.base, plan.desired)
    BY <2>4, <2>5 DEF Resolve
  <2> QED BY <2>1, <2>3, <2>4, <2>6
<1> QED BY <1>5, <1>6, <1>7

LEMMA RenameAuthor ==
  ASSUME TypeInv, TypeInv', AuthorInv, Rename
  PROVE  AuthorInv'
<1>1. /\ pc = "rename" /\ Apply /\ pc' = "plan" /\ todo' = Tail(todo)
      /\ mem' = IF plan.owned THEN SetOwnership(mem, plan.tab, Owned(plan.base, plan.desired))
                ELSE mem
      /\ UNCHANGED <<order, place, gone, env, disk, inv, snap>>
  BY DEF Rename
<1>2. /\ plan.tab = Head(todo) /\ plan.tab \in Tab /\ plan.tab \in Range(snap.order)
      /\ plan.tab \notin Range(Tail(todo))
  BY <1>1, PlannedType
<1>3. mem \in StateSet
  BY DEF TypeInv, StateInv
<1>4. ASSUME NEW t \in Open, t = plan.tab, author'[t] = "plugin" PROVE PluginLabel(t)'
  <2>1. /\ plan.owned
        /\ Resolve(disk.tabs[t], label'[t]) = Owned(Strip(label'[t]), label'[t])
        /\ Owned(plan.base, plan.desired) = Owned(Strip(label'[t]), label'[t])
    BY <1>1, <1>4, AppliedAuthor
  <2>2. mem'.tabs[t] = Owned(Strip(label'[t]), label'[t])
    BY <1>1, <1>2, <1>3, <1>4, <2>1 DEF SetOwnership, StateSet
  <2>3. Recognises(mem, t)'
    BY <2>2, OwnedResolves DEF Recognises
  <2>4. Recognises(disk, t)'
    BY <1>1, <2>1 DEF Recognises
  <2> QED BY <1>1, <1>2, <1>4, <2>3, <2>4 DEF PluginLabel
<1> QED BY <1>1, <1>2, <1>4, AppliedAuthor, LoopAuthor

LEMMA RenameUnansweredAuthor ==
  ASSUME TypeInv, AuthorInv, RenameUnanswered
  PROVE  AuthorInv'
<1>1. pc = "rename" /\ Apply /\ EndOfPass /\ UNCHANGED <<order, place, gone, env, disk>>
  BY DEF RenameUnanswered
<1>2. Open' = Open /\ pc' = "idle" /\ Range(todo') = {} /\ Open \subseteq Tab
  BY <1>1, NothingLeft, OpenType DEF Open, TypeInv
<1>3. ASSUME NEW t \in Open, author'[t] = "plugin" PROVE Recognises(disk, t)'
  <2>1. CASE t = plan.tab
    BY <1>1, <1>3, <2>1, AppliedAuthor DEF Recognises
  <2>2. CASE t # plan.tab
    <3>1. label'[t] = label[t] /\ author[t] = "plugin"
      BY <1>1, <1>2, <1>3, <2>2, AppliedAuthor
    <3> QED BY <1>1, <3>1 DEF AuthorInv, PluginLabel, Recognises
  <2> QED BY <2>1, <2>2
<1>4. author' \in [Tab -> {"herdr", "user", "plugin", "unclaimed"}]
  BY <1>1, AppliedAuthor
<1>5. \A t \in Tab \ Open : author'[t] # "plugin"
  BY <1>1, AppliedAuthor DEF AuthorInv
<1> QED BY <1>2, <1>3, <1>4, <1>5 DEF AuthorInv, PluginLabel, Working

LEMMA AuthorStep ==
  ASSUME TypeInv, TypeInv', ResolvedInv, AuthorInv, FixedInv, [Next]_vars
  PROVE  AuthorInv'
<1>1. author \in [Tab -> {"herdr", "user", "plugin", "unclaimed"}] /\ mem \in StateSet /\ Open \subseteq Tab
  BY OpenType DEF AuthorInv, TypeInv, StateInv
<1>2. CASE UNCHANGED vars
  BY <1>2 DEF vars, session, pass, history, AuthorInv, PluginLabel, Recognises, Seen, Working, Open
<1>3. ASSUME NEW i \in Invocation, Begin(i) PROVE AuthorInv'
  BY <1>3, BeginAuthor
<1>4. CASE IgnoreClosedPane
  <2>1. pc = "snapshot" /\ EndOfPass /\ UNCHANGED <<session, author>> /\ disk' = Refresh(mem, place, Open)
    BY <1>4 DEF IgnoreClosedPane, history
  <2>2. disk'.tabs = mem.tabs
    BY <1>1, <2>1, RefreshType
  <2> QED BY <1>1, <2>1, <2>2, EndKeepsAuthor
<1>5. CASE TakeClearSnapshot
  <2>1. /\ pc = "snapshot" /\ pc' = "plan" /\ UNCHANGED <<session, disk, mem, author>>
        /\ snap' = [order |-> order, label |-> label]
    BY <1>5 DEF TakeClearSnapshot, history
  <2>2. Open' = Open /\ label' = label /\ snap'.order = order /\ snap'.label = label
    BY <2>1 DEF session, Open
  <2> QED BY <2>1, <2>2 DEF AuthorInv, PluginLabel, Recognises, Seen, Open
<1>6. CASE Fail
  <2>1. pc # "idle" /\ EndOfPass /\ UNCHANGED <<session, disk, author>>
    BY <1>6 DEF Fail
  <2> QED BY <1>1, <2>1, EndKeepsAuthor
<1>7. CASE Finish
  <2>1. /\ pc = "plan" /\ EndOfPass /\ UNCHANGED session
        /\ disk' = CASE inv.op = "clear" -> Prune(mem, {})
                     [] inv.op = "full"  -> Prune(mem, Range(snap.order))
                     [] OTHER -> mem
        /\ author' = IF inv.op = "clear"
                     THEN [t \in Tab |-> IF author[t] = "plugin" THEN "unclaimed" ELSE author[t]]
                     ELSE author
    BY <1>7 DEF Finish
  <2>2. /\ author' \in [Tab -> {"herdr", "user", "plugin", "unclaimed"}]
        /\ \A t \in Tab : author'[t] = "plugin" => author[t] = "plugin" /\ inv.op # "clear"
    BY <1>1, <2>1
  <2>3. ASSUME NEW t \in Open, author'[t] = "plugin" PROVE disk'.tabs[t] = mem.tabs[t]
    <3>1. author[t] = "plugin" /\ inv.op # "clear" /\ t \in Tab
      BY <1>1, <2>2, <2>3
    <3>2. t \in Range(snap.order)
      BY <2>1, <3>1 DEF AuthorInv, PluginLabel, Working
    <3>3. Prune(mem, Range(snap.order)).tabs[t] = mem.tabs[t]
      BY <1>1, <3>1, <3>2, PruneType
    <3> QED BY <2>1, <3>1, <3>3
  <2> QED BY <2>1, <2>2, <2>3, EndKeepsAuthor
<1> QED BY <1>2, <1>3, <1>4, <1>5, <1>6, <1>7, PassSteps, SessionAuthor, SnapshotAuthor,
           SkipTabAuthor, PlanTabAuthor, PlanClearAuthor, GuardReadAuthor, RenameAuthor,
           RenameUnansweredAuthor DEF Next

-----------------------------------------------------------------------------
(* What the user types is no name *)

LEMMA NotANameStep ==
  ASSUME TypeInv, AuthorInv, FixedInv, NotAName, [Next]_vars
  PROVE  NotAName'
<1> DEFINE NoNameOf(l) == FromText(l) \notin Names \ {<<>>}
<1>1. SessionInv /\ \A l \in UserLabels \cup {FreshLabel} : NoNameOf(l)
  BY LabelsAssumption DEF TypeInv
<1>2. CASE Session
  <2>1. SessionInv' /\ gone \subseteq gone'
    BY <1>1, <1>2, SessionStep
  <2>2. \A t \in Tab : TabKept(t) \/ RenamedByUser(t) \/ OpenedByUser(t) \/ ClosedByUser(t)
    BY <1>1, <1>2, SessionEffect DEF AuthorInv, FixedInv
  <2>3. ASSUME NEW t \in Tab \ gone', author'[t] \in {"herdr", "user"} PROVE NoNameOf(label'[t])
    <3>1. CASE TabKept(t) \/ OpenedByUser(t)
      BY <2>1, <2>3, <3>1 DEF TabKept, OpenedByUser, NotAName
    <3>2. CASE RenamedByUser(t)
      BY <1>1, <3>2 DEF RenamedByUser
    <3>3. CASE ClosedByUser(t)
      <4>1. label'[t] = FreshLabel
        BY <2>1, <2>3, <3>3 DEF ClosedByUser, SessionInv
      <4> QED BY <1>1, <4>1
    <3> QED BY <2>2, <3>1, <3>2, <3>3
  <2> QED BY <2>3 DEF NotAName
<1>3. ASSUME UNCHANGED <<label, gone>>,
             \A t \in Tab : author'[t] \in {"herdr", "user"} => author[t] = author'[t]
      PROVE  NotAName'
  BY <1>3 DEF NotAName
<1>4. author \in [Tab -> {"herdr", "user", "plugin", "unclaimed"}]
  BY DEF AuthorInv
<1>5. \A t : \A u \in Tab : GiveUp(t)[u] \in {"herdr", "user"} => author[u] = GiveUp(t)[u]
  BY <1>4 DEF GiveUp
<1>6. ASSUME NEW i \in Invocation, Begin(i) PROVE NotAName'
  BY <1>3, <1>5, <1>6 DEF Begin, session
<1>7. CASE TakeSnapshot
  BY <1>3, <1>5, <1>7 DEF TakeSnapshot, session
<1>8. CASE IgnoreClosedPane \/ TakeClearSnapshot \/ PlanClear \/ Fail \/ UNCHANGED vars
  BY <1>3, <1>8 DEF IgnoreClosedPane, TakeClearSnapshot, PlanClear, Fail, session, history, vars
<1>9. CASE SkipTab \/ GuardRead
  BY <1>3, <1>9 DEF SkipTab, GuardRead, Proceed, session, history
<1>10. CASE PlanTab
  <2>1. PICK computed \in Computed(Target) :
          \/ Proceed(mem) /\ UNCHANGED <<disk, author>>
          \/ NothingToRename(computed) \/ RenamePlanned(computed)
    BY <1>10, PlanTabCases
  <2>2. CASE NothingToRename(computed)
    <3>1. author' \in {author, [author EXCEPT ![Target] = "unclaimed"]} /\ UNCHANGED <<label, gone>>
      BY <1>4, <2>2 DEF NothingToRename, Proceed, session
    <3> QED BY <1>3, <1>4, <3>1
  <2> QED BY <1>3, <2>1, <2>2 DEF RenamePlanned, Proceed, session
<1>11. CASE Finish
  <2>1. UNCHANGED <<label, gone>>
    BY <1>11 DEF Finish, session
  <2>2. author' \in {author, [t \in Tab |-> IF author[t] = "plugin" THEN "unclaimed" ELSE author[t]]}
    BY <1>11 DEF Finish
  <2> QED BY <1>3, <1>4, <2>1, <2>2
<1>12. CASE Rename \/ RenameUnanswered
  <2>1. pc = "rename" /\ Apply /\ UNCHANGED <<order, place, gone, env>>
    BY <1>12 DEF Rename, RenameUnanswered
  <2>2. \A t \in Tab : t # plan.tab \/ t \notin Open => label'[t] = label[t] /\ author'[t] = author[t]
    BY <2>1, AppliedAuthor
  <2>3. ASSUME NEW t \in Tab \ gone, t = plan.tab, t \in Open, author'[t] \in {"herdr", "user"}
        PROVE  NoNameOf(label'[t])
    <3>1. plan.owned \in BOOLEAN /\ label'[t] = plan.desired
      BY <2>1, <2>3, PlannedType, ApplyType
    <3>2. author' = [author EXCEPT ![t] =
                       IF plan.owned THEN "plugin"
                       ELSE IF inv.op = "clear" \/ label[t] # Seen(t) THEN "unclaimed" ELSE @]
      BY <2>1, <2>3 DEF Apply
    <3>3. ~plan.owned /\ label[t] = Seen(t) /\ author'[t] = author[t]
      BY <1>4, <2>3, <3>1, <3>2
    <3>4. FromText(plan.desired) = FromText(label[t])
      BY <2>1, <2>3, <3>3 DEF TypeInv, PlanInv
    <3> QED BY <2>3, <3>1, <3>3, <3>4 DEF NotAName
  <2> QED BY <2>1, <2>2, <2>3 DEF NotAName
<1> QED BY <1>2, <1>6, <1>7, <1>8, <1>9, <1>10, <1>11, <1>12, PassSteps DEF Next

-----------------------------------------------------------------------------
(* The names of the user *)

LEMMA NoNameType == NoName \in TypedSet
<1>1. <<Space>> \in Label
  BY TokenKinds DEF Label
<1> QED BY <1>1 DEF NoName, FixedName, TypedSet, Durings

LEMMA FixedByType ==
  ASSUME NEW t, NEW l \in Label
  PROVE  FixedBy(t, l) \in TypedSet
BY NoNameType, FromTextType DEF FixedBy, FixedName, TypedSet, Durings

\* The text of what the plugin renders for itself is a name.
LEMMA RenderedText ==
  ASSUME NEW l \in Label, Strip(l) \in Names
  PROVE  FromText(l) \in Names /\ FromText(l) = Strip(l)
BY StripKeepsText, NameFacts

(***************************************************************************)
(* A name that only the user has is protected by any entry but a waiting    *)
(* one, and a recorded rename of the same text.                             *)
(***************************************************************************)
LEMMA UserTextProtected ==
  ASSUME NEW o \in OwnershipSet, NEW x, IsUserText(x), o # Reset,
         o.own = "pending" => FromText(o.observed) # x
  PROVE  Protects(o, x)
<1>1. o.own = "owned" => o.base \in Names
  BY OwnershipKinds, OwnedFields
<1>2. o.own = "pending" => FromText(o.desired) \in Names
  BY OwnershipKinds, PendingFields, RenderedText
<1> QED BY <1>1, <1>2 DEF Protects, IsUserText

LEMMA ManualProtects == \A x : Protects(Manual, x) /\ Protects(Disabled, x)
BY DEF Protects, Manual, Disabled, Reset, Unowned

\* Nor does recovery take it away.
LEMMA ResolveProtects ==
  ASSUME NEW o \in OwnershipSet, NEW l \in Label, Protects(o, FromText(l))
  PROVE  Protects(Resolve(o, l), FromText(l))
<1>1. CASE o.own # "pending"
  BY <1>1 DEF Resolve
<1>2. CASE o.own = "pending"
  <2>1. l # o.desired /\ l # o.observed
    BY <1>2 DEF Protects
  <2> QED BY <1>2, <2>1, ManualProtects DEF Resolve
<1> QED BY <1>1, <1>2

(***************************************************************************)
(* The decision of reconcile_tab about a label with the user's text: the    *)
(* plugin does not own it, and the entry it leaves protects the text too.   *)
(***************************************************************************)
LEMMA UserLabelDecision ==
  ASSUME TypeInv, ResetInv, pc = "plan", inv.op # "clear", todo # <<>>,
         NEW t, t = Target, NEW x, x # <<>>, FromText(Seen(t)) = x, Protects(mem.tabs[t], x)
  PROVE  ~Eligible(t) /\ Protects(Entry(t), x)
<1>1. t \in Tab /\ t \in Range(todo) /\ Seen(t) \in Label /\ StateInv
  BY TargetType DEF TypeInv
<1>2. mem.tabs[t] # Reset
  BY DEF Protects
<1>3. ~Forced(t)
  BY <1>1, <1>2 DEF ResetInv, Undecided
<1>4. ~IsBlank(Seen(t)) /\ ~IsBlank(Strip(Seen(t)))
  BY <1>1, TextIsNotBlank
<1>5. ~Released(t)
  BY <1>4 DEF Released, RenamedToBlank
<1>6. Ownership(t) # Reset
  BY <1>2 DEF Ownership, Manual, Reset
<1>7. Ownership(t).own # "owned"
  <2> SUFFICES ASSUME Ownership(t).own = "owned" PROVE FALSE
    OBVIOUS
  <2>1. Ownership(t) = mem.tabs[t] /\ Ownership(t).base \in Names /\ Ownership(t).base = Strip(Seen(t))
    BY <1>1, OwnershipFacts
  <2>2. mem.tabs[t].base = x
    BY <1>1, <2>1, RenderedText
  <2> QED BY <2>1, <2>2 DEF Protects
<1>8. ~(Ownership(t) = Unowned /\ IsPlaceholder(Strip(Seen(t))))
  <2> SUFFICES ASSUME Ownership(t) = Unowned, IsPlaceholder(Strip(Seen(t))) PROVE FALSE
    OBVIOUS
  <2>1. mem.tabs[t] = Unowned
    BY DEF Ownership, Manual, Unowned
  <2>2. IsPlaceholder(x)
    BY <1>1, PlaceholderText
  <2> QED BY <2>1, <2>2 DEF Protects
<1>9. ~Eligible(t)
  BY <1>3, <1>5, <1>6, <1>7, <1>8 DEF Eligible
<1>10. Ownership(t) \in {Manual, mem.tabs[t]}
  BY DEF Ownership
<1>11. Entry(t) \in {Manual, mem.tabs[t]}
  BY <1>3, <1>5, <1>10 DEF Entry
<1> QED BY <1>9, <1>11, ManualProtects

\* Any other label of a tab that has a name of the user's: the name stays protected.
LEMMA UserEntryKept ==
  ASSUME StateInv, NEW t \in Tab, NEW x, IsUserText(x), Protects(mem.tabs[t], x)
  PROVE  Protects(Entry(t), x)
<1>1. Protects(Unowned, x)
  BY DEF Protects, IsUserText, Unowned, Reset
<1>2. Entry(t) \in {Manual, Unowned, mem.tabs[t]}
  BY DEF Entry, Ownership
<1> QED BY <1>1, <1>2, ManualProtects

LEMMA SessionFixed ==
  ASSUME TypeInv, AuthorInv, FixedInv, Session
  PROVE  FixedInv'
<1>1. SessionInv /\ StateInv
  BY DEF TypeInv
<1>2. SessionInv' /\ UNCHANGED <<disk, mem, pc, inv, snap, todo, plan>>
  BY <1>1, SessionStep DEF pass
<1>3. /\ \A t \in Tab : TabKept(t) \/ RenamedByUser(t) \/ OpenedByUser(t) \/ ClosedByUser(t)
      /\ typed' = [t \in Tab |-> typed'[t]]
  BY <1>1, SessionEffect DEF AuthorInv, FixedInv
<1>4. typed \in [Tab -> TypedSet] /\ UserLabels \subseteq Label
  BY LabelsAssumption DEF FixedInv
<1>5. \A t \in Tab : typed'[t] \in TypedSet
  BY <1>3, <1>4, FixedByType, NoNameType DEF TabKept, RenamedByUser, OpenedByUser, ClosedByUser
<1>6. ASSUME NEW t \in Tab, Fixed(t)' PROVE FixedLabel(t)'
  <2>1. CASE TabKept(t)
    BY <1>2, <1>6, <2>1 DEF TabKept, FixedInv, FixedLabel, Fixed, Seen, Working
  <2>2. CASE OpenedByUser(t)
    BY <1>6, <2>2 DEF OpenedByUser, FixedInv, FixedLabel, Fixed
  <2>3. CASE ClosedByUser(t)
    BY <1>6, <2>3 DEF ClosedByUser, Fixed
  <2>4. CASE RenamedByUser(t)
    <3> DEFINE l == label'[t]
               x == FromText(l)
    <3>1. l \in UserLabels /\ l \in Label /\ typed'[t] = FixedBy(t, l) /\ t \in Open'
      BY <1>4, <2>4 DEF RenamedByUser
    <3> HIDE DEF l
    <3>2. FixedBy(t, l) # NoName /\ FixedBy(t, l).during = "nothing"
      BY <1>6, <3>1 DEF Fixed
    <3>3. /\ x # <<>> /\ typed'[t].text = x
          /\ ~IsPlaceholder(x) /\ ~AdoptionRequested(t) /\ ~RenameExpects(t, l) /\ ~Racing(t)
      BY <3>1, <3>2 DEF FixedBy, FixedName
    <3>4. x \notin Names
      BY <3>1, <3>3, LabelsAssumption
    <3>5. IsUserText(x)
      BY <3>3, <3>4 DEF IsUserText
    <3>6. disk.tabs[t] \in OwnershipSet /\ mem.tabs[t] \in OwnershipSet
      BY <1>1 DEF StateInv, StateSet
    <3>7. \A o \in {disk.tabs[t], mem.tabs[t]} : o.own = "pending" => FromText(o.observed) # x
      BY <3>3 DEF RenameExpects
    <3>8. disk.tabs[t] # Reset /\ (pc # "idle" => mem.tabs[t] # Reset)
      BY <3>3 DEF AdoptionRequested
    <3> HIDE DEF x
    <3>9. Protects(disk.tabs[t], x) /\ (pc # "idle" => Protects(mem.tabs[t], x))
      BY <3>5, <3>6, <3>7, <3>8, UserTextProtected
    <3>10. ~(pc = "rename" /\ plan.tab = t)
      BY <3>3 DEF Racing
    <3>11. FromText(label'[t]) = x
      BY DEF x, l
    <3> QED BY <1>2, <3>1, <3>3, <3>5, <3>9, <3>10, <3>11 DEF FixedLabel
  <2> QED BY <1>3, <2>1, <2>2, <2>3, <2>4
<1> QED BY <1>3, <1>5, <1>6 DEF FixedInv

\* A pass that has not looked at the labels yet, or has ended.
LEMMA NotWorkingFixed ==
  ASSUME FixedInv, typed' \in [Tab -> TypedSet], ~Working', Open' = Open,
         \A t \in Tab : Fixed(t)' =>
           /\ Fixed(t) /\ typed'[t] = typed[t] /\ FromText(label'[t]) = FromText(label[t])
           /\ Protects(disk'.tabs[t], typed[t].text)
           /\ pc' # "idle" => Protects(mem'.tabs[t], typed[t].text)
  PROVE  FixedInv'
<1>1. pc' # "rename"
  BY DEF Working
<1>2. ASSUME NEW t \in Tab, Fixed(t)' PROVE FixedLabel(t)'
  <2>1. Fixed(t) /\ FixedLabel(t)
    BY <1>2 DEF FixedInv
  <2> QED BY <1>1, <1>2, <2>1 DEF FixedLabel
<1> QED BY <1>2 DEF FixedInv

LEMMA BeginFixed ==
  ASSUME TypeInv, FixedInv, NEW i \in Invocation, Begin(i)
  PROVE  FixedInv'
<1>1. /\ pc' = "snapshot" /\ disk' = mem' /\ UNCHANGED session
      /\ typed' = IF i.op = "reset" THEN [typed EXCEPT ![i.tab] = NoName] ELSE typed
  BY DEF Begin
<1>2. typed \in [Tab -> TypedSet]
  BY DEF FixedInv
<1>3. /\ typed' \in [Tab -> TypedSet]
      /\ \A t \in Tab : typed'[t] \in {typed[t], NoName}
      /\ \A t \in Tab : i.op = "reset" /\ t = i.tab => typed'[t] = NoName
  BY <1>1, <1>2, NoNameType
<1>4. \A t \in Tab : Fixed(t)' => /\ typed'[t] = typed[t] /\ Fixed(t)
                                  /\ i.op = "reset" => t # i.tab
  BY <1>3 DEF Fixed
<1>5. \A t \in Tab : Fixed(t)' => disk'.tabs[t] = disk.tabs[t] /\ mem'.tabs[t] = disk.tabs[t]
  BY <1>1, <1>4, BeginEntries
<1>6. \A t \in Tab : Fixed(t)' => Protects(disk.tabs[t], typed[t].text)
  BY <1>4 DEF FixedInv, FixedLabel
<1>7. Open' = Open /\ label' = label /\ ~Working'
  BY <1>1 DEF session, Open, Working
<1> QED BY <1>3, <1>4, <1>5, <1>6, <1>7, NotWorkingFixed

LEMMA SnapshotFixed ==
  ASSUME TypeInv, FixedInv, TakeSnapshot
  PROVE  FixedInv'
<1>1. /\ pc = "snapshot" /\ pc' = "plan" /\ mem' = Recovered /\ UNCHANGED session
      /\ disk' = IF inv.op = "toggle" THEN mem' ELSE disk
      /\ snap' = [order |-> order, label |-> label]
      /\ typed' = IF inv.op = "toggle" /\ inv.tab \in Open
                  THEN [typed EXCEPT ![inv.tab] =
                          IF mem'.tabs[inv.tab] = Reset \/ FromText(label[inv.tab]) = <<>>
                          THEN NoName ELSE FixedName(FromText(label[inv.tab]), "nothing")]
                  ELSE typed
  BY DEF TakeSnapshot
<1>2. SessionInv /\ StateInv /\ inv \in Invocation /\ Open \subseteq Tab /\ label \in [Tab -> Label]
  BY <1>1, OpenType DEF TypeInv, PassInv, SessionInv
<1>3. Open' = Open /\ label' = label /\ Range(snap'.order) = Open' /\ snap'.label = label
  BY <1>1 DEF session, Open
<1>4. typed \in [Tab -> TypedSet]
  BY DEF FixedInv
<1> DEFINE toggled(t) == inv.op = "toggle" /\ t \in Open /\ inv.tab = t
<1>5. ASSUME NEW t \in Tab, toggled(t), Fixed(t)' PROVE FixedLabel(t)'
  <2>1. mem'.tabs[t] = Toggled(Resolve(mem.tabs[t], label[t]), label[t])
    BY <1>1, <1>2, <1>5, RecoveredEntries
  <2>2. /\ mem'.tabs[t] # Reset /\ FromText(label[t]) # <<>> /\ typed'[t].text = FromText(label[t])
    BY <1>1, <1>4, <1>5 DEF Fixed, FixedName
  <2>3. mem'.tabs[t] = Disabled /\ disk' = mem'
    BY <1>1, <1>5, <2>1, <2>2 DEF Toggled
  <2>4. Protects(mem'.tabs[t], typed'[t].text) /\ Protects(disk'.tabs[t], typed'[t].text)
    BY <2>3, ManualProtects
  <2> QED BY <1>1, <1>3, <1>5, <2>2, <2>4 DEF FixedLabel, Seen
<1>6. ASSUME NEW t \in Tab, ~toggled(t), Fixed(t)' PROVE FixedLabel(t)'
  <2>1. typed'[t] = typed[t]
    BY <1>1, <1>4, <1>6
  <2>2. Fixed(t) /\ FixedLabel(t)
    BY <1>6, <2>1 DEF Fixed, FixedInv
  <2>3. /\ t \in Open /\ FromText(label[t]) = typed[t].text /\ typed[t].text # <<>>
        /\ Protects(mem.tabs[t], FromText(label[t])) /\ Protects(disk.tabs[t], FromText(label[t]))
    BY <1>1, <2>2 DEF FixedLabel
  <2>4. mem.tabs[t] \in OwnershipSet /\ label[t] \in Label
    BY <1>2 DEF StateInv, StateSet
  <2>5. mem'.tabs[t] = Resolve(mem.tabs[t], label[t])
    BY <1>1, <1>2, <1>6, <2>3, RecoveredEntries DEF Removed, WasLastPane
  <2>6. Protects(mem'.tabs[t], FromText(label[t]))
    BY <2>3, <2>4, <2>5, ResolveProtects
  <2>7. Protects(disk'.tabs[t], FromText(label[t]))
    BY <1>1, <2>3, <2>6
  <2> QED BY <1>1, <1>3, <2>1, <2>3, <2>6, <2>7 DEF FixedLabel, Seen
<1>7. typed' \in [Tab -> TypedSet]
  <2>1. inv.op = "toggle" /\ inv.tab \in Open =>
          FixedName(FromText(label[inv.tab]), "nothing") \in TypedSet
    BY <1>2, FromTextType DEF FixedName, TypedSet, Durings
  <2> QED BY <1>1, <1>4, <2>1, NoNameType
<1> HIDE DEF toggled
<1> QED BY <1>5, <1>6, <1>7 DEF FixedInv

(***************************************************************************)
(* In the loop over the targets only the first target is in question.       *)
(***************************************************************************)
LEMMA LoopFixed ==
  ASSUME TypeInv, TypeInv', FixedInv, SkipTab \/ PlanTab \/ PlanClear \/ GuardRead \/ Rename,
         typed' = typed,
         \A t \in Tab \ {Head(todo)} : label'[t] = label[t],
         \A t \in Open : t = Head(todo) /\ Fixed(t) =>
           /\ FromText(label'[t]) = typed[t].text
           /\ Protects(mem'.tabs[t], typed[t].text)
           /\ pc' = "rename" => FromText(Seen(t)) = typed[t].text
  PROVE  FixedInv'
<1>1. /\ Working /\ Head(todo) \in Tab /\ Open' = Open
      /\ UNCHANGED snap /\ disk' \in {disk, mem'}
      /\ pc' # "plan" => todo' = todo
      /\ \A t \in Tab \ {Head(todo)} : mem'.tabs[t] = mem.tabs[t]
  BY LoopStep
<1>2. pc' = "rename" => plan'.tab = Head(todo)
  BY <1>1 DEF TypeInv, PlanInv
<1>3. ASSUME NEW t \in Tab, Fixed(t)' PROVE FixedLabel(t)'
  <2>1. Fixed(t) /\ FixedLabel(t) /\ Seen(t)' = Seen(t)
    BY <1>1, <1>3 DEF Fixed, FixedInv, Seen
  <2>2. t \in Open /\ Protects(disk.tabs[t], typed[t].text) /\ Protects(mem.tabs[t], typed[t].text)
    BY <1>1, <2>1 DEF FixedLabel, Working
  <2>3. FromText(label'[t]) = typed[t].text /\ Protects(mem'.tabs[t], typed[t].text)
    <3>1. CASE t = Head(todo)
      BY <2>1, <2>2, <3>1
    <3>2. CASE t # Head(todo)
      BY <1>1, <2>1, <2>2, <3>2 DEF FixedLabel
    <3> QED BY <3>1, <3>2
  <2>4. Protects(disk'.tabs[t], typed[t].text)
    BY <1>1, <2>2, <2>3
  <2>5. pc' = "rename" /\ plan'.tab = t => FromText(Seen(t)) = typed[t].text
    BY <1>2, <2>1, <2>2
  <2> QED BY <1>1, <2>1, <2>2, <2>3, <2>4, <2>5 DEF FixedLabel
<1> QED BY <1>3 DEF FixedInv

LEMMA SkipTabFixed ==
  ASSUME TypeInv, TypeInv', FixedInv, SkipTab
  PROVE  FixedInv'
<1>1. /\ pc = "plan" /\ todo # <<>> /\ UNCHANGED typed
      /\ Proceed(mem) \/ Proceed(SetOwnership(mem, Target, Manual))
  BY DEF SkipTab, history
<1>2. /\ mem' \in {mem, SetOwnership(mem, Target, Manual)} /\ label' = label /\ pc' = "plan"
      /\ mem \in StateSet /\ Target \in Tab
  BY <1>1, TargetType DEF Proceed, session, TypeInv, StateInv
<1>3. ASSUME NEW t \in Open, t = Head(todo), Fixed(t)
      PROVE  FromText(label[t]) = typed[t].text /\ Protects(mem'.tabs[t], typed[t].text)
  <2>1. t \in Tab /\ FixedLabel(t)
    BY <1>2, <1>3 DEF FixedInv, Target
  <2>2. mem'.tabs[t] \in {mem.tabs[t], Manual}
    BY <1>2, <1>3, <2>1 DEF SetOwnership, StateSet, Target
  <2> QED BY <1>1, <2>1, <2>2, ManualProtects DEF FixedLabel
<1> QED BY <1>1, <1>2, <1>3, LoopFixed

LEMMA PlanTabFixed ==
  ASSUME TypeInv, TypeInv', ResetInv, FixedInv, PlanTab
  PROVE  FixedInv'
<1>1. /\ pc = "plan" /\ inv.op # "clear" /\ todo # <<>> /\ Working /\ typed' = typed
      /\ Target \in Tab /\ Target \in Range(snap.order) /\ Seen(Target) \in Label
      /\ StateInv /\ PassInv /\ mem \in StateSet
  BY PlanTabCases, TargetType DEF Working, TypeInv, StateInv
<1>2. ASSUME NEW t \in Open, t = Target, Fixed(t)
      PROVE  /\ t \in Tab /\ typed[t].text # <<>> /\ FromText(label[t]) = typed[t].text
             /\ Protects(mem.tabs[t], typed[t].text)
             /\ IsUserText(typed[t].text) \/ FromText(Seen(t)) = typed[t].text
  BY <1>1, <1>2 DEF FixedInv, FixedLabel, Working
<1>3. ASSUME label' = label, pc' # "rename",
             \A t \in Open : t = Target /\ Fixed(t) => Protects(mem'.tabs[t], typed[t].text)
      PROVE  FixedInv'
  <2>1. ASSUME NEW t \in Open, t = Head(todo), Fixed(t)
        PROVE  FromText(label'[t]) = typed[t].text /\ Protects(mem'.tabs[t], typed[t].text)
    BY <1>2, <1>3, <2>1 DEF Target
  <2> QED BY <1>1, <1>3, <2>1, LoopFixed
<1>4. CASE Proceed(mem)
  BY <1>2, <1>3, <1>4 DEF Proceed, session
<1>5. ASSUME NEW computed \in Computed(Target), NothingToRename(computed) \/ RenamePlanned(computed)
      PROVE  FixedInv'
  <2> DEFINE base    == DesiredBase(Target, computed)
             desired == Desired(Target, base)
             owned   == PluginOwned(Target, computed)
  <2>1. PICK entry :
          /\ mem' = SetOwnership(mem, Target, entry)
          /\ ~owned => entry = Entry(Target)
          /\ owned => \/ entry = Owned(base, desired)
                      \/ entry = Pending(Seen(Target), desired, base, Previous(Ownership(Target)))
    BY <1>5 DEF NothingToRename, RenamePlanned, Proceed
  <2>2. label' = label /\ pc' # "rename"
    BY <1>5 DEF NothingToRename, RenamePlanned, Proceed, session
  <2>3. desired \in Label /\ (owned => base \in Names /\ Strip(desired) = base)
    BY <1>1, Decision
  <2>4. ASSUME NEW t \in Open, t = Target, Fixed(t) PROVE Protects(mem'.tabs[t], typed[t].text)
    <3> DEFINE x == typed[t].text
    <3>1. /\ t \in Tab /\ x # <<>> /\ Protects(mem.tabs[t], x)
          /\ IsUserText(x) \/ FromText(Seen(t)) = x
      BY <1>2, <2>4
    <3> HIDE DEF x
    <3>2. mem'.tabs[t] = entry
      BY <1>1, <2>1, <2>4 DEF SetOwnership, StateSet
    <3>3. CASE FromText(Seen(t)) = x
      <4>1. ~Eligible(t) /\ Protects(Entry(t), x)
        BY <1>1, <2>4, <3>1, <3>3, UserLabelDecision
      <4>2. ~owned
        BY <2>4, <4>1 DEF PluginOwned
      <4>3. entry = Entry(t)
        BY <2>1, <2>4, <4>2
      <4> QED BY <3>2, <4>1, <4>3 DEF x
    <3>4. CASE FromText(Seen(t)) # x
      <4>1. IsUserText(x)
        BY <3>1, <3>4
      <4>2. CASE ~owned
        <5>1. entry = Entry(t)
          BY <2>1, <2>4, <4>2
        <5> QED BY <1>1, <3>1, <3>2, <4>1, <5>1, UserEntryKept DEF x
      <4>3. CASE owned
        <5>1. base \in Names /\ Strip(desired) = base /\ desired \in Label
          BY <2>3, <4>3
        <5>2. Previous(Ownership(t)) \in {Unowned, Reset} \cup OwnedSet
          BY <1>1, <3>1, OwnershipFacts
        <5> DEFINE pending == Pending(Seen(t), desired, base, Previous(Ownership(t)))
        <5>3. entry = Owned(base, desired) \/ entry = pending
          BY <2>1, <2>4, <4>3
        <5>4. Seen(t) \in Label
          BY <1>1, <2>4
        <5> HIDE DEF base, desired, owned
        <5>5. /\ Owned(base, desired) \in OwnershipSet /\ Owned(base, desired).own = "owned"
              /\ Owned(base, desired) # Reset
          BY <5>1, OwnedType, SimpleOwnership DEF Reset
        <5>6. /\ pending \in OwnershipSet /\ pending.own = "pending" /\ pending.observed = Seen(t)
              /\ pending # Reset
          BY <5>1, <5>2, <5>4, PendingType, SimpleOwnership DEF Reset
        <5> HIDE DEF pending
        <5>7. Protects(Owned(base, desired), x)
          BY <4>1, <5>5, UserTextProtected
        <5>8. Protects(pending, x)
          BY <3>4, <4>1, <5>6, UserTextProtected
        <5> QED BY <3>2, <5>3, <5>7, <5>8 DEF x
      <4> QED BY <4>2, <4>3
    <3> QED BY <3>3, <3>4
  <2> QED BY <1>3, <2>2, <2>4
<1> QED BY <1>4, <1>5, PlanTabCases

LEMMA PlanClearFixed ==
  ASSUME TypeInv, TypeInv', FixedInv, PlanClear
  PROVE  FixedInv'
<1>1. /\ pc = "plan" /\ pc' = "guard" /\ UNCHANGED <<session, mem, typed>>
  BY DEF PlanClear, history
<1>2. label' = label
  BY <1>1 DEF session
<1>3. ASSUME NEW t \in Open, t = Head(todo), Fixed(t)
      PROVE  FromText(label[t]) = typed[t].text /\ Protects(mem.tabs[t], typed[t].text)
  BY <1>1, <1>3, OpenType DEF FixedInv, FixedLabel, TypeInv
<1> QED BY <1>1, <1>2, <1>3, LoopFixed

LEMMA GuardReadFixed ==
  ASSUME TypeInv, TypeInv', FixedInv, GuardRead
  PROVE  FixedInv'
<1> DEFINE resolved == SetOwnership(mem, plan.tab, Resolve(mem.tabs[plan.tab], label[plan.tab]))
<1>1. /\ pc = "guard" /\ plan.tab = Head(todo) /\ plan.tab \in Tab /\ UNCHANGED typed
      /\ mem.tabs[plan.tab] \in OwnershipSet /\ mem \in StateSet /\ SessionInv
  BY PlannedType DEF GuardRead, history, TypeInv, StateInv
<1>2. /\ label' = label /\ mem' \in {mem, resolved}
      /\ pc' = "rename" => label[plan.tab] = Seen(plan.tab)
  BY DEF GuardRead, Proceed, session
<1>3. ASSUME NEW t \in Open, t = Head(todo), Fixed(t)
      PROVE  FromText(label[t]) = typed[t].text /\ Protects(mem'.tabs[t], typed[t].text)
  <2>1. /\ t \in Tab /\ FromText(label[t]) = typed[t].text /\ label[t] \in Label
        /\ Protects(mem.tabs[t], FromText(label[t]))
    BY <1>1, <1>3 DEF FixedInv, FixedLabel, SessionInv
  <2>2. mem'.tabs[t] \in {mem.tabs[t], Resolve(mem.tabs[t], label[t])}
    BY <1>1, <1>2, <1>3 DEF SetOwnership, StateSet
  <2>3. Protects(Resolve(mem.tabs[t], label[t]), FromText(label[t]))
    BY <1>1, <1>3, <2>1, ResolveProtects
  <2> QED BY <2>1, <2>2, <2>3
<1> QED BY <1>1, <1>2, <1>3, LoopFixed

(***************************************************************************)
(* A rename that goes through does not touch the text of a fixed name: it   *)
(* is not one that the plugin has recorded for itself.                      *)
(***************************************************************************)
LEMMA AppliedFixed ==
  ASSUME TypeInv, FixedInv, pc = "rename", Apply, UNCHANGED <<order, place, gone, env>>,
         NEW t \in Tab, Fixed(t)
  PROVE  /\ FromText(label'[t]) = typed[t].text
         /\ t = plan.tab => ~plan.owned
<1>1. FixedLabel(t) /\ PlanInv /\ Working
  BY DEF FixedInv, TypeInv, Working
<1>2. t \in Open /\ FromText(label[t]) = typed[t].text /\ Protects(mem.tabs[t], typed[t].text)
  BY <1>1 DEF FixedLabel
<1>3. CASE t # plan.tab
  BY <1>2, <1>3, ApplyType
<1>4. CASE t = plan.tab
  <2>1. FromText(Seen(t)) = typed[t].text
    BY <1>1, <1>4 DEF FixedLabel
  <2>2. ~plan.owned
    BY <1>1, <1>2, <1>4, <2>1 DEF PlanInv, Protects
  <2>3. FromText(plan.desired) = FromText(Seen(t))
    BY <1>1, <1>4, <2>2 DEF PlanInv
  <2>4. label'[t] = plan.desired
    BY <1>2, <1>4, ApplyType
  <2> QED BY <2>1, <2>2, <2>3, <2>4
<1> QED BY <1>3, <1>4

LEMMA RenameFixed ==
  ASSUME TypeInv, TypeInv', FixedInv, Rename
  PROVE  FixedInv'
<1>1. /\ pc = "rename" /\ Apply /\ pc' = "plan" /\ UNCHANGED <<order, place, gone, env, typed>>
      /\ ~plan.owned => mem' = mem
  BY DEF Rename
<1>2. plan.tab = Head(todo)
  BY <1>1, PlannedType
<1>3. \A t \in Tab \ {Head(todo)} : label'[t] = label[t]
  BY <1>1, <1>2, ApplyType
<1>4. ASSUME NEW t \in Open, t = Head(todo), Fixed(t)
      PROVE  FromText(label'[t]) = typed[t].text /\ Protects(mem'.tabs[t], typed[t].text)
  <2>1. t \in Tab
    BY <1>4, OpenType DEF TypeInv
  <2>2. FromText(label'[t]) = typed[t].text /\ ~plan.owned
    BY <1>1, <1>2, <1>4, <2>1, AppliedFixed
  <2>3. Protects(mem.tabs[t], typed[t].text)
    BY <1>1, <1>4, <2>1 DEF FixedInv, FixedLabel
  <2> QED BY <1>1, <2>2, <2>3
<1> QED BY <1>1, <1>3, <1>4, LoopFixed

LEMMA FinishFixed ==
  ASSUME TypeInv, FixedInv, Finish
  PROVE  FixedInv'
<1>1. /\ pc = "plan" /\ EndOfPass /\ UNCHANGED session
      /\ disk' = CASE inv.op = "clear" -> Prune(mem, {})
                   [] inv.op = "full"  -> Prune(mem, Range(snap.order))
                   [] OTHER -> mem
      /\ typed' = IF inv.op = "clear"
                  THEN [t \in Tab |-> IF IsPlaceholder(FromText(label[t])) THEN NoName ELSE typed[t]]
                  ELSE typed
  BY DEF Finish
<1>2. typed \in [Tab -> TypedSet] /\ mem \in StateSet
  BY DEF FixedInv, TypeInv, StateInv
<1>3. typed' \in [Tab -> TypedSet]
  BY <1>1, <1>2, NoNameType
<1>4. Open' = Open /\ label' = label /\ pc' = "idle"
  BY <1>1, NothingLeft DEF session, Open
<1>5. ASSUME NEW t \in Tab, Fixed(t)'
      PROVE  /\ Fixed(t) /\ typed'[t] = typed[t]
             /\ inv.op = "clear" => ~IsPlaceholder(FromText(label[t]))
  <2>1. typed'[t] # NoName
    BY <1>5 DEF Fixed
  <2>2. typed'[t] = typed[t] /\ (inv.op = "clear" => ~IsPlaceholder(FromText(label[t])))
    BY <1>1, <2>1
  <2> QED BY <1>5, <2>2 DEF Fixed
<1>6. ASSUME NEW t \in Tab, Fixed(t)' PROVE Protects(disk'.tabs[t], typed[t].text)
  <2> DEFINE x == typed[t].text
  <2>1. /\ FixedLabel(t) /\ (inv.op = "clear" => ~IsPlaceholder(x))
    BY <1>5, <1>6 DEF FixedInv, FixedLabel
  <2>2. /\ Protects(mem.tabs[t], x)
        /\ IsUserText(x) \/ t \in Range(snap.order)
    BY <1>1, <2>1 DEF FixedLabel, Working
  <2>3. ~IsPlaceholder(x) => Protects(Unowned, x)
    BY DEF Protects, Unowned, Reset
  <2>4. CASE inv.op = "clear"
    <3>1. disk'.tabs[t] = Unowned
      BY <1>1, <1>2, <2>4, PruneType
    <3> QED BY <2>1, <2>3, <2>4, <3>1
  <2>5. CASE inv.op = "full"
    <3>1. disk'.tabs[t] = IF t \in Range(snap.order) THEN mem.tabs[t] ELSE Unowned
      BY <1>1, <1>2, <2>5, PruneType
    <3> QED BY <2>2, <2>3, <3>1 DEF IsUserText
  <2>6. CASE inv.op \notin {"clear", "full"}
    BY <1>1, <2>2, <2>6
  <2> QED BY <2>4, <2>5, <2>6
<1> QED BY <1>3, <1>4, <1>5, <1>6, NotWorkingFixed DEF Working

LEMMA FixedStep ==
  ASSUME TypeInv, TypeInv', AuthorInv, ResetInv, FixedInv, [Next]_vars
  PROVE  FixedInv'
<1>1. CASE UNCHANGED vars
  BY <1>1 DEF vars, session, pass, history, FixedInv, FixedLabel, Fixed, Seen, Working, Open
<1>2. ASSUME NEW i \in Invocation, Begin(i) PROVE FixedInv'
  BY <1>2, BeginFixed
<1>3. typed \in [Tab -> TypedSet]
  BY DEF FixedInv
<1>4. CASE IgnoreClosedPane
  <2>1. /\ pc = "snapshot" /\ EndOfPass /\ UNCHANGED <<session, typed>>
        /\ disk' = Refresh(mem, place, Open)
    BY <1>4 DEF IgnoreClosedPane, history
  <2>2. disk'.tabs = mem.tabs
    BY <2>1, RefreshType, OpenType DEF TypeInv, StateInv
  <2>3. Open' = Open /\ label' = label /\ pc' = "idle"
    BY <2>1, NothingLeft DEF session, Open
  <2>4. \A t \in Tab : Fixed(t)' => Fixed(t) /\ Protects(disk'.tabs[t], typed[t].text)
    BY <2>1, <2>2 DEF Fixed, FixedInv, FixedLabel
  <2> QED BY <1>3, <2>1, <2>3, <2>4, NotWorkingFixed DEF Working
<1>5. CASE TakeClearSnapshot
  <2>1. /\ pc = "snapshot" /\ pc' = "plan" /\ UNCHANGED <<session, disk, mem, typed>>
        /\ snap' = [order |-> order, label |-> label]
    BY <1>5 DEF TakeClearSnapshot, history
  <2>2. Open' = Open /\ label' = label /\ snap'.order = order /\ snap'.label = label
    BY <2>1 DEF session, Open
  <2> QED BY <2>1, <2>2 DEF FixedInv, FixedLabel, Fixed, Seen, Open
<1>6. CASE Fail
  <2>1. EndOfPass /\ UNCHANGED <<session, disk, typed>>
    BY <1>6 DEF Fail
  <2>2. Open' = Open /\ label' = label /\ pc' = "idle"
    BY <2>1, NothingLeft DEF session, Open
  <2>3. \A t \in Tab : Fixed(t)' => Fixed(t) /\ Protects(disk'.tabs[t], typed[t].text)
    BY <2>1 DEF Fixed, FixedInv, FixedLabel
  <2> QED BY <1>3, <2>1, <2>2, <2>3, NotWorkingFixed DEF Working
<1>7. CASE RenameUnanswered
  <2>1. pc = "rename" /\ Apply /\ EndOfPass /\ UNCHANGED <<order, place, gone, env, disk, typed>>
    BY <1>7 DEF RenameUnanswered
  <2>2. Open' = Open /\ pc' = "idle"
    BY <2>1, NothingLeft DEF Open
  <2>3. ASSUME NEW t \in Tab, Fixed(t)'
        PROVE  /\ Fixed(t) /\ FromText(label'[t]) = FromText(label[t])
               /\ Protects(disk'.tabs[t], typed[t].text)
    <3>1. Fixed(t)
      BY <2>1, <2>3 DEF Fixed
    <3>2. FromText(label'[t]) = typed[t].text
      BY <2>1, <3>1, AppliedFixed
    <3> QED BY <2>1, <3>1, <3>2 DEF FixedInv, FixedLabel
  <2> QED BY <1>3, <2>1, <2>2, <2>3, NotWorkingFixed DEF Working
<1> QED BY <1>1, <1>2, <1>4, <1>5, <1>6, <1>7, PassSteps, SessionFixed, SnapshotFixed,
           SkipTabFixed, PlanTabFixed, PlanClearFixed, GuardReadFixed, RenameFixed, FinishFixed
        DEF Next

-----------------------------------------------------------------------------
(* The inductive invariant *)

LEMMA AllInit == Init => AllInv
<1> SUFFICES ASSUME Init PROVE AllInv
  OBVIOUS
<1>1. TypeInv
  BY TypeInit
<1>2. /\ pc = "idle" /\ inv = Idle /\ label = [t \in Tab |-> FreshLabel]
      /\ typed = [t \in Tab |-> NoName] /\ author = [t \in Tab |-> "herdr"]
  BY DEF Init
<1>3. ResolvedInv /\ ResetInv
  BY <1>2 DEF ResolvedInv, ResetInv, Undecided, Idle
<1>4. Open \subseteq Tab
  BY <1>1, OpenType DEF TypeInv
<1>5. AuthorInv
  BY <1>2, <1>4 DEF AuthorInv
<1>6. NotAName
  BY <1>2, LabelsAssumption DEF NotAName
<1>7. FixedInv
  BY <1>2, NoNameType DEF FixedInv, Fixed
<1> QED BY <1>1, <1>3, <1>5, <1>6, <1>7 DEF AllInv

LEMMA AllStep ==
  ASSUME AllInv, [Next]_vars
  PROVE  AllInv'
<1>1. TypeInv /\ ResolvedInv /\ AuthorInv /\ NotAName /\ FixedInv /\ ResetInv
  BY DEF AllInv
<1>2. TypeInv'
  BY <1>1, TypeStep
<1>3. ResolvedInv'
  BY <1>1, ResolvedStep
<1>4. AuthorInv'
  BY <1>1, <1>2, AuthorStep
<1>5. NotAName'
  BY <1>1, NotANameStep
<1>6. FixedInv'
  BY <1>1, <1>2, FixedStep
<1>7. ResetInv'
  BY <1>1, ResetStep
<1> QED BY <1>2, <1>3, <1>4, <1>5, <1>6, <1>7 DEF AllInv

LEMMA AllHolds == Spec => []AllInv
BY AllInit, AllStep, PTL DEF Spec

\* What the invariant says of names and labels.
LEMMA NamesKept == AllInv => UserNameKept
<1> SUFFICES ASSUME AllInv, NEW t \in Open, typed[t] # NoName, typed[t].during = "nothing"
             PROVE  FromText(label[t]) = typed[t].text
  BY DEF UserNameKept, KeepsNames
<1>1. t \in Tab
  BY OpenType DEF AllInv, TypeInv
<1> QED BY <1>1 DEF AllInv, FixedInv, FixedLabel, Fixed

LEMMA LabelsRecognised == AllInv => OwnLabelRecognised
BY DEF AllInv, AuthorInv, PluginLabel, Recognises, OwnLabelRecognised

LEMMA ClaimsAreOwn == AllInv => ClaimsOnlyOwnLabels
<1> SUFFICES ASSUME AllInv, NEW t \in Open, NEW o, o = Resolve(disk.tabs[t], label[t]),
                    o.own = "owned", o.shown = label[t], FromText(label[t]) # <<>>
             PROVE  author[t] \in {"plugin", "unclaimed"}
  BY DEF ClaimsOnlyOwnLabels
<1>1. t \in Tab /\ t \notin gone /\ label[t] \in Label /\ disk.tabs[t] \in OwnershipSet
  BY OpenType DEF AllInv, TypeInv, SessionInv, StateInv, StateSet
<1>2. o \in OwnedSet
  BY <1>1, ResolveType, OwnershipKinds
<1>3. Strip(label[t]) \in Names
  BY <1>2, OwnedFields
<1>4. FromText(label[t]) \in Names \ {<<>>}
  BY <1>1, <1>3, RenderedText
<1>5. author[t] \in {"herdr", "user", "plugin", "unclaimed"}
  BY <1>1 DEF AllInv, AuthorInv
<1> QED BY <1>1, <1>4, <1>5 DEF AllInv, NotAName

(***************************************************************************)
(* A name the user has fixed survives any passes, failures and changes of   *)
(* the session that follow.                                                 *)
(***************************************************************************)
THEOREM FixedNamesSurvive == Spec => []UserNameKept
BY NamesKept, AllHolds, PTL

(***************************************************************************)
(* After a crash at any point the state on disk recognises every label that *)
(* the plugin wrote.                                                        *)
(***************************************************************************)
THEOREM OwnWorkRecognised == Spec => []OwnLabelRecognised
BY LabelsRecognised, AllHolds, PTL

(***************************************************************************)
(* And it claims no label with a text that the plugin did not write.        *)
(***************************************************************************)
THEOREM NothingElseClaimed == Spec => []ClaimsOnlyOwnLabels
BY ClaimsAreOwn, AllHolds, PTL
=============================================================================
