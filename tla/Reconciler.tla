----------------------------- MODULE Reconciler -----------------------------
(***************************************************************************)
(* One reconciliation pass after the other: run_pass and reconcile_tab      *)
(* (src/src/reconciliation.rs, src/src/tab_reconciliation.rs) with the      *)
(* ownership state they load and persist (src/src/state.rs), against a      *)
(* Herdr session whose user renames, opens, moves and closes tabs and panes *)
(* between any two requests of the pass.                                    *)
(*                                                                         *)
(* Passes do not overlap: that is theorem MutualExclusion of RunnerProofs.  *)
(* Which process runs a pass, and after which delay, is the subject of      *)
(* Runner; here any invocation may run at any time.                         *)
(***************************************************************************)
EXTENDS Labels, Selection

CONSTANTS
  Tab, Pane, Workspace,
  WorkspaceOf,   \* the workspace of each tab
  FirstOrder,    \* the tabs open at the beginning, in Herdr's order
  FirstPlace,    \* the tab of each pane at the beginning, or Unborn
  Settings,      \* the settings a pass may find: [auto, number], which stand
                 \* for auto_name_tabs and number_tabs
  Names,         \* the labels computed_name may find for a tab
  UserLabels,    \* the labels the user types
  FreshLabel,    \* the label Herdr gives to a new tab
  MaxRenames,    \* bound on the renames of the user
  MaxMoves,      \* bound on the tabs and panes opened, moved and closed
  CalmPasses,    \* how many undisturbed passes calm counts
  NoTab, Unborn, Gone   \* model values

ASSUME ReconcilerAssumption ==
  /\ WorkspaceOf \in [Tab -> Workspace]
  /\ FirstOrder \in Seq(Tab) /\ IsInjective(FirstOrder)
  /\ FirstPlace \in [Pane -> Range(FirstOrder) \cup {Unborn}]
  /\ Settings \subseteq [auto : BOOLEAN, number : BOOLEAN]
  /\ MaxRenames \in Nat /\ MaxMoves \in Nat /\ CalmPasses \in Nat
  /\ NoTab \notin Tab /\ Unborn \notin Tab /\ Gone \notin Tab

(***************************************************************************)
(* A name that the plugin renders reads back the same: it does not begin    *)
(* with white space or with "[n]".  Names of programs do not, as a rule;    *)
(* nothing in the code enforces it, and labels of panes, which may, are     *)
(* left out.                                                                *)
(***************************************************************************)
ASSUME NamesAssumption ==
  Names \subseteq Label /\ \A n \in Names : FromText(n) = n

(***************************************************************************)
(* The user types no name that a program has, and Herdr gives none: to the  *)
(* plugin such a label is its own.                                          *)
(***************************************************************************)
ASSUME LabelsAssumption ==
  /\ UserLabels \cup {FreshLabel} \subseteq Label
  /\ \A l \in UserLabels \cup {FreshLabel} : FromText(l) \notin Names \ {<<>>}

VARIABLES
  \* the Herdr session
  order,    \* the open tabs, in Herdr's order
  label,    \* the label of each tab
  place,    \* the tab of each pane, Unborn or Gone
  gone,     \* the closed tabs, whose identifiers never come back
  env,      \* what the user may still do: [renames, moves]
  \* the state of the plugin, on disk and loaded by the running pass
  disk, mem,
  \* the running pass
  pc,       \* "idle" | "snapshot" | "plan" | "guard" | "rename"
  conf,     \* the settings its process has loaded
  inv,      \* the invocation given to run_pass
  as,       \* reconciliation_invocation
  snap,     \* [order, label]: what the pass keeps of its snapshot
  todo,     \* the targets still to be reconciled
  plan,     \* the rename that reconcile_tab is about to make
  \* history
  typed,    \* the name the user has fixed for each tab, or NoName
  author,   \* who wrote the label: "herdr" | "user" | "plugin", or "unclaimed":
            \* not the plugin, or the plugin without recording it on disk
  calm      \* [passes, clean, conf]: complete Full passes in a row, with the
            \* settings conf, that nothing disturbed; and whether the running
            \* one is undisturbed

session == <<order, label, place, gone, env>>
pass    == <<pc, conf, inv, as, snap, todo, plan>>
history == <<typed, author, calm>>
vars    == <<session, disk, mem, pass, history>>

-----------------------------------------------------------------------------
(* TabOwnership and the persisted state *)

Unowned  == [own |-> "unowned"]          \* no entry in tabs
Manual   == [own |-> "manual"]
Disabled == [own |-> "disabled"]         \* AutomaticDisabled
Reset    == [own |-> "reset"]            \* ResetPending
Owned(base, shown) == [own |-> "owned", base |-> base, shown |-> shown]
\* previous stands for previous_base, previous_rendered, previous_reset_pending
Pending(observed, desired, base, previous) ==
  [own |-> "pending", observed |-> observed, desired |-> desired, base |-> base,
   previous |-> previous]

EmptyState == [suspended |-> FALSE,
               tabs  |-> [t \in Tab |-> Unowned],
               panes |-> [p \in Pane |-> NoTab]]

\* Mutant of Resolve: every label but the old one proves that the rename was done.
ResolveAsDone(o, current) ==
  IF o.own # "pending" THEN o
  ELSE IF current = o.observed THEN o.previous
  ELSE Owned(o.base, current)

\* resolve_pending_rename
Resolve(o, current) ==
  IF o.own # "pending" THEN o
  ELSE IF current = o.desired THEN Owned(o.base, o.desired)
  ELSE IF current = o.observed THEN o.previous
  ELSE Manual

SetOwnership(state, t, o) == [state EXCEPT !.tabs[t] = o]

\* Mutant of Prune: only the index of the panes is pruned.
PrunePanes(state, tabs) ==
  [state EXCEPT !.panes = [p \in Pane |-> IF @[p] \in tabs THEN @[p] ELSE NoTab]]

\* prune_tabs
Prune(state, tabs) ==
  [state EXCEPT !.tabs  = [t \in Tab |-> IF t \in tabs THEN @[t] ELSE Unowned],
                !.panes = [p \in Pane |-> IF @[p] \in tabs THEN @[p] ELSE NoTab]]

\* Mutant of Refresh: a pane that is known is not looked at again.
RefreshNew(state, where, open) ==
  LET upserted(p) == IF state.panes[p] = NoTab /\ where[p] \in open THEN where[p]
                     ELSE state.panes[p]
  IN  [state EXCEPT !.panes =
         [p \in Pane |-> IF upserted(p) \in open THEN upserted(p) ELSE NoTab]]

\* refresh_pane_tabs
Refresh(state, where, open) ==
  LET upserted(p) == IF where[p] \in open THEN where[p] ELSE state.panes[p]
  IN  [state EXCEPT !.panes =
         [p \in Pane |-> IF upserted(p) \in open THEN upserted(p) ELSE NoTab]]

-----------------------------------------------------------------------------
(* Invocations.  "shell" stands for Init, Precmd and Preexec with a program *)
(* (authoritative_initial_event), "sample" for Preexec without one.         *)

TabInvocation == [op : {"tab", "renamed", "reset", "toggle"}, tab : Tab]

Invocation ==
  [op : {"full", "clear"}]
    \cup [op : {"workspace", "closed_tab"}, ws : Workspace]
    \cup TabInvocation
    \cup [op : {"closed_pane"}, ws : Workspace, pane : Pane]
    \cup [op : {"shell", "sample"}, pane : Pane]

Idle == [op |-> "none"]

Open == Range(order)

\* Mutant of Position: the first tab is number 0.
PositionFromZero(tabs, t) ==
  LET upto == CHOOSE i \in DOMAIN tabs : tabs[i] = t
  IN  Cardinality({i \in 1 .. upto - 1 : WorkspaceOf[tabs[i]] = WorkspaceOf[t]})

\* Mutant of Position: tabs are counted through all workspaces.
PositionInSession(tabs, t) == CHOOSE i \in DOMAIN tabs : tabs[i] = t

\* tab_positions
Position(tabs, t) ==
  LET upto == CHOOSE i \in DOMAIN tabs : tabs[i] = t
  IN  Cardinality({i \in 1 .. upto : WorkspaceOf[tabs[i]] = WorkspaceOf[t]})

\* scoped_tabs and scoped_closed_pane_tabs: does i concern tab t?
InScope(i, t, mapped) ==
  CASE i.op \in {"workspace", "closed_tab"} -> WorkspaceOf[t] = i.ws
    [] i.op \in {"tab", "renamed", "reset", "toggle"} -> t = i.tab
    [] i.op \in {"shell", "sample"} -> t = place[i.pane]
    [] i.op = "closed_pane" -> t = mapped /\ WorkspaceOf[t] = i.ws
    [] OTHER -> TRUE

-----------------------------------------------------------------------------
(* History *)

\* A name of the user: its text, and what was under way when it was fixed.
FixedName(text, during) == [text |-> text, during |-> during]
NoName == FixedName(<<Space>>, "nothing")   \* no name is white space

\* The user takes tab t out of the plugin's hands, or wants it named anew.
GiveUp(t) == [author EXCEPT ![t] = IF @ = "plugin" THEN "unclaimed" ELSE @]

NotCalm == [passes |-> 0, clean |-> FALSE, conf |-> Idle]
Disturb == calm' = NotCalm

\* The tab has been promised to automatic naming.
AdoptionRequested(t) ==
  disk.tabs[t] = Reset \/ (pc # "idle" /\ mem.tabs[t] = Reset)

\* A recorded rename may take label l, or l without its number (clear), for
\* the label it has not replaced yet.
RenameExpects(t, l) ==
  \E o \in {disk.tabs[t], mem.tabs[t]} :
    o.own = "pending" /\ FromText(o.observed) = FromText(l)

\* The guard has been passed: what the user types now is overwritten.
Racing(t) == pc = "rename" /\ plan.tab = t

\* The name that the user fixes by typing l, unless l has no text: what comes
\* before the text reads as a number or as blank once a number is put in front.
FixedBy(t, l) ==
  IF FromText(l) = <<>> THEN NoName
  ELSE FixedName(FromText(l), IF IsPlaceholder(FromText(l)) THEN "number"
                              ELSE IF AdoptionRequested(t) THEN "reset"
                              ELSE IF RenameExpects(t, l)  THEN "rename"
                              ELSE IF Racing(t) THEN "race" ELSE "nothing")

-----------------------------------------------------------------------------
(* The session *)

CanMove == env.moves > 0
Moved   == env' = [env EXCEPT !.moves = @ - 1]

UserRename(t, l) ==
  /\ env.renames > 0
  /\ t \in Open
  /\ l # label[t]
  /\ label' = [label EXCEPT ![t] = l]
  /\ env' = [env EXCEPT !.renames = @ - 1]
  /\ typed' = [typed EXCEPT ![t] = FixedBy(t, l)]
  /\ author' = [author EXCEPT ![t] = "user"]
  /\ Disturb
  /\ UNCHANGED <<order, place, gone, disk, mem, pass>>

OpenTab(t, p) ==
  /\ CanMove /\ Moved
  /\ t \in Tab \ (Open \cup gone)
  /\ place[p] = Unborn
  /\ order' = Append(order, t)
  /\ place' = [place EXCEPT ![p] = t]
  /\ Disturb
  /\ UNCHANGED <<label, gone, disk, mem, pass, typed, author>>

\* Tabs without panes disappear from the session.
Arrange(where) ==
  LET left == {where[p] : p \in Pane}
  IN  /\ place' = where
      /\ order' = SelectAt(order, {i \in DOMAIN order : order[i] \in left})
      /\ gone' = gone \cup (Open \ left)
      /\ typed' = [t \in Tab |-> IF t \in Open \cap left THEN typed[t] ELSE NoName]
      /\ author' = [t \in Tab |-> IF t \in Open \cap left THEN author[t] ELSE "herdr"]
      /\ Disturb
      /\ UNCHANGED <<label, disk, mem, pass>>

CloseTab(t) ==
  /\ CanMove /\ Moved
  /\ t \in Open
  /\ Arrange([p \in Pane |-> IF place[p] = t THEN Gone ELSE place[p]])

\* The pane of a process that exits, or that the user closes.
ClosePane(p) ==
  /\ CanMove /\ Moved
  /\ place[p] \in Open
  /\ Arrange([place EXCEPT ![p] = Gone])

\* A pane is split off in, or moved to, an open tab.
PlacePane(p, t) ==
  /\ CanMove /\ Moved
  /\ t \in Open \ {place[p]}
  /\ place[p] # Gone
  /\ Arrange([place EXCEPT ![p] = t])

MoveTab(i) ==
  /\ CanMove /\ Moved
  /\ i \in 1 .. Len(order) - 1
  /\ order' = [order EXCEPT ![i] = order[i + 1], ![i + 1] = order[i]]
  /\ Disturb
  /\ UNCHANGED <<label, place, gone, disk, mem, pass, typed, author>>

Session ==
  \/ \E t \in Tab : \/ \E l \in UserLabels : UserRename(t, l)
                    \/ \E p \in Pane : OpenTab(t, p) \/ PlacePane(p, t)
                    \/ CloseTab(t)
  \/ \E p \in Pane : ClosePane(p)
  \/ \E i \in 1 .. Len(order) : MoveTab(i)

-----------------------------------------------------------------------------
(* run_pass *)

EndOfPass ==
  /\ pc' = "idle"
  /\ conf' = Idle
  /\ inv' = Idle
  /\ as' = Idle
  /\ snap' = [order |-> <<>>, label |-> [t \in Tab |-> <<>>]]
  /\ todo' = <<>>
  /\ plan' = Idle
  /\ mem' = EmptyState

\* The settings are loaded, then the state (State::load), and an action writes
\* its change to the state before it takes the snapshot.
Begin(i) ==
  /\ pc = "idle"
  /\ i.op \in {"clear", "reset", "toggle"} \/ ~disk.suspended
  /\ mem' = CASE i.op = "clear" -> [disk EXCEPT !.suspended = TRUE]
              [] i.op = "reset" ->
                   SetOwnership([disk EXCEPT !.suspended = FALSE], i.tab, Reset)
              [] i.op = "toggle" -> [disk EXCEPT !.suspended = FALSE]
              [] OTHER -> disk
  /\ disk' = mem'
  /\ pc' = "snapshot"
  /\ conf' \in Settings
  /\ inv' = i
  /\ typed' = IF i.op = "reset" THEN [typed EXCEPT ![i.tab] = NoName] ELSE typed
  /\ calm' = IF i.op # "full" \/ CalmPasses = 0 THEN NotCalm
             ELSE [passes |-> IF conf' = calm.conf THEN calm.passes ELSE 0,
                   clean |-> TRUE, conf |-> conf']
  /\ author' = IF i.op = "reset" THEN GiveUp(i.tab) ELSE author
  /\ UNCHANGED <<session, as, snap, todo, plan>>

\* resolve_closed_pane: the tab the pane was last seen in, if it may be used.
MappedTab == IF inv.op = "closed_pane" THEN mem.panes[inv.pane] ELSE NoTab
WasLastPane == MappedTab # NoTab /\ MappedTab \notin Open
ClosedPaneValid ==
  /\ MappedTab \in Open
  /\ WorkspaceOf[MappedTab] = inv.ws
  /\ place[inv.pane] \notin Open

\* A pane that cannot be resolved: only the refreshed index is kept.
IgnoreClosedPane ==
  /\ pc = "snapshot" /\ inv.op = "closed_pane"
  /\ ~ClosedPaneValid /\ ~WasLastPane
  /\ disk' = Refresh(mem, place, Open)
  /\ EndOfPass
  /\ UNCHANGED <<session, history>>

\* toggle_ownership
Toggled(o, l) ==
  IF o \in {Manual, Disabled} \/ (o = Unowned /\ ~IsPlaceholder(Strip(l)))
  THEN Reset ELSE Disabled

\* What run_pass does to the state between the snapshot and the first target.
Recovered ==
  LET refreshed == Refresh(mem, place, Open)
      removed == [refreshed EXCEPT
        !.panes = [p \in Pane |-> IF inv.op = "closed_pane" /\ p = inv.pane
                                  THEN NoTab ELSE @[p]],
        !.tabs  = [t \in Tab |-> IF WasLastPane /\ t = MappedTab THEN Unowned
                                 ELSE IF t \in Open THEN Resolve(@[t], label[t])
                                 ELSE @[t]]]
  IN  IF inv.op = "toggle" /\ inv.tab \in Open
      THEN SetOwnership(removed, inv.tab, Toggled(removed.tabs[inv.tab], label[inv.tab]))
      ELSE removed

\* A tab that vanished with its last pane is treated as a closed tab.
Vanished == WasLastPane \/ (inv.op = "tab" /\ inv.tab \notin Open)
VanishedFrom == IF inv.op = "tab" THEN WorkspaceOf[inv.tab] ELSE inv.ws

TakeSnapshot ==
  /\ pc = "snapshot" /\ inv.op # "clear"
  /\ inv.op = "closed_pane" => ClosedPaneValid \/ WasLastPane
  /\ mem' = Recovered
  /\ disk' = IF inv.op = "toggle" THEN mem' ELSE disk
  /\ as' = IF Vanished THEN [op |-> "closed_tab", ws |-> VanishedFrom] ELSE inv
  /\ snap' = [order |-> order, label |-> label]
  /\ todo' = SelectAt(order, {k \in DOMAIN order : InScope(as', order[k], MappedTab)})
  /\ pc' = "plan"
  /\ typed' = IF inv.op = "toggle" /\ inv.tab \in Open
              THEN [typed EXCEPT ![inv.tab] =
                      IF mem'.tabs[inv.tab] = Reset \/ FromText(label[inv.tab]) = <<>>
                      THEN NoName ELSE FixedName(FromText(label[inv.tab]), "nothing")]
              ELSE typed
  /\ author' = IF inv.op = "toggle" THEN GiveUp(inv.tab) ELSE author
  /\ UNCHANGED <<session, conf, inv, plan, calm>>

\* clear_session takes its own snapshot, of the tabs that have a prefix.
TakeClearSnapshot ==
  /\ pc = "snapshot" /\ inv.op = "clear"
  /\ as' = inv
  /\ snap' = [order |-> order, label |-> label]
  /\ todo' = SelectAt(order, {k \in DOMAIN order : Strip(label[order[k]]) # label[order[k]]})
  /\ pc' = "plan"
  /\ UNCHANGED <<session, disk, mem, conf, inv, plan, history>>

-----------------------------------------------------------------------------
(* reconcile_tab, for the first target t *)

Seen(t) == snap.label[t]

RenameEventOf(t)  == as = [op |-> "renamed", tab |-> t]
RenamedToBlank(t) == RenameEventOf(t) /\ Seen(t) # <<>> /\ IsBlank(Seen(t))
Forced(t)         == as = [op |-> "reset", tab |-> t]

InitialAdoption(t) ==
  conf.auto /\ mem.tabs[t] = Unowned /\ IsPlaceholder(Strip(Seen(t)))

\* The label is not the one the plugin rendered: the user has renamed the tab.
Disowned(t) ==
  /\ mem.tabs[t].own = "owned"
  /\ \/ Strip(Seen(t)) # mem.tabs[t].base
     \/ Seen(t) # mem.tabs[t].shown

\* The variable ownership of reconcile_tab.
Ownership(t) == IF Disowned(t) THEN Manual ELSE mem.tabs[t]

\* A blank name gives the tab back to automatic naming.
Released(t) ==
  \/ Ownership(t) = Manual /\ IsBlank(Strip(Seen(t)))
  \/ Ownership(t) = Disabled /\ RenamedToBlank(t)

Eligible(t) ==
  \/ Forced(t)
  \/ Released(t)
  \/ Ownership(t) = Reset
  \/ Ownership(t).own = "owned"
  \/ Ownership(t) = Unowned /\ IsPlaceholder(Strip(Seen(t)))

\* The entry of the state that the decision leaves.
Entry(t) ==
  IF Forced(t) THEN Ownership(t)
  ELSE IF Released(t) THEN Unowned
  ELSE IF Ownership(t) = Unowned /\ ~Eligible(t) THEN Manual
  ELSE Ownership(t)

Observes(t) ==
  /\ as = inv                                    \* allow_process_observation
  /\ \/ as.op \in {"tab", "closed_pane", "shell", "sample", "reset", "toggle"}
     \/ RenamedToBlank(t)
     \/ Ownership(t) = Reset

\* Mutant of Computed: auto_name_tabs is not looked at.
ComputedAlways(t) ==
  {<<>>} \cup
    (IF /\ Eligible(t) /\ Observes(t)
        /\ ~(RenameEventOf(t) /\ Ownership(t).own = "owned")
     THEN {<<n>> : n \in Names} ELSE {})

\* computed_name: no name, or any name a process or pane may suggest.
NoResult == <<>>
Computed(t) ==
  {NoResult} \cup
    (IF /\ conf.auto /\ Eligible(t) /\ Observes(t)
        /\ ~(RenameEventOf(t) /\ Ownership(t).own = "owned")
     THEN {<<n>> : n \in Names} ELSE {})

\* Mutant of DesiredBase: the label that is kept keeps its number.
DesiredBaseAsSeen(t, computed) ==
  IF computed # NoResult THEN computed[1]
  ELSE IF Ownership(t).own = "owned" THEN Ownership(t).base
  ELSE Seen(t)

DesiredBase(t, computed) ==
  IF computed # NoResult THEN computed[1]
  ELSE IF Ownership(t).own = "owned" THEN Ownership(t).base
  ELSE Strip(Seen(t))

\* Mutant of Desired: a number is given only where there is none.
DesiredOnce(t, base) ==
  IF conf.number /\ Strip(Seen(t)) = Seen(t)
  THEN Numbered(Position(snap.order, t), base) ELSE base

Desired(t, base) == IF conf.number THEN Numbered(Position(snap.order, t), base) ELSE base

PluginOwned(t, computed) ==
  Eligible(t) /\ (computed # NoResult \/ Ownership(t).own = "owned")

\* Mutant of Previous: the ownership is remembered as it is.
PreviousAsIs(o) == o

\* What PendingRename remembers of the ownership before it.
Previous(o) == IF o = Reset \/ o.own = "owned" THEN o ELSE Unowned

\* Mutant of RecordRename: the pending rename stays in memory.
RenameUnrecorded(owned) == UNCHANGED disk

\* A rename of the plugin's own is persisted before it is sent.
RecordRename(owned) == disk' = IF owned THEN mem' ELSE disk

Target == Head(todo)
Proceed(state) ==
  /\ mem' = state
  /\ todo' = Tail(todo)
  /\ pc' = "plan"
  /\ plan' = Idle
  /\ UNCHANGED <<session, conf, inv, as, snap>>

\* The early returns that leave the label alone.
SkipTab ==
  /\ pc = "plan" /\ inv.op # "clear" /\ todo # <<>>
  /\ \/ InitialAdoption(Target) /\ as.op # "shell" /\ Proceed(mem)
     \/ /\ Disowned(Target) /\ ~RenameEventOf(Target)
        /\ Proceed(SetOwnership(mem, Target, Manual))
  /\ UNCHANGED <<disk, history>>

PlanTab ==
  /\ pc = "plan" /\ inv.op # "clear" /\ todo # <<>>
  /\ InitialAdoption(Target) => as.op = "shell"
  /\ Disowned(Target) => RenameEventOf(Target)
  /\ \E computed \in Computed(Target) :
       LET t       == Target
           base    == DesiredBase(t, computed)
           desired == Desired(t, base)
           owned   == PluginOwned(t, computed)
       IN  \/ /\ InitialAdoption(t) /\ computed = NoResult
              /\ Proceed(mem)
              /\ UNCHANGED <<disk, author>>
           \/ /\ ~(InitialAdoption(t) /\ computed = NoResult)
              /\ desired = Seen(t)
              /\ Proceed(SetOwnership(mem, t, IF owned THEN Owned(base, desired)
                                              ELSE Entry(t)))
              /\ author' = [author EXCEPT ![t] =
                   IF owned /\ label[t] = desired /\ @ # "plugin" THEN "unclaimed" ELSE @]
              /\ UNCHANGED disk
           \/ /\ ~(InitialAdoption(t) /\ computed = NoResult)
              /\ desired # Seen(t)
              /\ plan' = [tab |-> t, desired |-> desired, base |-> base, owned |-> owned]
              /\ mem' = SetOwnership(mem, t,
                          IF owned THEN Pending(Seen(t), desired, base, Previous(Ownership(t)))
                          ELSE Entry(t))
              /\ RecordRename(owned)
              /\ pc' = "guard"
              /\ UNCHANGED <<session, conf, inv, as, snap, todo, author>>
  /\ UNCHANGED <<typed, calm>>

\* The next tab of clear_session.
PlanClear ==
  /\ pc = "plan" /\ inv.op = "clear" /\ todo # <<>>
  /\ plan' = [tab |-> Target, desired |-> Strip(Seen(Target)), base |-> <<>>, owned |-> FALSE]
  /\ pc' = "guard"
  /\ UNCHANGED <<session, disk, mem, conf, inv, as, snap, todo, history>>

\* Mutant of GuardRead: the label is not compared with the snapshot's.
GuardSkipped ==
  /\ pc = "guard"
  /\ \/ plan.tab \notin Open /\ Proceed(mem)
     \/ /\ plan.tab \in Open
        /\ pc' = "rename"
        /\ UNCHANGED <<session, mem, conf, inv, as, snap, todo, plan>>
  /\ UNCHANGED <<disk, history>>

\* get_tab, immediately before the rename.
GuardRead ==
  /\ pc = "guard"
  /\ LET t == plan.tab
         resolved == SetOwnership(mem, t, Resolve(mem.tabs[t], label[t]))
     IN  \/ t \notin Open /\ Proceed(mem) /\ UNCHANGED disk
         \/ /\ t \in Open /\ label[t] # Seen(t)
            /\ Proceed(IF plan.owned THEN resolved ELSE mem)
            /\ disk' = IF plan.owned THEN mem' ELSE disk
         \/ /\ t \in Open /\ label[t] = Seen(t)
            /\ pc' = "rename"
            /\ UNCHANGED <<session, disk, mem, conf, inv, as, snap, todo, plan>>
  /\ UNCHANGED history

\* Herdr renames the tab, if it still exists.
Apply ==
  LET t == plan.tab IN
  IF t \in Open
  THEN /\ label' = [label EXCEPT ![t] = plan.desired]
       /\ author' = [author EXCEPT ![t] =
                       IF plan.owned THEN "plugin"
                       ELSE IF inv.op = "clear" \/ label[t] # Seen(t) THEN "unclaimed"
                       ELSE @]
  ELSE UNCHANGED <<label, author>>

\* rename_tab, answered: tab_not_found counts as success.
Rename ==
  /\ pc = "rename"
  /\ Apply
  /\ mem' = IF plan.owned THEN SetOwnership(mem, plan.tab, Owned(plan.base, plan.desired))
            ELSE mem
  /\ todo' = Tail(todo)
  /\ pc' = "plan"
  /\ plan' = Idle
  /\ UNCHANGED <<order, place, gone, env, disk, conf, inv, as, snap, typed, calm>>

\* The rename takes effect and its answer does not arrive, or the process dies.
RenameUnanswered ==
  /\ pc = "rename"
  /\ Apply
  /\ EndOfPass
  /\ Disturb
  /\ UNCHANGED <<order, place, gone, env, disk, typed>>

\* A request fails, the state cannot be read or written, or the process dies.
Fail ==
  /\ pc # "idle"
  /\ EndOfPass
  /\ Disturb
  /\ UNCHANGED <<session, disk, typed, author>>

\* The end of run_pass and of clear_session.
Finish ==
  /\ pc = "plan" /\ todo = <<>>
  /\ disk' = CASE inv.op = "clear" -> Prune(mem, {})
               [] inv.op = "full"  -> Prune(mem, Range(snap.order))
               [] OTHER -> mem
  /\ EndOfPass
  /\ calm' = IF inv.op = "full" /\ calm.clean
             THEN [calm EXCEPT !.passes = Min({@ + 1, CalmPasses}), !.clean = FALSE]
             ELSE NotCalm
  /\ IF inv.op = "clear"
     THEN /\ author' = [t \in Tab |-> IF author[t] = "plugin" THEN "unclaimed" ELSE author[t]]
          /\ typed' = [t \in Tab |-> IF IsPlaceholder(FromText(label[t])) THEN NoName
                                     ELSE typed[t]]
     ELSE UNCHANGED <<author, typed>>
  /\ UNCHANGED session

-----------------------------------------------------------------------------
Init ==
  /\ order = FirstOrder
  /\ label = [t \in Tab |-> FreshLabel]
  /\ place = FirstPlace
  /\ gone = {}
  /\ env = [renames |-> MaxRenames, moves |-> MaxMoves]
  /\ disk = EmptyState
  /\ mem = EmptyState
  /\ pc = "idle" /\ conf = Idle /\ inv = Idle /\ as = Idle /\ todo = <<>> /\ plan = Idle
  /\ snap = [order |-> <<>>, label |-> [t \in Tab |-> <<>>]]
  /\ typed = [t \in Tab |-> NoName]
  /\ author = [t \in Tab |-> "herdr"]
  /\ calm = NotCalm

RunPass ==
  \/ \E i \in Invocation : Begin(i)
  \/ IgnoreClosedPane \/ TakeSnapshot \/ TakeClearSnapshot
  \/ SkipTab \/ PlanTab \/ PlanClear
  \/ GuardRead \/ Rename \/ RenameUnanswered \/ Fail \/ Finish

Next == Session \/ RunPass
Spec == Init /\ [][Next]_vars

-----------------------------------------------------------------------------
(* Properties *)

TypeOK ==
  /\ Open \subseteq Tab \ gone
  /\ \A p \in Pane : place[p] \in Open \cup {Unborn, Gone}
  /\ pc \in {"idle", "snapshot", "plan", "guard", "rename"}
  /\ inv \in Invocation \cup {Idle}
  /\ Range(todo) \subseteq Tab
  /\ \A p \in Pane : disk.panes[p] \in Tab \cup {NoTab}
  /\ \A t \in Tab :
       /\ disk.tabs[t].own \in {"unowned", "manual", "disabled", "reset", "owned", "pending"}
       /\ disk.tabs[t].own = "pending" =>
            disk.tabs[t].previous.own \in {"unowned", "reset", "owned"}

KeepsNames(during) ==
  \A t \in Open : typed[t] # NoName /\ typed[t].during = during
                    => FromText(label[t]) = typed[t].text

(***************************************************************************)
(* A name the user has fixed, by typing it or by switching automatic naming *)
(* off, survives: only the number in front of it changes, whatever passes,  *)
(* failures and other changes come between, until the user blanks it,       *)
(* resets or toggles the tab.  One gap is documented and not held against   *)
(* it: a rename of the user that lands between the guard and the request    *)
(* (Racing).  Three more are left out of it: a name typed while a reset      *)
(* waits (the next property); a name made of digits, which on a tab without *)
(* an entry counts as Herdr's placeholder; and the old name typed again     *)
(* while a recorded rename of the plugin is unresolved, which recovery      *)
(* cannot tell from a rename that was not applied.                          *)
(***************************************************************************)
UserNameKept == KeepsNames("nothing")

(***************************************************************************)
(* "Rename a tab to a non-blank label to keep that name fixed": also while  *)
(* a reset waits for a process to name the tab after.                       *)
(***************************************************************************)
NameTypedDuringResetKept == KeepsNames("reset")

(***************************************************************************)
(* The plugin recognises its own work after a crash at any point: whenever  *)
(* it wrote the label of a tab last, and the user has not reset or toggled  *)
(* the tab since, the state on disk, resolved against that label, is Owned  *)
(* with this very label and its text, so that the next pass goes on naming  *)
(* the tab.  It is never Manual, which would end automatic naming, and      *)
(* never nothing.                                                           *)
(***************************************************************************)
OwnLabelRecognised ==
  \A t \in Open : author[t] = "plugin" =>
    Resolve(disk.tabs[t], label[t]) = Owned(Strip(label[t]), label[t])

(***************************************************************************)
(* A tab that waits for automatic naming (ResetPending, "the user requested *)
(* re-adoption, but a usable process name is not available yet", or new     *)
(* with Herdr's label) goes on waiting until it is named or the user        *)
(* renames it: a pass that is cut short does not make the tab Manual.       *)
(***************************************************************************)
Waiting(o, l) == o = Reset \/ (o = Unowned /\ IsPlaceholder(Strip(l)))

AdoptionNotLost ==
  [][\A t \in Open :
       /\ pc' = "idle" /\ env' = env
       /\ Waiting(Resolve(disk.tabs[t], label[t]), label[t])
       => Resolve(disk'.tabs[t], label'[t]) # Manual]_vars

(***************************************************************************)
(* The converse: the state on disk claims a label that has any text as the  *)
(* plugin's only if the plugin wrote it (or wrote it over without claiming  *)
(* it: clear, or a lost race), so that no name of the user is taken over    *)
(* after a crash.                                                           *)
(***************************************************************************)
ClaimsOnlyOwnLabels ==
  \A t \in Open :
    LET o == Resolve(disk.tabs[t], label[t])
    IN  o.own = "owned" /\ o.shown = label[t] /\ FromText(label[t]) # <<>>
          => author[t] \in {"plugin", "unclaimed"}

(***************************************************************************)
(* While auto_name_tabs is off a pass changes numbers and nothing else,     *)
(* whatever it finds recorded from the time when the setting was on.        *)
(***************************************************************************)
NoNamingWhenOff ==
  [][\A t \in Open :
       /\ pc = "rename" /\ pc' # pc /\ ~conf.auto
       /\ plan.tab = t /\ label[t] = Seen(t)
       => FromText(label'[t]) = FromText(label[t])]_vars

(***************************************************************************)
(* Numbering converges: CalmPasses undisturbed full reconciliations in a    *)
(* row, with the same settings, leave every label with the number of its    *)
(* position, in the form that renumbering keeps, or without a number if     *)
(* number_tabs is off, except for the unowned placeholders that wait for a  *)
(* shell.                                                                   *)
(***************************************************************************)
\* How many tabs of its workspace there are up to t.
Rank(t) == Cardinality({u \in Open : /\ WorkspaceOf[u] = WorkspaceOf[t]
                                     /\ \E i, j \in DOMAIN order :
                                          i <= j /\ order[i] = u /\ order[j] = t})

Settled(t) ==
  LET l == label[t]
  IN  IF calm.conf.number
      THEN /\ l # <<>> /\ l[1] = Num(Rank(t))
           /\ Len(l) > 1 => Len(l) > 2 /\ l[2] = Space /\ IsText(l[3])
      ELSE l = <<>> \/ ~IsNum(l[1])

Calm == pc = "idle" /\ CalmPasses > 0 /\ calm.passes = CalmPasses /\ ~disk.suspended

NumberingConverges ==
  Calm => \A t \in Open :
            \/ Settled(t)
            \/ calm.conf.auto /\ disk.tabs[t] = Unowned /\ IsPlaceholder(Strip(label[t]))

(***************************************************************************)
(* The same passes bring the persisted state in line with the session: no   *)
(* closed tab keeps an entry, no pane of one is still indexed, every pane is *)
(* indexed under the tab it is in, and every recorded rename is resolved.   *)
(***************************************************************************)
StateFollowsSession ==
  Calm =>
    /\ \A t \in Tab : IF t \in Open THEN disk.tabs[t].own # "pending"
                      ELSE disk.tabs[t] = Unowned
    /\ \A p \in Pane : IF place[p] \in Open THEN disk.panes[p] = place[p]
                       ELSE disk.panes[p] \in Open \cup {NoTab}

=============================================================================
