# A verification project for herdr-labels

herdr-labels is a plugin of the terminal multiplexer Herdr. It gives tabs the
name of the program that runs in them and keeps a position number `[n]` in front
of every label, without ever overwriting a name the user has chosen. It has no
daemon: Herdr starts one short-lived process of the binary for every event, a
shell starts one for every prompt and command, and the user's actions start
more. These processes meet in two places only, a directory with a lock file, a
state file and marker files, and the Herdr session, which the user changes at
the same time and which offers no conditional update. That is where this program
is hard, and what the modules here are about.

All paths below are relative to the repository (`src/` is its root here, so the
Rust code is in `src/src/`).

## 1. Inventory

| Component | State | Operations | Meets others through |
|---|---|---|---|
| Runner, `runner.rs` | per process: the invocation, the remaining passes, the lock guard | admission (`run_inner`), `run_coalesced_passes`, `handoff_after_release`, `wait_until_closed`, `settle_program` | the lock, the markers; calls `run_pass` |
| Lock and markers, `lock.rs` | `reconcile.lock` (flock), the directory `reruns/` | `try_acquire`, `acquire_with_timeout`, `request_rerun`, `take_rerun`, `rerun_requested` | shared by all processes of a session |
| Pass, `reconciliation.rs` | the loaded state, the snapshot, the targets | `run_pass`, `clear_session`, `recover_pending`, `toggle_ownership` | Herdr requests, the state file |
| Tab decision, `tab_reconciliation.rs` | the entry and the seen label of one tab | `reconcile_tab`, `computed_name` | guard read and rename request |
| Ownership state, `state.rs` | `tabs`, `pane_tabs`, `clear_suspended`, persisted as one JSON file | `load`, `persist`, `refresh_pane_tabs`, `prune_tabs`, `resolve_pending_rename` | read and rewritten by every pass |
| Numbering, `numbering.rs` | none | `numbered_label`, `strip_numeric_prefix`, `is_placeholder` | called by the pass and by `clear` |
| Targeting, `targeting.rs` | none | `scoped_tabs`, `resolve_closed_pane`, `naming_pane`, `tab_positions` | reads snapshot and pane index |
| Events, `config.rs` | none | `invocation_from`, `event_invocation` | environment and event payload to `Invocation` |
| Herdr client, `herdr.rs` | none (a connection per request) | `snapshot`, `get_tab`, `rename_tab`, `process_info` | the session |
| Naming and process selection, `naming.rs`, `process_selection.rs` | none | policy from processes to a base name | called by `computed_name` |
| Settings, `settings.rs` | none (file read by every process) | `load` | flags read in the pass |
| Shell hooks, `shell/hook.zsh`, `shell/hook.bash` | flags in the shell | init, preexec, precmd | start processes |
| Telemetry, `telemetry.rs` | the record of one run | record, emit once | called everywhere, changes nothing else |

What is hard, and the property that says it is right:

* **Who reconciles.** A shell event that finds the lock taken is dropped, a
  structural event queues a marker and leaves; each counts on somebody else.
  *Nobody may be counted on who does not look again* (`NoStrandedMarker`), *not
  everybody may give way* (`SomebodyReconciles`), and *the one who stays may not
  have to stay for ever* (`EveryInvocationEnds`).
* **What is reconciled.** The process that gets the lock may serve another's
  request. *Nothing published disappears* (`RequestConserved`), and *what is
  deferred is only what a marker may say* (`DeferredPass`).
* **Crashes.** A process may die with the lock, between the deletion of a marker
  and its pass, or between a rename and the state that records it (`LockInv`,
  `OwnLabelRecognised`, `ClaimsOnlyOwnLabels`, `AdoptionNotLost`).
* **Decisions on stale data.** Between the snapshot and the rename the user may
  have renamed, moved or closed the tab; the pane index is as old as the last
  pass; the settings may have changed since a rename was recorded
  (`UserNameKept`, `NumberingConverges`, `StateFollowsSession`,
  `NoNamingWhenOff`).
* **Labels that do not read back.** The plugin recognises its label by stripping
  the number and comparing; white space, digits and the user's own numbers make
  that delicate (`TextKept`, `NumberingSettles`, `OwnLabelRecognised`).
* **Observations out of order.** Every prompt and every line starts a process;
  an older one may settle, wait and commit after a newer one, or be dropped for
  it (`NameIsInFront`, `PromptNamed`, `ClaimFirst`, `ShellStarts`).
* **The shell as host.** Prompt frameworks replace the hook's entry, the DEBUG
  trap runs before every command, and the hook is sourced again
  (`OneReportPerLine`, `EveryLineReported`, `OncePerForm`,
  `ForeignTrapPreserved`).
* **Events.** Herdr reports the plugin's own renames like the user's, in any
  order, and each report reaches a process that decides on what it reads then
  (`EventsRenumber`, `UserRenameRegistered`, `ReactionBounded`).
* **Choices among processes and panes.** Five searches over a process group and
  three sources for the pane (`BestProcessRepresents`, `IgnoredShowsShell`,
  `BlankOnlyWhenHidden`, `NamedByOwnPane`).

`PROJECT.json` lists these hazards one by one, at their lines.

## 2. Modules

    SerialPasses <-- Runner <-- MCRunner     the scheduler, abstract and detailed
                       ^------- RunnerProofs
    Labels, Naming <-- Policies <-- MCPolicies      what is computed without state
                          ^------ PoliciesProofs
    Labels, Selection <-- Reconciler <-- MCReconciler   passes, tabs, ownership, the session
                             ^----- ReconcilerProofs <-- ConvergenceProofs
    ShellHook, Naming, Selection <-- Observation <-- MCObservation   the shell, and what its reports become
                                        ^----- ObservationProofs
    Reconciler, Runner (by INSTANCE) <-- Plugin <-- MCPlugin   events to renames
                     ConvergenceProofs, Plugin <-- PluginProofs

    LabelProofs, SelectionProofs    lemmas about Labels and Selection, cited by the others

### Runner

One process per element of `Proc`; `pc[p]` is the place of `p` in `run_inner`,
and every action is the code between two operations that another process can
observe.

| `pc` | code |
|---|---|
| `settling` | `wait_until_closed` of a `ClosedTab` |
| `probe`, `probing` | the preexec's `try_acquire`, and its drop before `settle_program` |
| `wait` | `acquire_with_timeout` |
| `try`, `owned`, `publish`, `retry`, `claim` | the structural path: `try_acquire`, `is_owned_rename_event`, `request_rerun`, `try_acquire` again, `take_rerun` |
| `pass`, `take` | the loop of `run_coalesced_passes` |
| `release` | `drop(lock)` |
| `recheck`, `reacquire`, `retake` | `handoff_after_release` |

`lock` is the flock, `markers` the set of processes whose marker file exists.
The names of marker files are `{pid}-{id}.json` and `take_rerun` takes the first
of the sorted names, so a process *is* the rank of its name: the order has
nothing to do with time. The file is published with a hard link, hence complete
or absent. `Abort` covers an error that propagates to `main` and a kill: the
kernel drops the flock, markers stay, and nothing is handed over. `kind` is the
invocation as far as the runner tells invocations apart; `Requested` is what the
marker says (everything but a closed pane and a rename becomes `Full`).
`asked`, `served` and `lost` are history and guard nothing.

### SerialPasses

What the lock and the markers are for, without saying how: `waiting` requests,
a `current` one or none, those `served` and those `lost`. A pass begins only when
none is running, about a request of its own or the first of the waiting ones, and
ends completed or cut short. `Runner!ImplementsSerialPasses` is its specification
with `waiting <- markers` and `current` read off the holder of the lock
(`Current`); all other steps of `Runner` are stutters of it.

### Labels, Naming, Policies

A label is a sequence of tokens as fine as the code looks at it: `[n]`, one
white-space character, a run of digits, a word. `Labels` defines stripping,
numbering and the placeholder test by what they do. `Naming` is `naming.rs`,
`process_selection.rs`, the choice of the pane in `targeting.rs` and
`computed_name`, as operators on an *observation*: what kind of event looks at a
tab, which panes the tab has, which one is focused, and the foreground process
group of the pane, together with the settings a name depends on (`shell`,
`hide`, `limit`). A program is a name after normalisation; the spelling
`Slash` stands for everything that normalises to nothing. `LabelOf` looks up aliases
first, then shells, then ignored programs, as `naming.rs` does, and `Finish` cuts the
text to `max_label_chars`: to nothing if that is 0, and otherwise as the function
`Shortened` says.
`Policies` is the loop of `strip_numeric_prefix` as it is written, one iteration
per step, and holds the properties of both.

`Naming` writes the searches of `select_representative` and the leader as the least
place with a property (`First`), and `Selection` writes filtering a list (`filter`
and `retain` in the code) as picking its elements at a set of places. Both say what
`SelectSeq` would say; unlike it they are not recursive, so theorems reach them.

### Reconciler

One pass after the other (that they do not overlap is `MutualExclusion` of
`RunnerProofs`), one action per request to Herdr, so that the user (`Session`)
acts between any two of them: `Begin` (load, and what an action writes before it
looks), `TakeSnapshot` / `TakeClearSnapshot` / `IgnoreClosedPane` (the snapshot
and everything `run_pass` does to the state up to the first target), `PlanTab` /
`SkipTab` / `PlanClear` (the decision for the next target, and the
`PendingRename` written before the rename), `GuardRead` (`get_tab`), `Rename` /
`RenameUnanswered` (`rename_tab`), `Finish` (prune and persist) and `Fail`.

`disk` is the state file, `mem` the state the running pass has loaded: what is
in `mem` only is lost with the pass. `conf` is chosen at every `Begin`, because
every process reads the settings afresh. `computed_name` is a choice: no name,
or any of `Names` (how it is made is the subject of `Naming`). The helper definitions
between `Seen` and `Previous` follow the local variables of `reconcile_tab` one to one.

History variables: `typed` (the name the user has fixed, and what was under way
when he did), `author` (who wrote the label), `calm` (complete undisturbed Full
passes in a row, under the same settings). No guard reads them.

Two simplifications are deliberate. Herdr's behaviour (`OpenTab`, `CloseTab`,
`ClosePane`, `PlacePane`, `MoveTab`) is external and modelled from what the code
expects of it: identifiers of tabs are never reused, and a tab without panes
disappears. A rename that the client has given up on takes effect at once or
never, not later.

### ShellHook

`shell/hook.bash` and `shell/hook.zsh`: `SourceHook` and `ClaimReturns` (startup,
which waits for the claim), `RunEntry`, `RunFramework` and `ShowPrompt` (what runs
before a prompt), `EnterLine`, `ExecuteCommand` (the DEBUG trap before it), `Launch`
and `EndCommand`. `setup` is the shell as the hook finds it: zsh, or bash with or
without a hook array, with or without a DEBUG trap, and whether functions inherit
traps. A line is a sequence of simple commands (no subshells or loops), of which the
hook can tell only whether the first word is the name of a file.

`entries` keeps apart the forms that `register_precmd` tells apart: whether
`precmd_functions` is declared and what is in it, and `PROMPT_COMMAND`, a string or
an array. An entry is `Ours`, `Other`, or `Buried`: ours, and executed, but where the
code's search does not see it, behind a space in the string or within a longer
element. `Registered` looks into the form in use and nowhere else, as
`hook.bash:115-130` does. What a command does to the prompt is an attribute of the
command (`Changed`): a framework replaces, extends or prepends to it, turns the
string into an array, declares `precmd_functions`, or the hook or the whole startup
file is sourced again. The functions are called by a framework, whose own commands
may fire the DEBUG trap (`RunFramework`). `started` is what the step has reported;
nothing in the shell depends on it. `ShellSpec` is the shell by itself.

### Observation

`ShellHook`, the processes its reports start (`procs`, in the order of their
start), focus events, and a structural pass that may hold the lock at any time.
A process probes the lock or waits for it, settles, observes the foreground
(`Observe`) and commits (`Commit`), and may fail or die anywhere (`Abort`, which
also stands for a `process_info` that fails: its pass ends without a name).
`ShellSteps` is the step of the shell together with the start of what it reports,
and waits where the shell waits. The scheduling of structural events is `Runner`'s
subject and not repeated.

What a process computes is `NameOf` of `Naming`, applied to what Herdr reports of
whatever is in the foreground then (`Observed`). The constants `Group` and `Agent`
give the process group and the detected agent of each job, so a group may have any
number of processes, and observations of one group need not agree: a report names
the program it has verified, also one that is only an argument of the leader, while
a sample or a focus names the representative. `NamesOf` are all the names a group
can give the tab. A job's group does not change while it runs. The pane's shell is
assumed alone in its group, known as a shell and without an alias (`ShellAlone`),
and to be the `$SHELL` that the hook passes on. Of the ownership decision only who
may name a tab for the first time is kept (`Adopts`); the whole is `Reconciler`. A
report is not started while more than `MaxRunning` older processes run, which bounds
how far the shell may get ahead of them.

### Plugin

The composition. It extends `Reconciler`, and `R == INSTANCE Runner` with
`pc <- proc`: the processes are `Runner`'s, and while one is at `"pass"` its pass is
`Reconciler`'s. `ChangeSession` is a change by the user together with the events
Herdr reports of it,
`Deliver` starts a process for an event (`event_invocation` of `config.rs`),
`Coordinate` are `Runner`'s steps (the one that enters a pass begins a
`Reconciler` pass with the process's invocation or the marker's), `LoadState` and
`CompareLabel` the two halves of `is_owned_rename_event`, `PassStep` and `EndPass`
the pass, whose renames (`RenameTab`) are reported as events again.

Abstractions, all named in the module: `events` is a set, so there is at most one
undelivered report of the same kind and subject; the start of a pass (loading
settings and state) happens together with the entry into the lock;
`wait_until_closed` succeeds, as Herdr reports a closing after the fact; a
`pane.moved` that empties a tab closes it without another report. Shell lines, actions and
failures are not part of the composition: they are in `Observation`, `Reconciler`
and `Runner`.

## 3. Runs

All state spaces are explored completely. Deadlock is checked everywhere:
`Runner` ends in the explicit `Finished`, `Policies` in `Return`, `Plugin` may
stop only when it is `Quiet`, a shell whose prompt is edited may idle (`ShellIdle`,
`AtPrompt`), and a `Reconciler` can always start a pass.

| Run | Question | Instance |
|---|---|---|
| `runner_faults` | are passes serialised as `SerialPasses` says, and requests neither lost, stranded nor misdirected, with failures anywhere? | 3 processes of five kinds, 2 passes, failures; 1.35 M states |
| `runner_forever` | does every invocation end although others never stop coming? | 2 slots, recycled for ever, fair steps |
| `runner_stranded` | (violated) is a marker left only when the budget is spent? | 3 processes |
| `policies` | does the loop compute `Strip`, does numbering settle and keep text, and is the right process of the right pane chosen? | labels up to 5 tokens, groups of up to 3 processes, 3 panes, limits of 0, 3 and 24 characters; 34 000 states |
| `rec_names` | do the user's names and the plugin's ownership survive? | 1 tab, any settings per pass, 2 renames of 5 forms, failures; 1.5 M states |
| `rec_topology` | do numbers and pane index follow the session? | up to 2 tabs and 2 panes, 2 changes; 2.3 M states |
| `rec_reset_name` | (violated) is a name kept that is typed while a reset waits? | 1 tab |
| `rec_lost_adoption` | (violated) does a waiting tab stay in line through interrupted passes? | 1 tab |
| `shell_session` | is each line reported once, none missed and the hook registered once per form? does no report overtake the claim, no stale name stay, and does the prompt come and have its name? | 3 shells, 2 lines of 9 kinds, 1 focus event; 1.4 M states |
| `shell_foreign_trap` | (violated) is the user's DEBUG trap preserved? | 2 shells with such a trap |
| `plugin_events` | do the events alone keep numbers and ownership right, and does the plugin not answer itself? | 2 processes, up to 3 tabs and 4 panes in 2 workspaces, 1 rename and 1 change; 0.75 M states |
| `plugin_vanished` | (violated) also when a tab goes with its last pane? | the same |

Why the bounds are enough for the cases to happen:

* Three processes are the least for a marker to be published by one, consumed by
  a second and raced by a third. A budget of 2 is spent by the holder's own pass
  and one deferred pass; with `MaxPasses = 8` the same code is reached, later.
  `FiveKinds` leaves out `full` and `closed_pane`: a `closed_tab` that has settled
  goes on as a `full`, and a rename that is not the plugin's own as a
  `closed_pane`. `runner_forever` has all seven kinds, and the theorems hold
  for any number of processes, any kinds and any budget.
* `rec_names` lets the user rename twice: once before a decision, once between
  snapshot and guard. The typed labels are a word, a blank, a word with the
  user's own number, a word after a blank, and digits.
* `CalmPasses` is how many undisturbed Full passes convergence may take. Three
  are needed, and enough, with names that begin with white space: the first pass
  sees that the plugin's label has been replaced and makes the tab Manual, the
  second numbers it, and the third removes the white space that numbering
  exposed. Two are enough otherwise, also after an interrupted `clear`.
* Two changes of the topology include every pair: a pane that closes while the
  tab it was moved out of closes, a tab opened and moved, and so on.
* Two lines are enough for the report of one to be overtaken by the prompt, and
  for the gate of the DEBUG trap to be closed by the first and needed by the
  second, and for the prompt to change and the hook to be sourced again, or a program
  to run. The nine kinds of line are an empty one, a program by name, an alias for two
  commands of which one is ignored, and every change of the prompt (`reload` is two of
  them in one line; longer histories, hook arrays without a framework and entries that
  stand in the prompt beforehand are left to the theorems). The program is npx: a
  script of node that starts codex, so that its report says npx, and a focus says
  codex, of the same group.
* Three processes in a group are a leader, the process it has launched and a
  helper, in any order of Herdr's list. Three panes are two of the tab and one
  elsewhere. A limit of 3 cuts the alias of one ignored program and nothing else; 0
  cuts everything.
* In `plugin_events` one change and one rename already give four or more events,
  with two processes that hold, queue and take over, and three passes each. The
  bound 2 of `ReactionBounded` is tight: with 1 the run fails.

A bound on the user's actions (`MaxRenames`, `MaxMoves`, `MaxLines`, `MaxFocus`)
is spent by guards of the user's actions only; the plugin may always run another
pass.

Every property has a mutant in `PROJECT.json`: an operator written next to the
definition it replaces (`\* Mutant of ...`), with a plausible mistake, under
which the run must find the property violated.

**Fairness.**

* `EveryInvocationEnds`: `ForeverSpec` assumes weak fairness of `Step(p)` for
  every process, i.e. that the operating system goes on scheduling a process that
  can run; all waits of the code have deadlines (`acquire_with_timeout`,
  `wait_until_closed`, socket timeouts), so no step waits for another process.
  Nothing is assumed of new invocations (`Start`, `Recycle`) nor of failures.
* `ShellStarts`: `FairSpec` of `Observation` assumes that a starting shell runs
  (its steps at `rc`, `claim` and `draw`) and that its claim is scheduled. The
  user need not type, and whoever holds the lock may take it again and again: the
  claim ends because its wait for the lock has a deadline.
* `LoopComputesStrip`: the loop goes on.
* `Plugin` needs none: that it comes to rest after every change follows from the
  deadlock check (only a `Quiet` session has no step) and from
  `ReactionBounded`.

## 4. What is proved

`RunnerProofs` proves, for every finite or infinite set of processes, every
budget, and with or without failures (`RunnerAssumption`: processes are positive
naturals, the budget is a positive natural):

* `TypeCorrect`: `Spec => []TypeOK`, so the budget never falls below zero.
* `MutualExclusion`: `Spec => []LockInv`. `LockInv` is inductive together with
  `TypeOK`: every action that enters a place of `Holding` finds `lock = Free` or
  comes from such a place, and every action that leaves one frees the lock.
* `NoMarkerIsStranded`: `Spec => []NoStrandedMarker`. The property speaks only
  of the end; the strengthening `StrandInv` says of every moment that, while a
  marker exists, somebody is *bound to look*: a process that will try the lock
  after its publication, one that holds it and will look for markers, or one
  that has released it and will recheck; or else somebody is exempt (budget
  spent, handoff tail, failed). A refused `try_acquire` hands the duty to the
  holder, which `LockInv` puts at a place from which it still looks.
* `RequestsConserved`: `Spec => []RequestConserved`.
* `DeferredPassesInScope`: `Spec => []DeferredPass`, from `ScopeInv`, which says
  that only kinds which are not exact ever have a marker.
* `SomebodyDoesReconcile`: `Spec => []SomebodyReconciles`, from `WorkInv`:
  as long as no pass has completed, whoever has given way (ended, or is about to
  queue) has somebody who works: who holds the lock for a pass, will wait for it,
  or has failed.

* `RunnerImplementsSerialPasses`: `Spec => Passes!Spec`. The initial states map to
  initial states, and every action maps to one action of `SerialPasses` or to a
  stutter (lemmas `BeginPass` and `Stutter`). It rests on `LockInv`: only the
  holder of the lock is at `pass`, so `current` changes only when it enters or
  leaves that place.

`ObservationProofs` proves about the shell by itself, for any set of shells, lines (of
any number of commands), programs and any bounds:

* `LinesReportedOnce`: `ShellSpec => []OneReportPerLine`.
* `NoLineMissed`: `ShellSpec => []EveryLineReported`.
* `HookOncePerForm`: `ShellSpec => []OncePerForm`.
* `ShellIsIndependent`: `Spec => ShellSpec`, so the three hold of `Observation` too.

The first two are not inductive. `LineInv` adds that our trap is set exactly in the mode
`debug` (so a hook array and our trap never report the same line), that during a
line the gate is open only while nothing has been reported, and that from the
moment the last entry of the prompt has run, if it is ours, the gate is open until
the first command. The definition that chooses the mode is a chain of `IF`s: as a
`CASE` its guards would overlap, which TLC resolves by order and the logic leaves
open.

It proves as much of `Observation`: of the processes that the reports start, any number
of them in any order, and of process groups of any size. Assumed are
`NamingAssumption` (the model values that stand for no name are nobody's setting) and
`ObservationAssumption`, which includes `ShellAlone`.

* `ObservationTypes`: `Spec => []ObservationTypeOK`, with at most one holder of the
  lock.
* `NoReportOvertakesClaim`: `Spec => []ClaimFirst`. `ClaimInv` says where the shell
  is while its claim may still run.
* `NameStaysInFront`: `Spec => []NameIsInFront`. `FreshInv`: from the moment the
  newest process has read the foreground, everybody who is about to commit a name
  holds a name of what is there still. An older process that reads later reads the
  same group, and one that read earlier has given up the lock, so that `OneHolder`
  is needed: with two holders an older name could still come. `ComputedName` ties
  `NameOf` to the group: whichever search finds the process, and whether a report is
  verified by a process or an argument, the name is one of `NamesOf`.
* `PromptsAreNamed`: `Spec => []PromptNamed`. `PromptInv`: from the moment our entry
  has run until the line is entered the shell has the terminal, so the process of
  that prompt has read the shell, which by `ShellAlone` has one name.

`PoliciesProofs` proves about `Labels` and `Naming`, for labels of any length,
process groups of any size and any settings (`TextIsKept`, `NumberingDoesSettle`,
`BestProcessDoesRepresent`, `IgnoredProgramsShowShell`, `BlankMeansHidden`,
`NamedByItsOwnPane`). The first two are two facts: stripping leaves text, that is,
a label that strips to itself (`StripKeepsText`, `StripOfText` of `LabelProofs`),
and no iteration of the loop moves the place of the first text. `BlankMeansHidden`
lists all the causes of a blank name: a limit of 0, a blank alias, a hidden shell.
Assumed, besides the shape of the observations (`PoliciesAssumption`): the shell of a
pane has a name, which the code does not enforce.

`ReconcilerProofs` proves about `Reconciler`, for any tabs, panes, workspaces,
settings and labels, any number of renames and moves, with failures anywhere:

* `TypesAreKept`: `Spec => []TypeOK`.
* `FixedNamesSurvive`: `Spec => []UserNameKept`.
* `OwnWorkRecognised`: `Spec => []OwnLabelRecognised`.
* `NothingElseClaimed`: `Spec => []ClaimsOnlyOwnLabels`.
* `NoNamingWhileOff`: `Spec => NoNamingWhenOff`, an action property.

All five come from one inductive invariant, `AllInv`:

* `TypeInv`. Its core is `PlanInv`: at the guard and at the rename of an owned
  label, disk and memory agree on a pending rename which is the planned one. This is
  what makes a crash there harmless.
* `ResolvedInv`: no target that is still to be decided about has an unresolved
  rename.
* `AuthorInv`: of a label that the plugin wrote, the state on disk and the loaded
  state both recognise it, and the running pass has seen it. `OwnLabelRecognised`
  itself says nothing of the loaded state, which the next step may write to disk.
* `NotAName`: what the user or Herdr wrote does not read as a name of the plugin's,
  hence no recorded rename can be taken to have produced it.
* `FixedInv`: the ownership of a tab whose name is fixed *protects* the name
  (`Protects`): it is not a reset, not nothing under a placeholder, no owned label
  of the same text and no pending rename from or to it. Either the pass has seen
  the name, or it is one that no decision can produce.
* `ResetInv`: a forced reset finds the entry it has written.

Two assumptions about constants stand behind it, both stated where `Reconciler`
declares them. `NamesAssumption`: a name the plugin renders reads back the same (it
begins neither with white space nor with a number), which programs' names do as a
rule and the code does not enforce (finding 6). `LabelsAssumption`: the user types no
label whose text is a program's name. If he does, the plugin cannot tell it from its
own, by design, and neither `ClaimsOnlyOwnLabels` nor `UserNameKept` is meant to
hold of it.

`ConvergenceProofs` goes on with what undisturbed passes achieve:

* `StateDoesFollow`: `Spec => []StateFollowsSession`.
* `NumberingDoesConverge`: `CalmPasses > 2` implies `Spec => []NumberingConverges`.

`CalmInv` follows the passes tab by tab: `Reached` says how far `n` clean passes have
brought a tab. The first may find the plugin's label replaced, make the tab Manual
and leave it alone; the second puts the right number in front but may keep what
looked like a name behind the old one; the third does not, as by then the label
strips to text. This is why the theorem needs three passes. (`rec_topology` converges
in two because its labels have no white space in front.) `PositionIsRank` ties the
number that `tab_positions` counts to the `Rank` that the property counts
independently.

Nothing is proved by an induction scheme, which the provers cannot instantiate;
where lists are counted (`NthExists` of `SelectionProofs`, the loop of `Policies`)
the argument is that there is no least counterexample (`LeastNat`).

The passes of `Reconciler` are atomic with respect to each other because of
`MutualExclusion`; `PluginProofs` says so of the composition itself.

`PluginProofs` proves about `Plugin`, for any number of processes, tabs, panes and
workspaces, any settings, names and labels, and reports in any order:

* `PluginTypes`: `PluginSpec => []PluginTypeOK`. A pass runs exactly while the holder
  of the lock is at `"pass"`.
* `PluginPassesAreReconcilers`: `PluginSpec => [][Next]_vars`, and
  `PluginProcessesAreRunners`: `PluginSpec => [][R!ForeverNext]_processes`. The
  composition adds no step to either part.
* `PluginKeepsNames`: `UserNameKept`, `OwnLabelRecognised` and
  `ClaimsOnlyOwnLabels` hold of the composition too. `AllInv` is inductive under the
  steps of `Reconciler`, and `PluginInitAll` shows it of `Plugin`'s initial states.
* `UserRenamesRegistered`: `PluginSpec => []UserRenameRegistered`.
* `EventsDoRenumber`: `PluginSpec => []EventsRenumber`, under three hypotheses.
  `LastPaneReports = {}`, as in the run: finding 5 is what happens otherwise.
  `number_tabs` is on, which the property is about. And the user types no label
  that the plugin could have rendered. By `LabelsAssumption` only a number alone
  could be one, and only if a name may be empty (`TypedIsNotRendered`);
  `is_owned_rename_event` may then dismiss the report of the user's rename, on
  which the argument rests.

All of them rest on `CoreInv`, which is `AllInv` and `ProcessInv`: what each process
works on and where it may be (`WorkInv`, `PlaceInv`), that the lock is held exactly
from taking to dropping it and a pass runs for its holder (`LockHeld`), and what
`is_owned_rename_event` has loaded (`LoadedInv`). The last two theorems follow a report
from Herdr to the pass that deals with it. `Outstanding` is what is still owed:
reports not delivered, the work of processes that have neither begun a pass nor left
a marker, and the markers. The lemma `OutstandingStep` says that an outstanding
invocation for a renamed tab, or for all tabs of a workspace, stays outstanding, or a
full one takes its place, until a pass begins with it or `is_owned_rename_event`
dismisses it. `QuietOwesNothing`: at rest nothing is outstanding. Two invariants use
it:

* `RegisterInv`: a tab whose name the user has fixed is the user's in the entry that
  counts, or its report is outstanding, or the running pass is about to look at it
  and sees the label that it still has. The text of such a label is neither a name
  nor digits, so no dismissal and no decision takes it for the plugin's.
  `PlainInv` says that without actions no entry is reset or disabled.
* `NumbersInv`: every open tab has the number of its position, or an invocation that
  concerns it is outstanding (`Shift`), or the running pass is going to look at it
  (`Covered`), or its label is the user's and the report outstanding (`Foreign`), or
  it waits for a shell (`Awaiting`). `PositionsInv`: a position that the pass goes by
  is right, or a `Shift` is outstanding, because every change of the session that
  may alter a rank is reported for that workspace (`ChangeShifts`, from
  `OpenTabRanks`, `MoveTabRanks` and `ArrangeRanks`). `LabelsInv`: a label that a
  pass decides about is still there or `Foreign`, and a record that is not of the
  label is outdated only while the report of the user's rename is outstanding or
  its own pass has not come to the tab. `RecordsInv`: what is on record as the
  plugin's has a number. `Housed`: no open tab is without a pane.

The theorems about `Plugin` are about a session without failures and without
requests by hand, as the module is; `ReconcilerProofs` and `RunnerProofs` allow both.

Only model-checked: `ReactionBounded`, which is about the instance of its run, with
one name. With two names and three new panes in one tab it fails, by design: each of
the three shells may name the tab anew after the last change. With several settings
each pass may find others, and number or not. And the liveness properties
`EveryInvocationEnds`, `ShellStarts` and `LoopComputesStrip`: liveness under fairness
is out of the prover's reach. The five claims that runs refute are of course not
proved.

## 5. Findings

Where the code disagrees with its documentation. With a run:

1. *A marker stranded with budget left* (`runner_stranded`). The tail of the
   handoff drops the lock and does not look again (`runner.rs:233`).
2. *A name typed during a pending reset is overwritten* (`rec_reset_name`).
3. *A reset lost by two interruptions* (`rec_lost_adoption`). An interrupted
   rename is recovered to `ResetPending` in memory; the number-only rename that
   follows is not recorded; when that pass dies too, recovery makes the tab
   Manual though the user renamed nothing.
4. *A DEBUG trap of the user is replaced* (`shell_foreign_trap`). `trap -p DEBUG`
   inside a function answers nothing unless functions inherit the trap, so the hook
   takes over where README lines 127-128 promise to preserve it (seen in bash 5.2
   as well).
5. *A vanished tab leaves stale numbers* (`plugin_vanished`). A pass between the
   closing of a tab's last pane and the pass of its `pane.closed` event drops the
   pane from `pane_tabs` (`state.rs:155`), and the event then resolves to nothing.

Without a run, because they follow from a single step or a single look:

6. A pane label that begins with white space or a number is rendered and read back
   as another base; the tab is then taken for renamed by the user
   (`tab_reconciliation.rs:281`).
7. The `pane.exited` of a tab that goes with its last pane is a `Tab` invocation,
   dropped after 250 ms of a busy lock (`runner.rs:155`, `165-173`); nobody else
   renumbers then.
8. After an empty line in bash's debug mode, the first function of the next prompt
   is reported as a `preexec --sample`, which `hook.bash:66-68` means to prevent.
9. README line 342 says that structural events coalesce behind a single marker;
   `request_rerun` writes one file per event, and each costs a pass.
10. A name of digits only (`2024`) on a tab the plugin has no entry for is taken
    for Herdr's placeholder and may be overwritten.
11. While a rename of the plugin is unresolved after a crash, the user who types
    the old label again is not noticed.
12. A label that is a number in brackets behind white space (` [7]`) is a name to the
    plugin until a number is put in front of it; stripped, it is blank, and the tab
    is taken to be given back to automatic naming.
13. README line 164 says every tab keeps its number; a new tab is not numbered
    until its first shell event.
14. `hook.bash:104-105` says that sourcing the file cannot register duplicates.
    `register_precmd` looks for its entry in the form the prompt has then: once a
    framework has declared `precmd_functions`, put `other; ` with a space before the
    entry in the string, or turned the string into an element of an array, sourcing
    adds a second one, and every prompt is reported twice. `OncePerForm` is what the
    code does guarantee.
15. An older focus or sample that commits after a newer report puts the representative
    of the group in place of the program the report has verified (`codex` for `npx`),
    and nothing reports again until the prompt. `NameIsInFront` therefore promises a
    name of the group and not the newest one's.

`UserNameKept` leaves out exactly 2, 10, 11, 12 (a label without any text fixes no
name) and the documented race between guard and rename (README line 360); its
comment says so, and `FixedBy` classifies the names at the moment they are typed.
`UserRenameRegistered` leaves out 10.

## 6. Plan

Done: the scheduler, its abstract specification and the refinement, the policies,
the passes, the shell, the observations, the composition of scheduler and passes,
and the proofs of section 4. Left, in the order of importance:

1. **Failures in the composition**: `RenameUnanswered` and `Fail` as steps of
   `Plugin`, on a smaller session. `EventsRenumber` would have to leave out the tabs
   of a pass that was cut short until the next event for their workspace.
2. **Requests by hand in the composition**: reset, toggle and clear.
3. **Parsing of events**: `invocation_from` for events that lack an identifier.
