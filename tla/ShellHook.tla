------------------------------ MODULE ShellHook ------------------------------
(***************************************************************************)
(* The shell integration, shell/hook.bash and shell/hook.zsh: what an       *)
(* interactive shell reports to the plugin while it starts, draws prompts   *)
(* and executes the lines of the user.                                      *)
(*                                                                         *)
(* A report is a process started in the background; started is what a step  *)
(* of the shell has reported, and what becomes of the processes is the      *)
(* subject of Observation.                                                  *)
(***************************************************************************)
EXTENDS Naturals, Sequences, SequencesExt

CONSTANTS
  Program,   \* the first words that are names of executable files
  Job,       \* the foreground process groups that a command can start
  Setups,    \* the shells to look at, see Setup
  Lines,     \* the lines the user may enter, see IsLine
  MaxLines   \* bound on the number of lines

Shell  == "shell"    \* the shell itself, in the foreground
Sample == "sample"   \* --sample: the program is not known beforehand

(***************************************************************************)
(* A line is a sequence of simple commands, empty if the user just presses  *)
(* Enter.  word: the first word if it is the name of an executable file     *)
(* (type -t or whence -w), and Sample if it is an alias, a function or a    *)
(* builtin; job: the group it brings to the foreground, Shell if none;      *)
(* does: "nothing", or what the command does to the prompt.                 *)
(***************************************************************************)
Effect  == {"nothing", "replace", "extend", "prepend", "add_element",
            "declare_functions", "source_hook", "reload"}
Command == [word : Program \cup {Sample}, job : Job \cup {Shell}, does : Effect]
IsLine(l) ==
  /\ l \in Seq(Command)
  /\ \A i \in DOMAIN l : /\ l[i].word # Sample => l[i].job \in Job
                         /\ l[i].does # "nothing" => Len(l) = 1 /\ l[i].job = Shell

(***************************************************************************)
(* What is run before a prompt: precmd_functions, if a framework declared   *)
(* it and runs it (zsh itself does), and then PROMPT_COMMAND, an array or a *)
(* string of commands.  An entry is ours, somebody's, or buried: ours, but  *)
(* where register_precmd does not look for it, behind a space in the string *)
(* or inside a longer element of the array.                                 *)
(***************************************************************************)
Ours   == "ours"     \* _herdr_labels_bash_precmd, _herdr_labels_zsh_precmd
Buried == "buried"
Other  == "other"
Mine   == {Ours, Buried}
Entry  == {Ours, Buried, Other}

Entries == [declared : BOOLEAN, functions : Seq(Entry), array : BOOLEAN, prompt : Seq(Entry)]
Runs(es) == es.functions \o es.prompt

(***************************************************************************)
(* A shell before the hook is sourced.  preexec: preexec_functions exists   *)
(* (always in zsh); functrace: functions inherit the DEBUG trap (set -T or  *)
(* extdebug); foreign: DEBUG has a trap; entries: what the prompt has.      *)
(***************************************************************************)
Setup == [zsh : BOOLEAN, preexec : BOOLEAN, functrace : BOOLEAN, foreign : BOOLEAN,
          entries : Entries]

ASSUME ShellHookAssumption ==
  /\ Setups \subseteq Setup
  /\ \A s \in Setups :
       /\ s.zsh => s.preexec /\ s.entries.declared /\ ~s.foreign
       /\ ~s.entries.declared => s.entries.functions = <<>>
       /\ s.entries.functions \in Seq({Other}) /\ s.entries.prompt \in Seq({Other})
  /\ Shell \notin Program /\ Sample \notin Program /\ Shell \notin Job
  /\ \A l \in Lines : IsLine(l)
  /\ MaxLines \in Nat

VARIABLES
  setup,     \* what the shell was like when the hook was sourced
  entries,   \* what is run before a prompt, see Entries
  trap,      \* the DEBUG trap: "none", "foreign" or "ours"
  mode,      \* _HERDR_LABELS_BASH_PREEXEC_MODE, "unset" before the first prompt
  ready,     \* _HERDR_LABELS_BASH_READY
  at,        \* what the shell is doing
  next,      \* the entry to run next while the prompt is drawn
  rest,      \* the commands of the line that are still to be executed
  fg,        \* the foreground process group
  lines,     \* number of lines entered
  reports,   \* history: the reports of the line being executed
  started    \* the reports of the last step of the shell, in order

shellVars == <<setup, entries, trap, mode, ready, at, next, rest, fg, lines,
               reports, started>>

Event(kind, program) == [kind |-> kind, program |-> program]
InitEvent   == Event("init", Shell)
PrecmdEvent == Event("precmd", Shell)

\* _herdr_labels_*_preexec: the program by name, or a sample.
Report(c) == Event("preexec", c.word)

\* What the DEBUG trap is given while the prompt is drawn: a function or builtin.
PromptWord == [word |-> Sample, job |-> Shell, does |-> "nothing"]

ShellTypeOK ==
  /\ setup \in Setup
  /\ entries \in Entries
  /\ ~entries.declared => entries.functions = <<>>
  /\ trap \in {"none", "foreign", "ours"}
  /\ mode \in {"unset", "array", "debug", "none"}
  /\ ready \in BOOLEAN
  /\ at \in {"rc", "claim", "draw", "edit", "exec", "launch", "running"}
  /\ next \in 1 .. Len(Runs(entries)) + 1
  /\ IsLine(rest)
  /\ fg \in Job \cup {Shell}
  /\ lines \in 0 .. MaxLines
  /\ reports \in Nat

ShellInit ==
  /\ setup \in Setups
  /\ entries = setup.entries
  /\ trap = IF setup.foreign THEN "foreign" ELSE "none"
  /\ mode = "unset"
  /\ ready = TRUE                         \* ${_HERDR_LABELS_BASH_READY:-1}
  /\ at = "rc"
  /\ next = 1
  /\ rest = <<>>
  /\ fg = Shell
  /\ lines = 0
  /\ reports = 0
  /\ started = <<>>

-----------------------------------------------------------------------------
(* Startup *)

\* The form that register_precmd and the frameworks take for the prompt's.
InUse(es) == IF es.declared THEN es.functions ELSE es.prompt

WithInUse(es, list) ==
  IF es.declared THEN [es EXCEPT !.functions = list] ELSE [es EXCEPT !.prompt = list]

\* Mutant of Registered: our entry is appended without a look at the others.
RegisteredAgain(es) == WithInUse(es, Append(InUse(es), Ours))

\* register_precmd, add-zsh-hook: appended unless it is there, by itself.
Registered(es) ==
  IF Contains(InUse(es), Ours) THEN es ELSE WithInUse(es, Append(InUse(es), Ours))

\* The hook is sourced by the startup file, and the claim is submitted.
SourceHook ==
  /\ at = "rc"
  /\ started' = <<InitEvent>>
  /\ at' = "claim"
  /\ UNCHANGED <<setup, entries, trap, mode, ready, next, rest, fg, lines, reports>>

\* wait "$claim_pid" is over.
ClaimReturns ==
  /\ at = "claim"
  /\ entries' = Registered(entries)
  /\ at' = "draw"
  /\ started' = <<>>
  /\ UNCHANGED <<setup, trap, mode, ready, next, rest, fg, lines, reports>>

-----------------------------------------------------------------------------
(* Prompts *)

\* The DEBUG trap passes the gate and closes it.
TrapReports == trap = "ours" /\ ready

\* trap -p DEBUG in a function: bash has put the trap aside unless functrace.
TrapSeen == IF setup.functrace THEN trap ELSE "none"

\* How lines are reported, chosen by our entry at the first prompt.
ChosenMode ==
  IF mode # "unset" THEN mode
  ELSE IF setup.preexec THEN "array"
  ELSE IF TrapSeen = "none" THEN "debug" ELSE "none"

\* Mutant of Precmd: the gate is opened once and for all by the first prompt.
PrecmdOnce ==
  /\ mode' = ChosenMode
  /\ trap' = IF ChosenMode = "debug" THEN "ours" ELSE trap
  /\ ready' = (ready /\ ~TrapReports)

Precmd ==
  /\ mode' = ChosenMode
  /\ trap' = IF ChosenMode = "debug" THEN "ours" ELSE trap
  /\ ready' = (ChosenMode = "debug" \/ ready)

\* One entry is run.  An entry of PROMPT_COMMAND is a simple command like any other
\* for the DEBUG trap; the functions are called by a framework.
RunEntry ==
  LET bogus == IF TrapReports /\ next > Len(entries.functions)
               THEN <<Report(PromptWord)>> ELSE <<>>
  IN  /\ at = "draw"
      /\ next <= Len(Runs(entries))
      /\ next' = next + 1
      /\ \/ /\ Runs(entries)[next] \in Mine
            /\ started' = bogus \o <<PrecmdEvent>>
            /\ Precmd
         \/ /\ Runs(entries)[next] = Other
            /\ started' = bogus
            /\ ready' = (ready /\ bogus = <<>>)
            /\ UNCHANGED <<mode, trap>>
      /\ UNCHANGED <<setup, entries, at, rest, fg, lines, reports>>

\* Any command around the functions or in one of them may fire the trap; which ones
\* do depends on the framework, on functrace and on where the trap was set.
RunFramework ==
  /\ at = "draw"
  /\ entries.functions # <<>> /\ next <= Len(entries.functions) + 1
  /\ TrapReports
  /\ started' = <<Report(PromptWord)>>
  /\ ready' = FALSE
  /\ UNCHANGED <<setup, entries, trap, mode, at, next, rest, fg, lines, reports>>

ShowPrompt ==
  /\ at = "draw"
  /\ next > Len(Runs(entries))
  /\ at' = "edit"
  /\ next' = 1
  /\ started' = <<>>
  /\ UNCHANGED <<setup, entries, trap, mode, ready, rest, fg, lines, reports>>

-----------------------------------------------------------------------------
(* Lines *)

\* The user enters a line.  A hook array is called with the whole line.
EnterLine(l) ==
  /\ at = "edit"
  /\ lines < MaxLines
  /\ lines' = lines + 1
  /\ rest' = l
  /\ at' = IF l = <<>> THEN "draw" ELSE "exec"
  /\ IF mode = "array" /\ l # <<>>
     THEN started' = <<Report(Head(l))>> /\ reports' = 1
     ELSE started' = <<>> /\ reports' = 0
  /\ UNCHANGED <<setup, entries, trap, mode, ready, next, fg>>

\* Mutant of Debug: the gate stays open.
DebugAlways ==
  IF TrapReports
  THEN /\ started' = <<Report(Head(rest))>>
       /\ reports' = reports + 1
       /\ UNCHANGED ready
  ELSE started' = <<>> /\ UNCHANGED <<ready, reports>>

\* The DEBUG trap before a command of the line.
Debug ==
  IF TrapReports
  THEN /\ started' = <<Report(Head(rest))>>
       /\ reports' = reports + 1
       /\ ready' = FALSE
  ELSE started' = <<>> /\ UNCHANGED <<ready, reports>>

ExecuteCommand ==
  /\ at = "exec"
  /\ Debug
  /\ at' = "launch"
  /\ UNCHANGED <<setup, entries, trap, mode, next, rest, fg, lines>>

\* Its group, if there is one, gets the terminal.
Launch ==
  /\ at = "launch"
  /\ fg' = Head(rest).job
  /\ at' = "running"
  /\ started' = <<>>
  /\ UNCHANGED <<setup, entries, trap, mode, ready, next, rest, lines, reports>>

-----------------------------------------------------------------------------
(* What a command does to the prompt *)

Replaced(es) == WithInUse(es, <<Other>>)
Extended(es) == WithInUse(es, Append(InUse(es), Other))

\* PROMPT_COMMAND="other; $PROMPT_COMMAND", or an element before the others.
Prepended(es) ==
  LET list   == InUse(es)
      behind == IF ~es.declared /\ ~es.array /\ list # <<>> /\ Head(list) = Ours
                THEN <<Buried>> \o Tail(list) ELSE list
  IN  WithInUse(es, <<Other>> \o behind)

\* PROMPT_COMMAND+=(other): a string becomes the first element.
ElementAdded(es) ==
  LET whole == IF es.array \/ Len(es.prompt) = 1 THEN es.prompt
               ELSE [i \in DOMAIN es.prompt |->
                       IF es.prompt[i] = Ours THEN Buried ELSE es.prompt[i]]
  IN  [es EXCEPT !.array = TRUE, !.prompt = Append(whole, Other)]

\* A framework declares precmd_functions, and runs it from now on.
FunctionsDeclared(es) ==
  IF es.declared THEN es ELSE [es EXCEPT !.declared = TRUE, !.functions = <<Other>>]

\* In zsh sourcing the hook again returns at once, and PROMPT_COMMAND means nothing.
Changed(does, es) ==
  CASE does = "replace"           -> Replaced(es)
    [] does = "extend"            -> Extended(es)
    [] does = "prepend"           -> Prepended(es)
    [] does = "add_element"       -> IF setup.zsh THEN es ELSE ElementAdded(es)
    [] does = "declare_functions" -> FunctionsDeclared(es)
    [] does = "source_hook"       -> IF setup.zsh THEN es ELSE Registered(es)
    [] does = "reload"            -> IF setup.zsh THEN Replaced(es) ELSE Registered(Replaced(es))
    [] OTHER                      -> es

\* The command has been executed; a framework may have changed the prompt, the hook
\* been sourced again, or both, one after the other.
EndCommand ==
  /\ at = "running"
  /\ entries' = Changed(Head(rest).does, entries)
  /\ rest' = Tail(rest)
  /\ fg' = Shell
  /\ at' = IF Tail(rest) = <<>> THEN "draw" ELSE "exec"
  /\ started' = <<>>
  /\ UNCHANGED <<setup, trap, mode, ready, next, lines, reports>>

Drawing   == RunEntry \/ RunFramework \/ ShowPrompt
Executing == (\E l \in Lines : EnterLine(l)) \/ ExecuteCommand \/ Launch \/ EndCommand

ShellNext == SourceHook \/ ClaimReturns \/ Drawing \/ Executing
ShellIdle == at = "edit" /\ UNCHANGED shellVars

ShellSpec == ShellInit /\ [][ShellNext \/ ShellIdle]_shellVars

-----------------------------------------------------------------------------
(* Properties *)

(***************************************************************************)
(* A line is reported once however many commands it consists of: a second   *)
(* report would name the tab after a command further down the line.         *)
(***************************************************************************)
OneReportPerLine == reports <= 1

(***************************************************************************)
(* Where the shell can report lines at all, none is missed as long as the   *)
(* last entry of PROMPT_COMMAND is ours, buried or not, however often it    *)
(* stands there and whatever was replaced, extended, converted or sourced   *)
(* again before.  (An entry behind ours takes the report away, so may a     *)
(* framework that runs it, and after an empty line the prompt itself is     *)
(* reported.)                                                               *)
(***************************************************************************)
OursIsLast == entries.prompt # <<>> /\ Last(entries.prompt) \in Mine

EveryLineReported ==
  /\ at \in {"launch", "running"}
  /\ \/ mode = "array"
     \/ mode = "debug" /\ OursIsLast
  => reports = 1

(***************************************************************************)
(* Sourcing the hook again, after any change of the prompt, puts no second  *)
(* entry of ours next to one that is recognised in the same form: it takes  *)
(* a change of form or of spacing to register twice.                        *)
(***************************************************************************)
OncePerForm ==
  \A list \in {entries.functions, entries.prompt} :
    \A i, j \in DOMAIN list : list[i] = Ours /\ list[j] = Ours => i = j

(***************************************************************************)
(* README: "When Bash already has a DEBUG trap and exposes no               *)
(* preexec_functions hook array, Herdr Labels preserves that trap".         *)
(***************************************************************************)
ForeignTrapPreserved == [][trap = "foreign" => trap' = "foreign"]_shellVars
=============================================================================
