-------------------------- MODULE ObservationProofs --------------------------
(***************************************************************************)
(* Proofs about Observation: for any lines, shells and programs, and any    *)
(* number of processes in any order.  First the shell: what it reports,     *)
(* whatever the processes do; then the processes that the reports start.    *)
(***************************************************************************)
EXTENDS Observation, SelectionProofs, SequenceTheorems, TLAPS

-----------------------------------------------------------------------------
(* The shell *)

(***************************************************************************)
(* The strengthening of OneReportPerLine and EveryLineReported.  The gate   *)
(* of the DEBUG trap is open during a line only while nothing has been      *)
(* reported, a hook array excludes our trap, and when the last entry of the *)
(* prompt was ours, the gate is open from there to the first command.       *)
(***************************************************************************)
\* A prompt without precmd_functions runs none.
Well(es) == es \in Entries /\ (~es.declared => es.functions = <<>>)

\* The program counter of the shell, and what it has to execute.
PlaceInv ==
  /\ Well(entries)
  /\ mode \in {"unset", "array", "debug", "none"}
  /\ trap \in {"none", "foreign", "ours"}
  /\ ready \in BOOLEAN
  /\ next \in Nat
  /\ at \in {"rc", "claim", "draw", "edit", "exec", "launch", "running"}
  /\ IsLine(rest)
  /\ at \in {"exec", "launch", "running"} => rest # <<>>
  /\ at # "draw" => next = 1

\* Our trap and the mode go together.
TrapInv == trap = "ours" <=> mode = "debug"

ReportInv ==
  /\ reports \in 0 .. 1
  /\ at \in {"exec", "launch", "running"} /\ mode = "debug" /\ ready => reports = 0
  /\ at \in {"exec", "launch", "running"} /\ mode = "array" => reports = 1

\* Nobody has closed the gate since our entry opened it.
GateInv ==
  mode = "debug" /\ OursIsLast =>
    /\ at = "draw" /\ next > Len(Runs(entries)) => ready
    /\ at = "edit" => ready
    /\ at = "exec" => ready \/ reports = 1
    /\ at \in {"launch", "running"} => reports = 1

LineInv == PlaceInv /\ TrapInv /\ ReportInv /\ GateInv

-----------------------------------------------------------------------------
(* Lines *)

\* What is left of a line is a line, and only a line of one command changes the hook.
LEMMA TailOfLine ==
  ASSUME NEW l, IsLine(l), l # <<>>
  PROVE  /\ IsLine(Tail(l))
         /\ Head(l).does # "nothing" => Tail(l) = <<>>
<1>1. l \in Seq(Command) /\ Len(l) \in Nat \ {0}
  BY DEF IsLine
<1>2. Tail(l) \in Seq(Command) /\ Len(Tail(l)) = Len(l) - 1
  BY <1>1
<1>3. \A i \in DOMAIN Tail(l) : i + 1 \in DOMAIN l /\ Tail(l)[i] = l[i + 1] /\ Len(l) > 1
  BY <1>1, <1>2
<1>4. IsLine(Tail(l))
  BY <1>2, <1>3 DEF IsLine
<1>5. ASSUME Head(l).does # "nothing" PROVE Tail(l) = <<>>
  <2>1. 1 \in DOMAIN l /\ Head(l) = l[1]
    BY <1>1
  <2>2. Len(l) = 1
    BY <1>5, <2>1 DEF IsLine
  <2>3. Len(Tail(l)) = 0
    BY <1>2, <2>2
  <2> QED
    BY <1>2, <2>3, EmptySeq
<1> QED
  BY <1>4, <1>5

-----------------------------------------------------------------------------
(* The prompt *)

LEMMA PromptType ==
  ASSUME NEW es, Well(es)
  PROVE  /\ es.functions \in Seq(Entry) /\ es.prompt \in Seq(Entry) /\ InUse(es) \in Seq(Entry)
         /\ \A list \in Seq(Entry) : Well(WithInUse(es, list))
BY DEF Well, Entries, InUse, WithInUse

\* What runs: first the functions, then PROMPT_COMMAND.
LEMMA RunsType ==
  ASSUME NEW es, Well(es)
  PROVE  /\ Runs(es) \in Seq(Entry) /\ Len(Runs(es)) = Len(es.functions) + Len(es.prompt)
         /\ Len(es.functions) \in Nat /\ Len(es.prompt) \in Nat
         /\ es.prompt # <<>> => /\ Len(es.prompt) > 0
                                /\ Runs(es)[Len(Runs(es))] = Last(es.prompt)
<1> DEFINE f == es.functions
           p == es.prompt
<1>1. f \in Seq(Entry) /\ p \in Seq(Entry) /\ Runs(es) = f \o p
  BY PromptType DEF Runs
<1> HIDE DEF f, p
<1>2. /\ f \o p \in Seq(Entry) /\ Len(f \o p) = Len(f) + Len(p)
      /\ \A k \in 1 .. Len(f) + Len(p) :
           (f \o p)[k] = IF k <= Len(f) THEN f[k] ELSE p[k - Len(f)]
  BY <1>1, ConcatProperties, Zenon
<1>3. Len(f) \in Nat /\ Len(p) \in Nat /\ (p # <<>> => Len(p) > 0)
  BY <1>1
<1>4. ASSUME p # <<>> PROVE (f \o p)[Len(f) + Len(p)] = Last(p)
  <2>1. Len(f) + Len(p) \in 1 .. Len(f) + Len(p) /\ ~(Len(f) + Len(p) <= Len(f))
        /\ Len(f) + Len(p) - Len(f) = Len(p)
    BY <1>3, <1>4
  <2> QED BY <1>2, <2>1 DEF Last
<1> QED BY <1>1, <1>2, <1>3, <1>4 DEF f, p

\* A prompt with our entry is not drawn before it has begun.
LEMMA SomethingRuns ==
  ASSUME NEW es, Well(es), es.prompt # <<>>
  PROVE  ~(1 > Len(Runs(es)))
<1> DEFINE f == Len(es.functions)
           p == Len(es.prompt)
           r == Len(Runs(es))
<1>1. r = f + p /\ p > 0 /\ f \in Nat /\ p \in Nat
  BY RunsType
<1> HIDE DEF f, p, r
<1>2. ~(1 > r)
  BY <1>1
<1> QED BY <1>2 DEF r

LEMMA RegisteredType ==
  ASSUME NEW es, Well(es)
  PROVE  Well(Registered(es))
<1>1. Append(InUse(es), Ours) \in Seq(Entry)
  BY PromptType DEF Entry
<1> QED BY <1>1, PromptType DEF Registered

\* Whatever a command does to the prompt, it is one.
LEMMA ChangedType ==
  ASSUME NEW es, Well(es), NEW does
  PROVE  Well(Changed(does, es))
<1>1. /\ es.functions \in Seq(Entry) /\ es.prompt \in Seq(Entry) /\ InUse(es) \in Seq(Entry)
      /\ {Ours, Buried, Other} = Entry
  BY PromptType DEF Entry
<1>2. Well(Replaced(es))
  <2>1. <<Other>> \in Seq(Entry)
    BY <1>1
  <2> QED BY <2>1, PromptType DEF Replaced
<1>3. Well(Extended(es))
  <2>1. Append(InUse(es), Other) \in Seq(Entry)
    BY <1>1
  <2> QED BY <2>1, PromptType DEF Extended
<1>4. Well(Prepended(es))
  <2> DEFINE list == InUse(es)
             behind == IF ~es.declared /\ ~es.array /\ list # <<>> /\ Head(list) = Ours
                       THEN <<Buried>> \o Tail(list) ELSE list
  <2>1. list \in Seq(Entry) /\ <<Buried>> \in Seq(Entry) /\ <<Other>> \in Seq(Entry)
        /\ (list # <<>> => Tail(list) \in Seq(Entry))
    BY <1>1
  <2> HIDE DEF list
  <2>2. behind \in Seq(Entry)
    BY <2>1, ConcatProperties
  <2> HIDE DEF behind
  <2>3. <<Other>> \o behind \in Seq(Entry)
    BY <2>1, <2>2, ConcatProperties
  <2> QED BY <2>3, PromptType DEF Prepended, behind, list
<1>5. Well(ElementAdded(es))
  <2> DEFINE buried == [i \in DOMAIN es.prompt |->
                          IF es.prompt[i] = Ours THEN Buried ELSE es.prompt[i]]
             whole == IF es.array \/ Len(es.prompt) = 1 THEN es.prompt ELSE buried
  <2>1. buried \in Seq(Entry)
    BY <1>1
  <2> HIDE DEF buried
  <2>2. Append(whole, Other) \in Seq(Entry)
    BY <1>1, <2>1
  <2>3. ElementAdded(es) = [es EXCEPT !.array = TRUE, !.prompt = Append(whole, Other)]
    BY DEF ElementAdded, buried
  <2> HIDE DEF whole
  <2> QED BY <2>2, <2>3 DEF Well, Entries
<1>6. Well(FunctionsDeclared(es))
  <2>1. <<Other>> \in Seq(Entry)
    BY <1>1
  <2> QED BY <2>1 DEF FunctionsDeclared, Well, Entries
<1>7. Well(Registered(es)) /\ Well(Registered(Replaced(es)))
  BY <1>2, RegisteredType
<1>8. Changed(does, es) \in {Replaced(es), Extended(es), Prepended(es), es, ElementAdded(es),
                             FunctionsDeclared(es), Registered(es), Registered(Replaced(es))}
  BY Zenon DEF Changed
<1> QED BY <1>2, <1>3, <1>4, <1>5, <1>6, <1>7, <1>8

-----------------------------------------------------------------------------
(* The steps of the shell *)

LEMMA LineInit == ShellInit => LineInv
<1> SUFFICES ASSUME ShellInit PROVE LineInv
  OBVIOUS
<1>1. Well(entries)
  BY ShellHookAssumption DEF ShellInit, Setup, Well
<1>2. IsLine(<<>>)
  BY DEF IsLine
<1> QED
  BY <1>1, <1>2 DEF ShellInit, LineInv, PlaceInv, TrapInv, ReportInv, GateInv

\* Startup: nothing has been entered, and no mode has been chosen that matters.
LEMMA LineStartup ==
  ASSUME LineInv, SourceHook \/ ClaimReturns
  PROVE  LineInv'
<1>1. CASE SourceHook
  BY <1>1 DEF SourceHook, LineInv, PlaceInv, TrapInv, ReportInv, GateInv, OursIsLast
<1>2. CASE ClaimReturns
  <2>1. Well(entries')
    BY <1>2, RegisteredType DEF ClaimReturns, LineInv, PlaceInv
  <2>2. OursIsLast' => ~(1 > Len(Runs(entries')))
    BY <2>1, SomethingRuns DEF OursIsLast
  <2> QED
    BY <1>2, <2>1, <2>2 DEF ClaimReturns, LineInv, PlaceInv, TrapInv, ReportInv, GateInv, OursIsLast
<1> QED
  BY <1>1, <1>2

\* The prompt: the last entry that runs decides whether the gate is open.
LEMMA LineDrawing ==
  ASSUME LineInv, Drawing
  PROVE  LineInv'
<1> USE DEF LineInv, PlaceInv
<1>1. CASE RunEntry
  <2>1. PlaceInv' /\ TrapInv'
    <3>1. CASE Precmd
      <4>1. ChosenMode \in {"unset", "array", "debug", "none"}
        BY DEF ChosenMode
      <4>2. ready' \in BOOLEAN
        BY <3>1 DEF Precmd
      <4>3. trap' \in {"none", "foreign", "ours"} /\ mode' = ChosenMode
        BY <3>1 DEF Precmd
      <4>4. mode = "debug" => ChosenMode = "debug"
        BY DEF ChosenMode
      <4>5. trap' = IF ChosenMode = "debug" THEN "ours" ELSE trap
        BY <3>1 DEF Precmd
      <4>6. TrapInv'
        BY <4>3, <4>4, <4>5 DEF TrapInv
      <4> QED
        BY <1>1, <4>1, <4>2, <4>3, <4>6 DEF RunEntry
    <3>2. CASE ready' \in BOOLEAN /\ UNCHANGED <<mode, trap>>
      <4>1. ready' \in BOOLEAN
        BY <3>2
      <4> QED
        BY <1>1, <3>2, <4>1 DEF RunEntry, TrapInv
    <3>3. Precmd \/ (ready' \in BOOLEAN /\ UNCHANGED <<mode, trap>>)
      <4> DEFINE bogus == IF TrapReports /\ next > Len(entries.functions)
                          THEN <<Report(PromptWord)>> ELSE <<>>
      <4>1. Precmd \/ (ready' = (ready /\ bogus = <<>>) /\ UNCHANGED <<mode, trap>>)
        BY <1>1 DEF RunEntry
      <4> HIDE DEF bogus
      <4> QED
        BY <4>1
    <3> QED
      BY <3>1, <3>2, <3>3
  <2>2. ReportInv'
    BY <1>1 DEF RunEntry, ReportInv
  <2>3. ASSUME mode' = "debug", OursIsLast', next' > Len(Runs(entries')) PROVE ready'
    <3>1. entries' = entries /\ next <= Len(Runs(entries)) /\ next' = next + 1
      BY <1>1 DEF RunEntry
    <3>2. Len(Runs(entries)) \in Nat /\ entries.prompt # <<>> /\ Last(entries.prompt) \in Mine
      BY <2>3, <3>1, RunsType DEF OursIsLast
    <3>3. next = Len(Runs(entries))
      BY <2>3, <3>1, <3>2
    <3>4. Runs(entries)[next] \in Mine
      BY <3>2, <3>3, RunsType
    <3>5. Precmd
      BY <1>1, <3>4 DEF RunEntry, Mine, Ours, Buried, Other
    <3> QED
      BY <2>3, <3>5 DEF Precmd
  <2>4. GateInv'
    BY <1>1, <2>3 DEF RunEntry, GateInv
  <2> QED
    BY <2>1, <2>2, <2>4
<1>2. CASE ShowPrompt
  BY <1>2 DEF ShowPrompt, TrapInv, ReportInv, GateInv, OursIsLast
<1>3. CASE RunFramework
  <2>1. ~OursIsLast \/ ~(next > Len(Runs(entries)))
    <3>1. next <= Len(entries.functions) + 1
      BY <1>3 DEF RunFramework
    <3>2. Well(entries) /\ next \in Nat
      OBVIOUS
    <3> DEFINE f == Len(entries.functions)
               p == Len(entries.prompt)
               r == Len(Runs(entries))
    <3>3. /\ r = f + p /\ f \in Nat /\ p \in Nat /\ next <= f + 1
          /\ entries.prompt # <<>> => p > 0
      BY <3>1, <3>2, RunsType
    <3> HIDE DEF f, p, r
    <3>4. entries.prompt # <<>> => ~(next > r)
      BY <3>2, <3>3
    <3> QED
      BY <3>4 DEF OursIsLast, r
  <2> QED
    BY <1>3, <2>1 DEF RunFramework, TrapInv, ReportInv, GateInv, OursIsLast
<1> QED
  BY <1>1, <1>2, <1>3 DEF Drawing

\* A line: a hook array reports it as a whole, the trap at its first command.
LEMMA LineExecuting ==
  ASSUME LineInv, Executing
  PROVE  LineInv'
<1> USE DEF LineInv, PlaceInv, TrapInv, ReportInv, GateInv
<1>1. ASSUME NEW l \in Lines, EnterLine(l) PROVE LineInv'
  <2>1. IsLine(l)
    BY ShellHookAssumption
  <2>2. PlaceInv' /\ TrapInv'
    BY <1>1, <2>1 DEF EnterLine
  <2>3. ReportInv'
    BY <1>1 DEF EnterLine
  <2>4. GateInv'
    BY <1>1 DEF EnterLine, OursIsLast
  <2> QED
    BY <2>2, <2>3, <2>4
<1>2. CASE ExecuteCommand
  <2>1. CASE TrapReports
    <3>1. ready /\ reports = 0 /\ mode = "debug"
      BY <1>2, <2>1 DEF ExecuteCommand, TrapReports
    <3>2. reports' = 1 /\ ready' = FALSE
      BY <1>2, <2>1, <3>1 DEF ExecuteCommand, Debug
    <3>3. PlaceInv' /\ TrapInv'
      BY <1>2, <3>2 DEF ExecuteCommand
    <3>4. ReportInv' /\ GateInv'
      BY <1>2, <3>1, <3>2 DEF ExecuteCommand, OursIsLast
    <3> QED
      BY <3>3, <3>4
  <2>2. CASE ~TrapReports
    <3>1. UNCHANGED <<ready, reports>>
      BY <1>2, <2>2 DEF ExecuteCommand, Debug
    <3> QED
      BY <1>2, <2>2, <3>1 DEF ExecuteCommand, TrapReports, OursIsLast
  <2> QED
    BY <2>1, <2>2
<1>3. CASE Launch
  BY <1>3 DEF Launch, OursIsLast
<1>4. CASE EndCommand
  <2>1. IsLine(Tail(rest)) /\ (Head(rest).does # "nothing" => Tail(rest) = <<>>)
    BY <1>4, TailOfLine DEF EndCommand
  <2>2. Well(entries')
    BY <1>4, ChangedType DEF EndCommand
  <2>5. OursIsLast' => ~(1 > Len(Runs(entries')))
    BY <2>2, SomethingRuns DEF OursIsLast
  <2>3. CASE Tail(rest) = <<>>
    BY <1>4, <2>1, <2>2, <2>3, <2>5 DEF EndCommand
  <2>4. CASE Tail(rest) # <<>>
    <3>1. entries' = Changed("nothing", entries)
      BY <1>4, <2>1, <2>4 DEF EndCommand
    <3>2. entries' = entries
      BY <3>1, Zenon DEF Changed
    <3> QED
      BY <1>4, <2>1, <2>4, <3>2 DEF EndCommand, OursIsLast
  <2> QED
    BY <2>3, <2>4
<1> QED
  BY <1>1, <1>2, <1>3, <1>4 DEF Executing

LEMMA LineUnchanged ==
  ASSUME LineInv, UNCHANGED shellVars
  PROVE  LineInv'
BY DEF shellVars, LineInv, PlaceInv, TrapInv, ReportInv, GateInv, OursIsLast

LEMMA LineStep == LineInv /\ [ShellNext \/ ShellIdle]_shellVars => LineInv'
BY LineStartup, LineDrawing, LineExecuting, LineUnchanged DEF ShellNext, ShellIdle

LEMMA LineInvariant == ShellSpec => []LineInv
  BY LineInit, LineStep, PTL DEF ShellSpec

-----------------------------------------------------------------------------
(* Theorems *)

(***************************************************************************)
(* Whatever the lines and however the prompt is changed on the way, no line *)
(* is reported twice: the gate of the DEBUG trap is closed by the report,   *)
(* and opened again by a prompt only.                                       *)
(***************************************************************************)
THEOREM LinesReportedOnce == ShellSpec => []OneReportPerLine
<1>1. LineInv => OneReportPerLine
  BY DEF LineInv, ReportInv, OneReportPerLine
<1> QED
  BY <1>1, LineInvariant, PTL

(***************************************************************************)
(* And none is missed where the last entry of PROMPT_COMMAND is ours.       *)
(***************************************************************************)
THEOREM NoLineMissed == ShellSpec => []EveryLineReported
<1>1. LineInv => EveryLineReported
  BY DEF LineInv, ReportInv, GateInv, OursIsLast, EveryLineReported
<1> QED
  BY <1>1, LineInvariant, PTL

-----------------------------------------------------------------------------
(* Registration *)

\* Our entry is in the list once at most, as far as it is recognised.
Once(list) == \A i, j \in DOMAIN list : list[i] = Ours /\ list[j] = Ours => i = j

EachOnce(es) == Once(es.functions) /\ Once(es.prompt)

LEMMA FewEntries == Once(<<>>) /\ Once(<<Other>>)
BY DEF Once, Ours, Other

\* An entry is appended to a list that does not have it yet, or is not ours.
LEMMA AppendedOnce ==
  ASSUME NEW es \in Seq(Entry), Once(es), NEW e \in Entry,
         e = Ours => \A i \in DOMAIN es : es[i] # Ours
  PROVE  Once(Append(es, e))
<1>1. /\ DOMAIN Append(es, e) = 1 .. Len(es) + 1 /\ DOMAIN es = 1 .. Len(es)
      /\ \A i \in 1 .. Len(es) : Append(es, e)[i] = es[i]
      /\ Append(es, e)[Len(es) + 1] = e
  BY AppendProperties
<1> SUFFICES ASSUME NEW i \in 1 .. Len(es) + 1, NEW j \in 1 .. Len(es) + 1,
                    Append(es, e)[i] = Ours, Append(es, e)[j] = Ours
             PROVE  i = j
  BY <1>1 DEF Once
<1>2. i \in 1 .. Len(es) \/ i = Len(es) + 1
  OBVIOUS
<1>3. j \in 1 .. Len(es) \/ j = Len(es) + 1
  OBVIOUS
<1> QED BY <1>1, <1>2, <1>3 DEF Once

\* An entry that is not ours is put before a list.
LEMMA ConsedOnce ==
  ASSUME NEW es \in Seq(Entry), Once(es), NEW e \in Entry, e # Ours
  PROVE  <<e>> \o es \in Seq(Entry) /\ Once(<<e>> \o es)
<1> DEFINE longer == <<e>> \o es
<1>1. <<e>> \in Seq(Entry) /\ Len(<<e>>) = 1 /\ <<e>>[1] = e /\ Len(es) \in Nat
      /\ DOMAIN es = 1 .. Len(es)
  OBVIOUS
<1>2. /\ longer \in Seq(Entry) /\ Len(longer) = 1 + Len(es)
      /\ \A k \in 1 .. 1 + Len(es) : longer[k] = IF k <= 1 THEN <<e>>[k] ELSE es[k - 1]
  BY <1>1, ConcatProperties
<1> HIDE DEF longer
<1>3. DOMAIN longer = 1 .. 1 + Len(es)
  BY <1>2
<1>4. ASSUME NEW i \in DOMAIN longer, longer[i] = Ours
      PROVE  i \in Nat /\ i - 1 \in DOMAIN es /\ es[i - 1] = Ours
  BY <1>1, <1>2, <1>3, <1>4
<1>5. Once(longer)
  <2> SUFFICES ASSUME NEW i \in DOMAIN longer, NEW j \in DOMAIN longer,
                      longer[i] = Ours, longer[j] = Ours
               PROVE  i = j
    BY DEF Once
  <2>1. i \in Nat /\ j \in Nat /\ i - 1 = j - 1
    BY <1>4 DEF Once
  <2> QED BY <2>1
<1> QED BY <1>2, <1>5 DEF longer

LEMMA TailOnce ==
  ASSUME NEW es \in Seq(Entry), es # <<>>, Once(es)
  PROVE  Tail(es) \in Seq(Entry) /\ Once(Tail(es))
<1>1. /\ Tail(es) \in Seq(Entry) /\ Len(es) \in Nat /\ Len(Tail(es)) = Len(es) - 1
      /\ \A i \in DOMAIN Tail(es) : i \in Nat /\ i + 1 \in DOMAIN es /\ Tail(es)[i] = es[i + 1]
  OBVIOUS
<1>2. ASSUME NEW i \in DOMAIN Tail(es), NEW j \in DOMAIN Tail(es),
             Tail(es)[i] = Ours, Tail(es)[j] = Ours
      PROVE  i = j
  <2>1. i + 1 = j + 1 /\ i \in Nat /\ j \in Nat
    BY <1>1, <1>2 DEF Once
  <2> QED BY <2>1
<1> QED BY <1>1, <1>2 DEF Once

\* The list in use and the other one.
LEMMA InUseOnce ==
  ASSUME NEW es, Well(es), EachOnce(es)
  PROVE  /\ Once(InUse(es))
         /\ \A list \in Seq(Entry) : Once(list) => EachOnce(WithInUse(es, list))
BY DEF Well, Entries, EachOnce, InUse, WithInUse

\* register_precmd and add-zsh-hook look before they append.
LEMMA RegisteringOnce ==
  ASSUME NEW es, Well(es), EachOnce(es)
  PROVE  EachOnce(Registered(es))
<1> DEFINE list == InUse(es)
<1>1. list \in Seq(Entry) /\ DOMAIN list = 1 .. Len(list) /\ Once(list) /\ Ours \in Entry
  BY PromptType, InUseOnce DEF Entry
<1>2. CASE Contains(list, Ours)
  BY <1>2 DEF Registered
<1>3. CASE ~Contains(list, Ours)
  <2> HIDE DEF list
  <2>1. \A i \in DOMAIN list : list[i] # Ours
    BY <1>1, <1>3 DEF Contains
  <2>2. Append(list, Ours) \in Seq(Entry) /\ Once(Append(list, Ours))
    BY <1>1, <2>1, AppendedOnce
  <2> QED BY <1>3, <2>2, InUseOnce DEF Registered, list
<1> QED BY <1>2, <1>3

LEMMA ChangingOnce ==
  ASSUME NEW es, Well(es), EachOnce(es), NEW does
  PROVE  EachOnce(Changed(does, es))
<1> DEFINE list == InUse(es)
<1>1. /\ list \in Seq(Entry) /\ Once(list)
      /\ es.prompt \in Seq(Entry) /\ Once(es.prompt) /\ Once(es.functions)
      /\ Other \in Entry /\ Buried \in Entry /\ Other # Ours /\ Buried # Ours
  BY PromptType, InUseOnce DEF EachOnce, Entry, Ours, Buried, Other
<1>2. EachOnce(Replaced(es)) /\ Well(Replaced(es))
  <2>1. <<Other>> \in Seq(Entry)
    BY <1>1
  <2> QED BY <2>1, FewEntries, InUseOnce, PromptType DEF Replaced
<1>3. EachOnce(Extended(es))
  <2> HIDE DEF list
  <2>1. Append(list, Other) \in Seq(Entry) /\ Once(Append(list, Other))
    BY <1>1, AppendedOnce
  <2> QED BY <2>1, InUseOnce DEF Extended, list
<1>4. EachOnce(Prepended(es))
  <2> DEFINE behind == IF ~es.declared /\ ~es.array /\ list # <<>> /\ Head(list) = Ours
                       THEN <<Buried>> \o Tail(list) ELSE list
  <2> HIDE DEF list
  <2>1. behind \in Seq(Entry) /\ Once(behind)
    BY <1>1, TailOnce, ConsedOnce
  <2> HIDE DEF behind
  <2>2. <<Other>> \o behind \in Seq(Entry) /\ Once(<<Other>> \o behind)
    BY <1>1, <2>1, ConsedOnce
  <2> QED BY <2>2, InUseOnce DEF Prepended, behind, list
<1>5. EachOnce(ElementAdded(es))
  <2> DEFINE buried == [i \in DOMAIN es.prompt |->
                          IF es.prompt[i] = Ours THEN Buried ELSE es.prompt[i]]
             whole == IF es.array \/ Len(es.prompt) = 1 THEN es.prompt ELSE buried
  <2>1. buried \in Seq(Entry) /\ \A i \in DOMAIN buried : buried[i] # Ours
    BY <1>1, PromptType DEF Entry
  <2> HIDE DEF buried
  <2>2. whole \in Seq(Entry) /\ Once(whole)
    BY <1>1, <2>1 DEF Once
  <2>3. ElementAdded(es) = [es EXCEPT !.array = TRUE, !.prompt = Append(whole, Other)]
    BY DEF ElementAdded, buried
  <2> HIDE DEF whole
  <2>4. Once(Append(whole, Other))
    BY <1>1, <2>2, AppendedOnce
  <2>5. ElementAdded(es).functions = es.functions /\ ElementAdded(es).prompt = Append(whole, Other)
    BY <2>3 DEF Well, Entries
  <2> QED BY <1>1, <2>4, <2>5 DEF EachOnce
<1>6. EachOnce(FunctionsDeclared(es))
  BY FewEntries DEF FunctionsDeclared, EachOnce, Well, Entries
<1>7. EachOnce(Registered(es)) /\ EachOnce(Registered(Replaced(es)))
  BY <1>2, RegisteringOnce
<1>8. Changed(does, es) \in {Replaced(es), Extended(es), Prepended(es), es, ElementAdded(es),
                             FunctionsDeclared(es), Registered(es), Registered(Replaced(es))}
  BY Zenon DEF Changed
<1> QED BY <1>2, <1>3, <1>4, <1>5, <1>6, <1>7, <1>8

LEMMA OnceStep ==
  LineInv /\ EachOnce(entries) /\ [ShellNext \/ ShellIdle]_shellVars => EachOnce(entries)'
<1> SUFFICES ASSUME LineInv, EachOnce(entries), [ShellNext \/ ShellIdle]_shellVars
             PROVE  EachOnce(entries')
  OBVIOUS
<1>1. Well(entries)
  BY DEF LineInv, PlaceInv
<1>2. CASE ClaimReturns
  BY <1>1, <1>2, RegisteringOnce DEF ClaimReturns
<1>3. CASE EndCommand
  BY <1>1, <1>3, ChangingOnce DEF EndCommand
<1>4. CASE ~ClaimReturns /\ ~EndCommand
  <2>1. entries' = entries
    BY <1>4 DEF ShellNext, SourceHook, Drawing, RunEntry, RunFramework, ShowPrompt, Executing,
                EnterLine, ExecuteCommand, Launch, ShellIdle, shellVars
  <2> QED BY <2>1
<1> QED BY <1>2, <1>3, <1>4

(***************************************************************************)
(* However often the hook is sourced again and whatever becomes of the      *)
(* prompt, no form of it has two entries of ours that are recognised.       *)
(***************************************************************************)
THEOREM HookOncePerForm == ShellSpec => []OncePerForm
<1>1. ShellInit => EachOnce(entries)
  <2> SUFFICES ASSUME ShellInit PROVE EachOnce(entries)
    OBVIOUS
  <2>1. entries.functions \in Seq({Other}) /\ entries.prompt \in Seq({Other})
    BY ShellHookAssumption DEF ShellInit
  <2> QED BY <2>1 DEF EachOnce, Once, Ours, Other
<1>2. EachOnce(entries) => OncePerForm
  BY DEF EachOnce, Once, OncePerForm
<1> QED BY <1>1, <1>2, OnceStep, LineInvariant, PTL DEF ShellSpec

-----------------------------------------------------------------------------
(* The shell among the processes *)

(***************************************************************************)
(* Whatever the processes do, the shell behaves as it does alone: what      *)
(* holds of ShellSpec holds of Spec.                                        *)
(***************************************************************************)
THEOREM ShellIsIndependent == Spec => ShellSpec
<1>1. Init => ShellInit
  BY DEF Init
<1>2. [Next]_vars => [ShellNext \/ ShellIdle]_shellVars
  BY DEF Next, ShellSteps, AtPrompt, Step, StructuralPass, Focus, vars
<1> QED BY <1>1, <1>2, PTL DEF Spec, ShellSpec

LEMMA LineStepAmong == LineInv /\ [Next]_vars => LineInv'
<1>1. [Next]_vars => [ShellNext \/ ShellIdle]_shellVars
  BY DEF Next, ShellSteps, AtPrompt, Step, StructuralPass, Focus, vars
<1> QED BY <1>1, LineStep

-----------------------------------------------------------------------------
(* The processes that the reports start *)

EventSet == [kind : {"init", "precmd", "preexec", "focus"}, program : Program \cup {Shell, Sample}]

\* The shell has the terminal unless a command runs.
ShellInv == ShellTypeOK /\ (at # "running" => fg = Shell)

OneHolder(ps) ==
  \A i, j \in DOMAIN ps : ps[i].at \in Holding /\ ps[j].at \in Holding => i = j

ProcsInv ==
  /\ procs \in Seq(Process)
  /\ fresh \in BOOLEAN /\ structural \in BOOLEAN
  /\ name \in Names
  /\ focuses \in 0 .. MaxFocus
  /\ OneHolder(procs)
  /\ structural => \A i \in DOMAIN procs : procs[i].at \notin Holding

\* What the shell reports comes after the claim, and it reports something.
ClaimInv ==
  /\ IF at \in {"rc", "claim"}
     THEN \A i \in DOMAIN procs : procs[i].event.kind \notin {"precmd", "preexec"}
     ELSE ClaimEnded
  /\ at # "rc" => procs # <<>>

\* None, or a name of what is in the foreground.
Current(n) == n \in {NoName} \cup NamesOf(fg)

(***************************************************************************)
(* Since the newest process has read the foreground, whoever holds a name   *)
(* holds that of what is in the foreground still.                           *)
(***************************************************************************)
FreshInv ==
  fresh =>
    /\ \A i \in DOMAIN procs : procs[i].at = "commit" => Current(procs[i].plan)
    /\ procs # <<>> /\ Last(procs).at = "ok" =>
         Current(Last(procs).plan) /\ (Last(procs).plan # NoName => name \in NamesOf(fg))

\* Our entry has run in the prompt that is drawn or shown.
Prompted ==
  \/ at = "edit" /\ \E i \in DOMAIN Runs(entries) : Runs(entries)[i] \in Mine
  \/ at = "draw" /\ \E i \in DOMAIN Runs(entries) : i < next /\ Runs(entries)[i] \in Mine

\* The shell has had the terminal ever since its prompt was reported.
PromptInv ==
  Prompted /\ Last(procs).event = PrecmdEvent /\ Last(procs).at \in {"commit", "ok"} =>
    fresh /\ Last(procs).plan = IdleName

ObsInv == LineInv /\ ShellInv /\ ProcsInv /\ ClaimInv /\ FreshInv /\ PromptInv

-----------------------------------------------------------------------------
(* Reports *)

LEMMA ReportType ==
  ASSUME NEW c \in Command
  PROVE  Report(c) \in EventSet /\ Report(c).kind = "preexec"
BY DEF Report, Event, EventSet, Command

LEMMA EventTypes ==
  /\ InitEvent \in EventSet /\ InitEvent.kind = "init"
  /\ PrecmdEvent \in EventSet /\ PrecmdEvent.kind = "precmd"
  /\ FocusEvent \in EventSet /\ FocusEvent.kind = "focus"
BY DEF InitEvent, PrecmdEvent, FocusEvent, Event, EventSet

\* The first command of a line.
LEMMA HeadOfLine ==
  ASSUME NEW l, IsLine(l), l # <<>>
  PROVE  Head(l) \in Command
<1>1. l \in Seq(Command) /\ 1 \in DOMAIN l /\ Head(l) = l[1]
  BY DEF IsLine
<1> QED BY <1>1 DEF IsLine

\* Sequences of one and of two reports.
LEMMA FewReports ==
  ASSUME NEW d \in EventSet, NEW e \in EventSet
  PROVE  /\ <<e>> \in Seq(EventSet) /\ <<e>> # <<>> /\ Last(<<e>>) = e
         /\ \A i \in DOMAIN <<e>> : <<e>>[i] = e
         /\ <<>> \o <<e>> = <<e>>
         /\ <<d>> \o <<e>> \in Seq(EventSet) /\ <<d>> \o <<e>> # <<>>
         /\ Last(<<d>> \o <<e>>) = e
         /\ \A i \in DOMAIN (<<d>> \o <<e>>) : (<<d>> \o <<e>>)[i] \in {d, e}
<1>1. /\ <<e>> \in Seq(EventSet) /\ <<e>> # <<>> /\ Last(<<e>>) = e
      /\ \A i \in DOMAIN <<e>> : <<e>>[i] = e
  BY DEF Last
<1>2. <<>> \o <<e>> = <<e>>
  BY <1>1, ConcatEmptySeq
<1>3. <<d>> \in Seq(EventSet) /\ Len(<<d>>) = 1 /\ <<d>>[1] = d /\ Len(<<e>>) = 1 /\ <<e>>[1] = e
  OBVIOUS
<1> DEFINE both == <<d>> \o <<e>>
<1>4. both \in Seq(EventSet) /\ Len(both) = 2 /\ both[1] = d /\ both[2] = e
  BY <1>1, <1>3, ConcatProperties
<1> HIDE DEF both
<1>5. both # <<>> /\ Last(both) = e /\ \A i \in DOMAIN both : both[i] \in {d, e}
  BY <1>4 DEF Last
<1> QED BY <1>1, <1>2, <1>4, <1>5 DEF both

(***************************************************************************)
(* What a step of the shell reports: the claim, or what is drawn and        *)
(* executed after it.                                                       *)
(***************************************************************************)
LEMMA StartedType ==
  ASSUME LineInv, ShellNext
  PROVE  /\ started' \in Seq(EventSet)
         /\ at = "rc" => started' = <<InitEvent>> /\ at' = "claim"
         /\ at = "claim" => started' = <<>>
         /\ at \notin {"rc", "claim"} =>
              /\ at' \notin {"rc", "claim"}
              /\ \A i \in DOMAIN started' : started'[i].kind \in {"precmd", "preexec"}
         /\ started' # <<>> =>
              \/ Last(started').kind # "precmd"
              \/ RunEntry /\ Runs(entries)[next] \in Mine
<1>1. CASE SourceHook
  BY <1>1, EventTypes, FewReports DEF SourceHook
<1>2. CASE ClaimReturns
  BY <1>2 DEF ClaimReturns
<1>3. CASE RunEntry
  <2> DEFINE word == Report(PromptWord)
  <2>1. word \in EventSet /\ word.kind = "preexec"
    <3>1. PromptWord \in Command
      BY DEF PromptWord, Command, Effect
    <3> QED BY <3>1, ReportType
  <2>2. /\ at = "draw" /\ at' = at
        /\ \/ started' = <<>>
           \/ started' = <<word>>
           \/ Runs(entries)[next] \in Mine /\ started' = <<>> \o <<PrecmdEvent>>
           \/ Runs(entries)[next] \in Mine /\ started' = <<word>> \o <<PrecmdEvent>>
    BY <1>3 DEF RunEntry
  <2> HIDE DEF word
  <2>3. CASE started' = <<>>
    BY <2>2, <2>3
  <2>4. CASE started' = <<word>>
    BY <2>1, <2>2, <2>4, FewReports
  <2>5. CASE Runs(entries)[next] \in Mine /\ started' = <<>> \o <<PrecmdEvent>>
    BY <1>3, <2>2, <2>5, EventTypes, FewReports
  <2>6. CASE Runs(entries)[next] \in Mine /\ started' = <<word>> \o <<PrecmdEvent>>
    <3>1. /\ started' \in Seq(EventSet)
          /\ \A i \in DOMAIN started' : started'[i] \in {word, PrecmdEvent}
      BY <2>1, <2>6, EventTypes, FewReports
    <3> QED BY <1>3, <2>1, <2>2, <2>6, <3>1, EventTypes
  <2> QED BY <2>2, <2>3, <2>4, <2>5, <2>6
<1>4. CASE ShowPrompt
  BY <1>4 DEF ShowPrompt
<1>9. CASE RunFramework
  <2>1. PromptWord \in Command
    BY DEF PromptWord, Command, Effect
  <2>2. Report(PromptWord) \in EventSet /\ Report(PromptWord).kind = "preexec"
    BY <2>1, ReportType
  <2>3. at = "draw" /\ at' = at /\ started' = <<Report(PromptWord)>>
    BY <1>9 DEF RunFramework
  <2> QED BY <2>2, <2>3, FewReports
<1>5. ASSUME NEW l \in Lines, EnterLine(l)
      PROVE  /\ at = "edit" /\ at' \notin {"rc", "claim"}
             /\ started' = <<>> \/ \E e \in EventSet : e.kind = "preexec" /\ started' = <<e>>
  <2>1. l # <<>> => Report(Head(l)) \in EventSet /\ Report(Head(l)).kind = "preexec"
    BY ShellHookAssumption, HeadOfLine, ReportType
  <2> QED BY <1>5, <2>1 DEF EnterLine
<1>6. ASSUME ExecuteCommand
      PROVE  /\ at = "exec" /\ at' \notin {"rc", "claim"}
             /\ started' = <<>> \/ \E e \in EventSet : e.kind = "preexec" /\ started' = <<e>>
  <2>1. at = "exec" /\ at' = "launch" /\ Debug
    BY <1>6 DEF ExecuteCommand
  <2>2. Report(Head(rest)) \in EventSet /\ Report(Head(rest)).kind = "preexec"
    BY <2>1, HeadOfLine, ReportType DEF LineInv, PlaceInv
  <2> QED BY <2>1, <2>2 DEF Debug
<1>7. CASE Launch \/ EndCommand
  <2>1. ASSUME Launch PROVE at = "launch" /\ at' = "running" /\ started' = <<>>
    BY <2>1 DEF Launch
  <2>2. ASSUME EndCommand PROVE at = "running" /\ at' \in {"draw", "exec"} /\ started' = <<>>
    <3>1. at' = "draw" \/ at' = "exec"
      BY <2>2, Zenon DEF EndCommand
    <3> QED BY <2>2, <3>1, Zenon DEF EndCommand
  <2>3. at \in {"launch", "running"} /\ at' \notin {"rc", "claim"} /\ started' = <<>>
    BY <1>7, <2>1, <2>2
  <2> QED BY <2>3
<1>8. CASE (\E l \in Lines : EnterLine(l)) \/ ExecuteCommand
  <2>1. /\ at \in {"edit", "exec"} /\ at' \notin {"rc", "claim"}
        /\ started' = <<>> \/ \E e \in EventSet : e.kind = "preexec" /\ started' = <<e>>
    BY <1>5, <1>6, <1>8
  <2>2. CASE started' = <<>>
    BY <2>1, <2>2
  <2>3. ASSUME NEW e \in EventSet, e.kind = "preexec", started' = <<e>>
        PROVE  /\ started' \in Seq(EventSet) /\ Last(started').kind # "precmd"
               /\ \A i \in DOMAIN started' : started'[i].kind \in {"precmd", "preexec"}
    <3>1. <<e>> \in Seq(EventSet) /\ Last(<<e>>) = e /\ \A i \in DOMAIN <<e>> : <<e>>[i] = e
      BY FewReports
    <3> QED BY <2>3, <3>1
  <2> QED BY <2>1, <2>2, <2>3
<1> QED BY <1>1, <1>2, <1>3, <1>4, <1>7, <1>8, <1>9 DEF ShellNext, Drawing, Executing

\* Our entry reports the prompt.
LEMMA OursReports ==
  ASSUME RunEntry, Runs(entries)[next] \in Mine
  PROVE  started' # <<>>
<1> DEFINE word == Report(PromptWord)
<1>1. word \in EventSet
  <2>1. PromptWord \in Command
    BY DEF PromptWord, Command, Effect
  <2> QED BY <2>1, ReportType
<1>2. started' = <<>> \o <<PrecmdEvent>> \/ started' = <<word>> \o <<PrecmdEvent>>
  BY DEF RunEntry, Mine, Ours, Buried, Other
<1> HIDE DEF word
<1>3. <<>> \o <<PrecmdEvent>> # <<>> /\ <<word>> \o <<PrecmdEvent>> # <<>>
  BY <1>1, EventTypes, FewReports
<1> QED BY <1>2, <1>3

-----------------------------------------------------------------------------
(* Processes *)

LEMMA StartedProcess ==
  ASSUME NEW e \in EventSet
  PROVE  /\ Started(e) \in Process /\ Started(e).event = e
         /\ Started(e).at = "start" /\ Started(e).at \notin Holding /\ ~IsEnded(Started(e))
BY DEF Started, Process, EventSet, Names, Where, Ended, Holding, IsEnded

(***************************************************************************)
(* New processes come last; of the others, those that have ended are        *)
(* forgotten and the rest are as they were.                                 *)
(***************************************************************************)
LEMMA Spawned ==
  ASSUME procs \in Seq(Process), NEW new \in Seq(EventSet), new # <<>>, Spawn(new)
  PROVE  /\ procs' \in Seq(Process) /\ procs' # <<>> /\ fresh' = FALSE
         /\ Last(procs') = Started(Last(new))
         /\ \A k \in DOMAIN procs' :
              \/ \E j \in DOMAIN new : procs'[k] = Started(new[j])
              \/ \E d \in DOMAIN procs : procs'[k] = procs[d] /\ ~IsEnded(procs[d])
         /\ OneHolder(procs) => OneHolder(procs')
<1> DEFINE D == {i \in DOMAIN procs : ~IsEnded(procs[i])}
           running == SelectAt(procs, D)
           add == [i \in DOMAIN new |-> Started(new[i])]
           n == Cardinality(D)
<1>1. procs' = running \o add /\ fresh' = FALSE
  BY DEF Spawn
<1>2. /\ Len(procs) \in Nat /\ DOMAIN procs = 1 .. Len(procs) /\ D \in SUBSET (DOMAIN procs)
      /\ D \in SUBSET (1 .. Len(procs))
  OBVIOUS
<1>3. /\ n \in Nat
      /\ \A k \in 1 .. n : Nth(D, k) \in D /\ CountUpTo(D, Nth(D, k)) = k
  BY <1>2, NthPlace
<1>4. running \in Seq(Process)
  BY <1>2, SelectAtProperties
<1>5. Len(running) = n /\ \A k \in 1 .. n : running[k] = procs[Nth(D, k)]
  BY <1>3 DEF SelectAt
<1>6. /\ add \in Seq(Process) /\ Len(add) = Len(new) /\ Len(new) \in Nat \ {0}
      /\ DOMAIN new = 1 .. Len(new) /\ \A j \in 1 .. Len(new) : add[j] = Started(new[j])
  <2>1. Len(new) \in Nat \ {0} /\ DOMAIN new = 1 .. Len(new)
    OBVIOUS
  <2>2. \A j \in 1 .. Len(new) : Started(new[j]) \in Process
    BY <2>1, StartedProcess
  <2> QED BY <2>1, <2>2
<1> HIDE DEF running, add, n
<1>7. /\ procs' \in Seq(Process) /\ Len(procs') = n + Len(new)
      /\ DOMAIN procs' = 1 .. n + Len(new)
      /\ \A k \in 1 .. n + Len(new) :
           procs'[k] = IF k <= n THEN running[k] ELSE add[k - n]
  <2>1. /\ procs' \in Seq(Process) /\ Len(procs') = n + Len(new)
        /\ \A k \in 1 .. n + Len(new) : procs'[k] = IF k <= n THEN running[k] ELSE add[k - n]
    <3>1. /\ running \o add \in Seq(Process) /\ Len(running \o add) = n + Len(new)
          /\ \A k \in 1 .. n + Len(new) :
               (running \o add)[k] = IF k <= n THEN running[k] ELSE add[k - n]
      <4>1. Len(running) = n /\ Len(add) = Len(new)
        BY <1>5, <1>6
      <4>2. running \in Seq(Process) /\ add \in Seq(Process)
        BY <1>4, <1>6
      <4>3. /\ running \o add \in Seq(Process)
            /\ Len(running \o add) = Len(running) + Len(add)
            /\ \A k \in 1 .. Len(running) + Len(add) :
                 (running \o add)[k] = IF k <= Len(running) THEN running[k]
                                        ELSE add[k - Len(running)]
        BY <4>2, ConcatProperties, Zenon
      <4> QED BY <4>1, <4>3
    <3> QED BY <1>1, <3>1
  <2> QED BY <2>1
<1>8. ASSUME NEW k \in DOMAIN procs'
      PROVE  \/ k \in 1 .. n /\ procs'[k] = procs[Nth(D, k)]
             \/ k - n \in DOMAIN new /\ procs'[k] = Started(new[k - n])
  <2>1. CASE k <= n
    BY <1>3, <1>5, <1>7, <2>1
  <2>2. CASE ~(k <= n)
    <3>1. k - n \in 1 .. Len(new)
      BY <1>3, <1>6, <1>7, <2>2
    <3> QED BY <1>6, <1>7, <2>2, <3>1
  <2> QED BY <2>1, <2>2
<1>9. Last(procs') = Started(Last(new))
  <2>1. n + Len(new) \in 1 .. n + Len(new) /\ ~(n + Len(new) <= n) /\ n + Len(new) - n = Len(new)
        /\ Len(new) \in 1 .. Len(new)
    BY <1>3, <1>6
  <2> DEFINE m == n + Len(new)
  <2> HIDE DEF m
  <2>2. procs'[m] = add[m - n]
    BY <1>7, <2>1 DEF m
  <2>3. procs'[Len(procs')] = Started(new[Len(new)])
    <3>1. m - n = Len(new) /\ Len(procs') = m /\ Len(new) \in 1 .. Len(new)
      BY <1>3, <1>6, <1>7, <2>1 DEF m
    <3> QED BY <1>6, <2>2, <3>1
  <2> QED BY <2>3 DEF Last
<1>10. ASSUME OneHolder(procs), NEW k \in DOMAIN procs', NEW l \in DOMAIN procs',
              procs'[k].at \in Holding, procs'[l].at \in Holding
       PROVE  k = l
  <2>1. \A j \in DOMAIN new : Started(new[j]).at \notin Holding
    BY StartedProcess
  <2>2. /\ k \in 1 .. n /\ procs'[k] = procs[Nth(D, k)]
        /\ l \in 1 .. n /\ procs'[l] = procs[Nth(D, l)]
    BY <1>8, <1>10, <2>1
  <2>3. Nth(D, k) \in DOMAIN procs /\ Nth(D, l) \in DOMAIN procs
    BY <1>2, <1>3, <2>2
  <2>4. Nth(D, k) = Nth(D, l)
    BY <1>10, <2>2, <2>3 DEF OneHolder
  <2> QED BY <1>3, <2>2, <2>4
<1>11. \A k \in 1 .. n : Nth(D, k) \in DOMAIN procs /\ ~IsEnded(procs[Nth(D, k)])
  BY <1>3
<1>12. procs' # <<>>
  BY <1>3, <1>6, <1>7
<1> QED BY <1>1, <1>7, <1>8, <1>9, <1>10, <1>11, <1>12 DEF OneHolder

-----------------------------------------------------------------------------
(* Names *)

\* An observation is named under the settings, from the programs as they are known.
LEMMA LabelOfSettings ==
  ASSUME NEW e, NEW spelling
  PROVE  LabelOf(Observed(e), spelling) = LabelOf(Settings, Normalized(spelling))
<1>1. /\ Observed(e).shell = LoginShell /\ Observed(e).hide = Hide /\ Observed(e).limit = Limit
      /\ Settings.shell = LoginShell /\ Settings.hide = Hide /\ Settings.limit = Limit
  BY DEF Observed, Settings
<1>2. Normalized(Normalized(spelling)) = Normalized(spelling)
  BY DEF Normalized, Empty, Slash
<1>3. \A shell : Idle(Observed(e), shell) = Idle(Settings, shell)
  BY <1>1 DEF Idle
<1> QED BY <1>1, <1>2, <1>3 DEF LabelOf

\* A shell in front has one name.
LEMMA ShellNamed == NamesOf(Shell) = {IdleName} /\ IdleName # NoName
<1>1. ProgramsOf(Group[Shell]) = {Normalized(LoginShell)}
      /\ Normalized(LoginShell) \in Shells /\ Normalized(LoginShell) \notin DOMAIN Aliases
  BY ObservationAssumption DEF ShellAlone
<1>2. Normalized(LoginShell) \notin {Empty, NoName}
  BY <1>1, NamingAssumption
<1>3. Normalized(Normalized(LoginShell)) = Normalized(LoginShell)
  BY DEF Normalized, Empty, Slash
<1>4. LabelOf(Settings, Normalized(LoginShell)) = IdleName
  BY <1>1, <1>2, <1>3 DEF LabelOf, IdleName, Idle
<1>5. IdleName # NoName
  BY <1>2, NamingAssumption DEF IdleName, Idle, Finish, Empty, NoName
<1> QED BY <1>1, <1>4, <1>5 DEF NamesOf

LEMMA FirstOf ==
  ASSUME NEW S \in SUBSET (Nat \ {0})
  PROVE  First(S) = 0 \/ First(S) \in S
<1>1. CASE S # {}
  <2>1. \E x \in S : \A y \in S : x <= y
    BY <1>1, LeastNat
  <2> QED BY <2>1 DEF First, Min
<1> QED BY <1>1 DEF First

\* Who represents a group is one of its processes.
LEMMA RepresentativePlace ==
  ASSUME NEW g, NEW agent, DOMAIN g.procs \subseteq Nat \ {0}
  PROVE  Representative(g, agent) = 0 \/ Representative(g, agent) \in DOMAIN g.procs
<1> DEFINE found == Searches(g, agent)
           hits  == {k \in DOMAIN found : found[k] # 0}
<1>1. DOMAIN found = 1 .. 5 /\ \A k \in 1 .. 5 : found[k] = 0 \/ found[k] \in DOMAIN g.procs
  <2> DEFINE all == DOMAIN g.procs
             s1 == {i \in all : IsPreferred(g, agent, i)}
             s2 == {i \in all : IsLaunched(g, i)}
             s3 == {i \in all : i = Leader(g) /\ IsOrdinary(g, i)}
             s4 == {i \in all : i # Leader(g) /\ IsOrdinary(g, i)}
             s5 == {i \in all : i = Leader(g) /\ IsShell(ProgramOf(g.procs[i]))}
  <2>1. \A S \in SUBSET all : First(S) = 0 \/ First(S) \in all
    BY FirstOf
  <2>2. s1 \subseteq all /\ s2 \subseteq all /\ s3 \subseteq all /\ s4 \subseteq all /\ s5 \subseteq all
    OBVIOUS
  <2>3. found = <<First(s1), First(s2), First(s3), First(s4), First(s5)>>
    BY DEF Searches
  <2> HIDE DEF s1, s2, s3, s4, s5, all, found
  <2>4. \A f \in {First(s1), First(s2), First(s3), First(s4), First(s5)} : f = 0 \/ f \in all
    BY <2>1, <2>2
  <2>5. /\ DOMAIN found = 1 .. 5
        /\ \A k \in 1 .. 5 : found[k] \in {First(s1), First(s2), First(s3), First(s4), First(s5)}
    BY <2>3
  <2> QED BY <2>4, <2>5 DEF all
<1> HIDE DEF found
<1>2. hits # {} => Min(hits) \in hits
  <2>1. hits \in SUBSET Nat
    BY <1>1
  <2>2. hits # {} => \E x \in hits : \A y \in hits : x <= y
    BY <2>1, LeastNat
  <2> QED BY <2>2 DEF Min
<1>3. hits \subseteq 1 .. 5
  BY <1>1
<1>4. Representative(g, agent) = IF Leader(g) = 0 \/ hits = {} THEN 0 ELSE found[Min(hits)]
  BY DEF Representative, found
<1> HIDE DEF hits
<1> QED BY <1>1, <1>2, <1>3, <1>4

\* What Herdr and the event say of a tab with one pane.
LEMMA ObservedFields ==
  ASSUME NEW e \in EventSet
  PROVE  /\ Observed(e).program = e.program /\ Observed(e).pane = 1 /\ Observed(e).own = {1}
         /\ Observed(e).labelled = {} /\ Observed(e).shell = LoginShell
         /\ Observed(e).shellPid = ShellPid /\ Observed(e).hide = Hide
         /\ Observed(e).limit = Limit /\ Observed(e).group = Group[fg]
         /\ e = PrecmdEvent => Observed(e).kind = "prompt"
<1>1. e = PrecmdEvent => Observed(e).kind = "prompt"
  BY Zenon, EventTypes DEF Observed
<1> QED BY <1>1 DEF Observed

LEMMA NameByOneOfThree ==
  ASSUME NEW o, o.labelled = {}
  PROVE  NameOf(o) \in {NoName, NameByProgram(o), NameByPrompt(o), NameByProcess(o)}
<1>1. ~NamedByPaneLabel(o)
  BY DEF NamedByPaneLabel
<1> QED BY <1>1, Zenon DEF NameOf

(***************************************************************************)
(* A process names the tab after a program in the foreground or not at all, *)
(* and a report of the prompt names it after the shell.                     *)
(***************************************************************************)
LEMMA ComputedName ==
  ASSUME NEW e \in EventSet, fg \in Job \cup {Shell}
  PROVE  /\ NamesOf(fg) \subseteq Names
         /\ Computed(e) \in {NoName} \cup NamesOf(fg)
         /\ fg = Shell /\ e = PrecmdEvent => Computed(e) = IdleName /\ Adopts(e)
<1> DEFINE o == Observed(e)
           g == Group[fg]
<1>1. NamesOf(fg) \subseteq Names
  BY DEF Names
<1>2. /\ o.program = e.program /\ o.pane = 1 /\ o.own = {1} /\ o.labelled = {}
      /\ o.shell = LoginShell /\ o.shellPid = ShellPid /\ o.hide = Hide /\ o.group = g
      /\ o.limit = Limit
      /\ e = PrecmdEvent => o.kind = "prompt"
  BY ObservedFields
<1>3. \A spelling : Normalized(spelling) \in ProgramsOf(g) => LabelOf(o, spelling) \in NamesOf(fg)
  BY LabelOfSettings DEF NamesOf
<1>4. DOMAIN g.procs \subseteq Nat \ {0} /\ (g.id = ShellPid <=> fg = Shell)
  BY ObservationAssumption DEF ShellAlone
<1>5. Idle(o, o.shell) = IdleName
  BY <1>2 DEF IdleName, Idle, Settings
<1> HIDE DEF o, g
<1>6. NameByProgram(o) \in {NoName} \cup NamesOf(fg)
  <2>1. ASSUME GroupMatches(g, o.program) PROVE Normalized(o.program) \in ProgramsOf(g)
    BY <2>1 DEF GroupMatches, SameProgram, ProgramsOf
  <2> QED BY <1>2, <1>3, <2>1 DEF NameByProgram
<1>7. NameByPrompt(o) = IF fg = Shell THEN IdleName ELSE NoName
  BY <1>2, <1>4, <1>5 DEF NameByPrompt
<1>8. NameByProcess(o) \in {NoName} \cup NamesOf(fg)
  <2> DEFINE r == Representative(g, o.agent)
  <2>1. r # 0 => Normalized(ProgramOf(g.procs[r])) \in ProgramsOf(g)
    BY <1>4, RepresentativePlace DEF ProgramsOf
  <2>2. NameByProcess(o) = IF r = 0 \/ (r # 0 /\ IsIgnored(ProgramOf(g.procs[r])))
                           THEN NoName ELSE LabelOf(o, ProgramOf(g.procs[r]))
    BY <1>2 DEF NameByProcess
  <2> HIDE DEF r
  <2> QED BY <1>3, <2>1, <2>2
<1>9. Computed(e) \in {NoName} \cup NamesOf(fg)
  <2>1. NameOf(o) \in {NoName, NameByProgram(o), NameByPrompt(o), NameByProcess(o)}
    BY <1>2, NameByOneOfThree
  <2>2. NameByPrompt(o) \in {NoName} \cup NamesOf(fg)
    BY <1>7, ShellNamed
  <2> QED BY <1>6, <1>8, <2>1, <2>2 DEF Computed, o
<1>10. ASSUME fg = Shell, e = PrecmdEvent PROVE Computed(e) = IdleName
  <2>1. o.kind = "prompt" /\ FromOwnShell(o) /\ ProcessPane(o) = 1
    BY <1>2, <1>10 DEF FromOwnShell, ProcessPane
  <2>2. ~NamedByPaneLabel(o) /\ ProcessPane(o) # NoPane
    BY <1>2, <2>1 DEF NamedByPaneLabel, NoPane
  <2>3. NameOf(o) = NameByPrompt(o)
    <3>1. o.kind # "preexec"
      BY <2>1
    <3> QED BY <2>1, <2>2, <3>1, Zenon DEF NameOf
  <2> QED BY <1>7, <1>10, <2>3 DEF Computed, o
<1>11. e = PrecmdEvent => Adopts(e)
  BY EventTypes DEF Adopts
<1> QED BY <1>1, <1>9, <1>10, <1>11

-----------------------------------------------------------------------------
(* What a process does *)

(***************************************************************************)
(* What a step does to the process at place i and to the name: it goes on   *)
(* without the lock, takes the lock, reads the foreground, commits or ends. *)
(***************************************************************************)
GoesOn(i) ==
  /\ procs'[i].at \in {"settle", "wait", "dropped"}
  /\ fresh' = fresh /\ name' = name

TakesLock(i) ==
  /\ LockFree /\ procs'[i].at \in {"probing", "pass"}
  /\ fresh' = fresh /\ name' = name

Reads(i) ==
  /\ procs[i].at = "pass" /\ procs'[i].at = "commit"
  /\ procs'[i].plan \in {NoName} \cup NamesOf(fg)
  /\ fg = Shell /\ procs[i].event = PrecmdEvent => procs'[i].plan = IdleName
  /\ fresh' = (fresh \/ i = Len(procs)) /\ name' = name

Commits(i) ==
  /\ procs[i].at = "commit" /\ procs'[i].at = "ok"
  /\ i = Len(procs) => procs'[i].plan = procs[i].plan
  /\ name' = IF procs[i].plan = NoName THEN name ELSE procs[i].plan
  /\ fresh' = fresh

Fails(i) ==
  /\ procs'[i].at = "failed"
  /\ \/ name' = name
     \/ procs[i].at = "commit" /\ procs[i].plan # NoName /\ name' = procs[i].plan
  /\ fresh' = fresh

ProcessStep(i) == Step(i) \/ (Abort(i) /\ UNCHANGED <<shellVars, structural, focuses>>)

LEMMA ProcessStepCases ==
  ASSUME procs \in Seq(Process), fg \in Job \cup {Shell},
         NEW i \in DOMAIN procs, ProcessStep(i)
  PROVE  /\ UNCHANGED <<shellVars, structural, focuses>>
         /\ procs' \in Seq(Process) /\ Len(procs') = Len(procs) /\ DOMAIN procs' = DOMAIN procs
         /\ \A j \in DOMAIN procs : j # i => procs'[j] = procs[j]
         /\ procs'[i].event = procs[i].event /\ ~IsEnded(procs[i])
         /\ GoesOn(i) \/ TakesLock(i) \/ Reads(i) \/ Commits(i) \/ Fails(i)
<1>0. UNCHANGED <<shellVars, structural, focuses>>
  BY DEF ProcessStep, Step
<1>1. /\ procs[i] \in Process /\ procs[i].event \in EventSet
      /\ procs[i].plan \in Names
  <2>1. procs[i] \in Process
    OBVIOUS
  <2> QED BY <2>1 DEF Process, EventSet
<1> DEFINE Moved(p) == /\ p \in Process /\ p.event = procs[i].event
                       /\ procs' = [procs EXCEPT ![i] = p]
<1>2. ASSUME NEW w \in Where, NEW pl \in Names
      PROVE  LET p == [procs[i] EXCEPT !.at = w, !.plan = pl]
             IN  p \in Process /\ p.event = procs[i].event /\ p.at = w /\ p.plan = pl
  BY <1>1 DEF Process
<1>3. ASSUME NEW w \in Where, Become(i, w)
      PROVE  \E p : Moved(p) /\ p.at = w /\ p.plan = procs[i].plan
  <2> DEFINE p == [procs[i] EXCEPT !.at = w]
  <2>1. p \in Process /\ p.event = procs[i].event /\ p.at = w /\ p.plan = procs[i].plan
    BY <1>1 DEF Process
  <2>2. procs' = [procs EXCEPT ![i] = p]
    BY <1>3 DEF Become
  <2> QED BY <2>1, <2>2
<1>4. ASSUME NEW p, Moved(p)
      PROVE  /\ procs' \in Seq(Process) /\ Len(procs') = Len(procs) /\ DOMAIN procs' = DOMAIN procs
             /\ \A j \in DOMAIN procs : j # i => procs'[j] = procs[j]
             /\ procs'[i] = p /\ p.event = procs[i].event
  BY <1>4
<1> DEFINE Whole(p) == /\ procs' \in Seq(Process) /\ Len(procs') = Len(procs)
                       /\ DOMAIN procs' = DOMAIN procs
                       /\ \A j \in DOMAIN procs : j # i => procs'[j] = procs[j]
                       /\ procs'[i] = p /\ p.event = procs[i].event
<1>5. \A p : Moved(p) => Whole(p)
  BY <1>4
<1>6. \A w \in Where : Become(i, w) => \E p : Whole(p) /\ p.at = w
  BY <1>3, <1>5
<1>7. /\ {"settle", "wait", "dropped", "probing", "pass", "commit", "ok", "failed"} \subseteq Where
      /\ \A p : IsEnded(p) <=> p.at \in {"ok", "dropped", "failed"}
  BY DEF Where, Ended, Holding, IsEnded
<1> HIDE DEF Moved
<1>12. NoName \in Names
  BY DEF Names
<1>8. CASE Begin(i) \/ DropProbe(i) \/ Settle(i) \/ Admission(i)
  <2>1. /\ ~IsEnded(procs[i]) /\ fresh' = fresh /\ name' = name
        /\ \/ \E w \in {"settle", "wait", "dropped"} : Become(i, w)
           \/ LockFree /\ \E w \in {"probing", "pass"} : Become(i, w)
    BY <1>7, <1>8 DEF Begin, DropProbe, Settle, Admission
  <2>2. CASE \E w \in {"settle", "wait", "dropped"} : Become(i, w)
    <3>1. PICK w \in {"settle", "wait", "dropped"} : Become(i, w)
      BY <2>2
    <3>2. PICK p : Whole(p) /\ p.at = w
      BY <1>6, <1>7, <3>1
    <3> QED BY <1>0, <2>1, <3>2 DEF GoesOn
  <2>3. CASE LockFree /\ \E w \in {"probing", "pass"} : Become(i, w)
    <3>1. PICK w \in {"probing", "pass"} : Become(i, w)
      BY <2>3
    <3>2. PICK p : Whole(p) /\ p.at = w
      BY <1>6, <1>7, <3>1
    <3> QED BY <1>0, <2>1, <2>3, <3>2 DEF TakesLock
  <2> QED BY <2>1, <2>2, <2>3
<1>9. CASE Observe(i)
  <2> DEFINE pl == IF Adopts(procs[i].event) THEN Computed(procs[i].event) ELSE NoName
             p == [procs[i] EXCEPT !.at = "commit", !.plan = pl]
  <2>1. /\ pl \in {NoName} \cup NamesOf(fg) /\ pl \in Names
        /\ fg = Shell /\ procs[i].event = PrecmdEvent => pl = IdleName
    <3>1. /\ NamesOf(fg) \subseteq Names
          /\ Computed(procs[i].event) \in {NoName} \cup NamesOf(fg)
          /\ fg = Shell /\ procs[i].event = PrecmdEvent =>
               Computed(procs[i].event) = IdleName /\ Adopts(procs[i].event)
      BY <1>1, ComputedName
    <3> QED BY <1>12, <3>1
  <2>2. procs' = [procs EXCEPT ![i] = p]
    BY <1>9 DEF Observe
  <2> HIDE DEF pl
  <2>3. p \in Process /\ p.event = procs[i].event /\ p.at = "commit" /\ p.plan = pl
    <3>1. "commit" \in Where
      BY <1>7
    <3> QED BY <1>1, <2>1, <3>1 DEF Process
  <2> HIDE DEF p
  <2>4. Whole(p)
    BY <1>5, <2>2, <2>3 DEF Moved
  <2>5. procs[i].at = "pass" /\ fresh' = (fresh \/ i = Len(procs)) /\ name' = name
    BY <1>9, Zenon DEF Observe
  <2>6. Reads(i)
    BY <2>1, <2>3, <2>4, <2>5 DEF Reads
  <2> QED BY <1>0, <1>7, <2>4, <2>5, <2>6
<1>10. CASE Commit(i)
  <2> DEFINE pl == IF i = Len(procs) THEN procs[i].plan ELSE NoName
             p == [procs[i] EXCEPT !.at = "ok", !.plan = pl]
  <2>1. pl \in Names
    BY <1>1, <1>12
  <2>2. procs' = [procs EXCEPT ![i] = p]
    BY <1>10 DEF Commit
  <2> HIDE DEF pl
  <2>3. p \in Process /\ p.event = procs[i].event /\ p.at = "ok" /\ p.plan = pl
    <3>1. "ok" \in Where
      BY <1>7
    <3> QED BY <1>1, <2>1, <3>1 DEF Process
  <2> HIDE DEF p
  <2>4. Whole(p)
    BY <1>5, <2>2, <2>3 DEF Moved
  <2>5. /\ procs[i].at = "commit" /\ fresh' = fresh
        /\ name' = IF procs[i].plan = NoName THEN name ELSE procs[i].plan
    BY <1>10, Zenon DEF Commit
  <2>6. Commits(i)
    BY <2>3, <2>4, <2>5 DEF Commits, pl
  <2> QED BY <1>0, <1>7, <2>4, <2>5, <2>6
<1>11. CASE Abort(i)
  <2> DEFINE p == [procs[i] EXCEPT !.at = "failed", !.plan = NoName]
  <2>1. procs' = [procs EXCEPT ![i] = p]
    BY <1>11 DEF Abort
  <2>2. p \in Process /\ p.event = procs[i].event /\ p.at = "failed"
    BY <1>2, <1>7, <1>12
  <2> HIDE DEF p
  <2>3. Whole(p)
    BY <1>5, <2>1, <2>2 DEF Moved
  <2>4. /\ ~IsEnded(procs[i]) /\ fresh' = fresh
        /\ \/ name' = name
           \/ procs[i].at = "commit" /\ procs[i].plan # NoName /\ name' = procs[i].plan
    BY <1>11, Zenon DEF Abort
  <2>5. Fails(i)
    BY <2>2, <2>3, <2>4 DEF Fails
  <2> QED BY <1>0, <2>3, <2>4, <2>5
<1> QED BY <1>8, <1>9, <1>10, <1>11 DEF ProcessStep, Step

-----------------------------------------------------------------------------
(* The steps of the processes *)

\* Steps that leave the shell alone.
LEMMA ShellKept ==
  ASSUME ShellInv, UNCHANGED shellVars
  PROVE  ShellInv'
BY DEF ShellInv, ShellTypeOK, shellVars

LEMMA ProcsStep ==
  ASSUME ProcsInv, fg \in Job \cup {Shell}, NEW i \in DOMAIN procs, ProcessStep(i)
  PROVE  ProcsInv'
<1>1. /\ procs' \in Seq(Process) /\ DOMAIN procs' = DOMAIN procs
      /\ \A j \in DOMAIN procs : j # i => procs'[j] = procs[j]
      /\ structural' = structural /\ focuses' = focuses
      /\ GoesOn(i) \/ TakesLock(i) \/ Reads(i) \/ Commits(i) \/ Fails(i)
  BY ProcessStepCases DEF ProcsInv
<1>2. procs'[i].at \in Holding => LockFree \/ procs[i].at \in Holding
  BY <1>1 DEF GoesOn, TakesLock, Reads, Commits, Fails, Holding
<1>3. /\ fresh' \in BOOLEAN
      /\ name' \in Names
  <2>1. procs[i].plan \in Names
    <3>1. procs[i] \in Process
      BY DEF ProcsInv
    <3> QED BY <3>1 DEF Process
  <2>2. fresh' \in {fresh, TRUE} \/ fresh' = (fresh \/ i = Len(procs))
    BY <1>1 DEF GoesOn, TakesLock, Reads, Commits, Fails
  <2>3. name' \in {name, procs[i].plan}
    BY <1>1 DEF GoesOn, TakesLock, Reads, Commits, Fails
  <2> QED BY <2>1, <2>2, <2>3 DEF ProcsInv
<1>4. OneHolder(procs')
  <2> SUFFICES ASSUME NEW j \in DOMAIN procs, NEW k \in DOMAIN procs,
                      procs'[j].at \in Holding, procs'[k].at \in Holding
               PROVE  j = k
    BY <1>1 DEF OneHolder
  <2> QED BY <1>1, <1>2 DEF ProcsInv, OneHolder, LockFree
<1>5. structural' => \A j \in DOMAIN procs' : procs'[j].at \notin Holding
  BY <1>1, <1>2 DEF ProcsInv, LockFree
<1> QED BY <1>1, <1>3, <1>4, <1>5 DEF ProcsInv

LEMMA ClaimStep ==
  ASSUME ProcsInv, ClaimInv, fg \in Job \cup {Shell}, NEW i \in DOMAIN procs, ProcessStep(i)
  PROVE  ClaimInv'
<1>1. /\ DOMAIN procs' = DOMAIN procs /\ at' = at
      /\ \A j \in DOMAIN procs : j # i => procs'[j] = procs[j]
      /\ procs'[i].event = procs[i].event /\ ~IsEnded(procs[i])
      /\ Len(procs') = Len(procs)
  BY ProcessStepCases DEF ProcsInv, shellVars
<1>2. \A j \in DOMAIN procs : /\ procs'[j].event = procs[j].event
                              /\ IsEnded(procs[j]) => IsEnded(procs'[j])
  BY <1>1
<1>3. procs' # <<>>
  BY <1>1 DEF ProcsInv
<1>4. ClaimEnded => ClaimEnded'
  BY <1>1, <1>2 DEF ClaimEnded
<1> QED BY <1>1, <1>2, <1>3, <1>4 DEF ClaimInv

LEMMA FreshStep ==
  ASSUME ProcsInv, FreshInv, fg \in Job \cup {Shell}, NEW i \in DOMAIN procs, ProcessStep(i)
  PROVE  FreshInv'
<1>1. /\ procs' \in Seq(Process) /\ DOMAIN procs' = DOMAIN procs /\ Len(procs') = Len(procs)
      /\ \A j \in DOMAIN procs : j # i => procs'[j] = procs[j]
      /\ fg' = fg
      /\ GoesOn(i) \/ TakesLock(i) \/ Reads(i) \/ Commits(i) \/ Fails(i)
  BY ProcessStepCases DEF ProcsInv, shellVars
<1> DEFINE n == Len(procs)
<1>2. n \in DOMAIN procs /\ procs # <<>> /\ Last(procs) = procs[n] /\ Last(procs') = procs'[n]
  BY <1>1 DEF ProcsInv, Last
<1> HIDE DEF n
<1>3. ASSUME fresh
      PROVE  /\ \A j \in DOMAIN procs : procs[j].at = "commit" => Current(procs[j].plan)
             /\ procs[n].at = "ok" =>
                  Current(procs[n].plan) /\ (procs[n].plan # NoName => name \in NamesOf(fg))
  BY <1>2, <1>3 DEF FreshInv
<1>4. ASSUME fresh'
      PROVE  /\ \A j \in DOMAIN procs : procs'[j].at = "commit" => Current(procs'[j].plan)
             /\ procs'[n].at = "ok" =>
                  Current(procs'[n].plan) /\ (procs'[n].plan # NoName => name' \in NamesOf(fg))
  <2>1. CASE GoesOn(i) \/ TakesLock(i)
    <3>1. procs'[i].at \notin {"commit", "ok"} /\ fresh /\ name' = name
      BY <1>4, <2>1 DEF GoesOn, TakesLock
    <3> QED BY <1>1, <1>2, <1>3, <3>1
  <2>2. CASE Fails(i)
    <3>1. procs'[i].at \notin {"commit", "ok"} /\ fresh
      BY <1>4, <2>2 DEF Fails
    <3>2. name' = name \/ name' \in NamesOf(fg)
      BY <1>3, <3>1, <2>2 DEF Fails, Current
    <3> QED BY <1>1, <1>2, <1>3, <3>1, <3>2
  <2>3. CASE Commits(i)
    <3>1. procs[i].at = "commit" /\ procs'[i].at = "ok" /\ fresh /\ Current(procs[i].plan)
      BY <1>3, <1>4, <2>3 DEF Commits
    <3>2. /\ procs[i].plan = NoName => name' = name
          /\ procs[i].plan # NoName => name' \in NamesOf(fg)
          /\ i = n => procs'[i].plan = procs[i].plan
      BY <3>1, <2>3 DEF Commits, Current, n
    <3> QED BY <1>1, <1>2, <1>3, <3>1, <3>2
  <2>4. CASE Reads(i)
    <3>1. procs[i].at = "pass" /\ procs'[i].at = "commit" /\ Current(procs'[i].plan) /\ name' = name
      BY <2>4 DEF Reads, Current
    <3>2. \A j \in DOMAIN procs : j # i => procs[j].at # "commit"
      BY <3>1 DEF ProcsInv, OneHolder, Holding
    <3>3. n # i => fresh
      BY <1>4, <2>4 DEF Reads, n
    <3> QED BY <1>1, <1>2, <1>3, <3>1, <3>2, <3>3
  <2> QED BY <1>1, <2>1, <2>2, <2>3, <2>4
<1> QED BY <1>1, <1>2, <1>4 DEF FreshInv, Current

LEMMA PromptStep ==
  ASSUME ProcsInv, ShellInv, PromptInv, NEW i \in DOMAIN procs, ProcessStep(i)
  PROVE  PromptInv'
<1>1. /\ procs' \in Seq(Process) /\ DOMAIN procs' = DOMAIN procs /\ Len(procs') = Len(procs)
      /\ \A j \in DOMAIN procs : j # i => procs'[j] = procs[j]
      /\ at' = at /\ entries' = entries /\ next' = next
      /\ procs'[i].event = procs[i].event
      /\ GoesOn(i) \/ TakesLock(i) \/ Reads(i) \/ Commits(i) \/ Fails(i)
  BY ProcessStepCases DEF ProcsInv, ShellInv, ShellTypeOK, shellVars
<1> DEFINE n == Len(procs)
<1>2. n \in DOMAIN procs /\ Last(procs) = procs[n] /\ Last(procs') = procs'[n]
  BY <1>1 DEF ProcsInv, Last
<1> HIDE DEF n
<1>3. Prompted' => Prompted
  BY <1>1 DEF Prompted
<1>4. Prompted => fg = Shell
  BY DEF Prompted, ShellInv
<1>5. fresh => fresh'
  BY <1>1 DEF GoesOn, TakesLock, Reads, Commits, Fails
<1>6. ASSUME Prompted, procs'[n].event = PrecmdEvent, procs'[n].at \in {"commit", "ok"}
      PROVE  fresh' /\ procs'[n].plan = IdleName
  <2>1. procs[n].event = PrecmdEvent
    BY <1>1, <1>2, <1>6
  <2>2. CASE i # n
    BY <1>1, <1>2, <1>5, <1>6, <2>2 DEF PromptInv
  <2>3. CASE i = n
    <3>1. CASE Reads(i)
      BY <1>4, <1>6, <2>1, <2>3, <3>1 DEF Reads, n
    <3>2. CASE Commits(i)
      BY <1>2, <1>5, <1>6, <2>1, <2>3, <3>2 DEF Commits, n, PromptInv
    <3> QED BY <1>1, <1>6, <2>3, <3>1, <3>2 DEF GoesOn, TakesLock, Fails
  <2> QED BY <2>2, <2>3
<1> QED BY <1>2, <1>3, <1>6 DEF PromptInv

-----------------------------------------------------------------------------
(* The steps of the shell, and of who focuses the pane *)

LEMMA ShellStep ==
  ASSUME LineInv, LineInv', ShellInv, ShellNext
  PROVE  ShellInv'
<1> USE DEF ShellInv, ShellTypeOK
<1>1. /\ Well(entries') /\ Len(Runs(entries')) \in Nat
      /\ trap' \in {"none", "foreign", "ours"}
      /\ mode' \in {"unset", "array", "debug", "none"}
      /\ ready' \in BOOLEAN
      /\ at' \in {"rc", "claim", "draw", "edit", "exec", "launch", "running"}
      /\ IsLine(rest') /\ reports' \in Nat
      /\ at' # "draw" => next' = 1
  <2>1. Well(entries)'
    BY DEF LineInv, PlaceInv
  <2>2. Len(Runs(entries')) \in Nat
    BY <2>1, RunsType
  <2> QED BY <2>1, <2>2 DEF LineInv, PlaceInv, ReportInv
<1>2. setup' \in Setup
  BY DEF ShellNext, SourceHook, ClaimReturns, Drawing, RunEntry, RunFramework, ShowPrompt,
         Executing, EnterLine, ExecuteCommand, Launch, EndCommand
<1>3. lines' \in 0 .. MaxLines
  BY ShellHookAssumption
     DEF ShellNext, SourceHook, ClaimReturns, Drawing, RunEntry, RunFramework, ShowPrompt,
         Executing, EnterLine, ExecuteCommand, Launch, EndCommand
<1>4. \/ next' = 1
      \/ next' = next + 1 /\ next <= Len(Runs(entries)) /\ entries' = entries
      \/ next' = next /\ entries' = entries
  <2>1. at' # "draw" \/ at # "draw" => next' = 1
    BY <1>1 DEF LineInv, PlaceInv, ShellNext, SourceHook, ClaimReturns, Drawing, RunEntry,
                RunFramework, ShowPrompt, Executing, EnterLine, ExecuteCommand, Launch, EndCommand
  <2>2. CASE RunEntry
    BY <2>2 DEF RunEntry
  <2>3. CASE RunFramework
    BY <2>3 DEF RunFramework
  <2>4. CASE ~RunEntry /\ ~RunFramework
    BY <1>1, <2>1, <2>4 DEF ShellNext, SourceHook, ClaimReturns, Drawing, ShowPrompt,
                            Executing, EnterLine, ExecuteCommand, Launch, EndCommand
  <2> QED BY <2>2, <2>3, <2>4
<1>5. next' \in 1 .. Len(Runs(entries')) + 1
  BY <1>1, <1>4
<1>6. fg' \in Job \cup {Shell} /\ (at' # "running" => fg' = Shell)
  <2>1. CASE Launch
    <3>1. Head(rest) \in Command
      BY <2>1, HeadOfLine DEF LineInv, PlaceInv, Launch
    <3> QED BY <2>1, <3>1 DEF Launch, Command
  <2>2. CASE EndCommand
    BY <2>2 DEF EndCommand
  <2>3. CASE ~Launch /\ ~EndCommand
    BY <2>3 DEF ShellNext, SourceHook, ClaimReturns, Drawing, RunEntry, RunFramework,
                ShowPrompt, Executing, EnterLine, ExecuteCommand
  <2> QED BY <2>1, <2>2, <2>3
<1> QED BY <1>1, <1>2, <1>3, <1>5, <1>6 DEF Well

\* A prompt is reported when our entry runs, and at no other time.
LEMMA PromptedStep ==
  ASSUME LineInv, LineInv', ShellNext, Prompted'
  PROVE  Prompted \/ (RunEntry /\ Runs(entries)[next] \in Mine)
<1>1. /\ DOMAIN Runs(entries) = 1 .. Len(Runs(entries)) /\ Len(Runs(entries)) \in Nat
      /\ DOMAIN Runs(entries') = 1 .. Len(Runs(entries')) /\ Len(Runs(entries')) \in Nat
      /\ next \in Nat
  <2>1. Well(entries) /\ Well(entries)' /\ next \in Nat
    BY DEF LineInv, PlaceInv
  <2>2. Runs(entries) \in Seq(Entry) /\ Runs(entries') \in Seq(Entry)
    BY <2>1, RunsType
  <2> QED BY <2>1, <2>2
<1>2. CASE RunEntry
  <2>1. at = "draw" /\ at' = "draw" /\ entries' = entries /\ next' = next + 1
    BY <1>2 DEF RunEntry
  <2>2. PICK i \in DOMAIN Runs(entries) : i < next + 1 /\ Runs(entries)[i] \in Mine
    BY <2>1 DEF Prompted
  <2>3. i < next \/ i = next
    BY <1>1, <2>2
  <2> QED BY <1>2, <2>1, <2>2, <2>3 DEF Prompted
<1>3. CASE ShowPrompt
  <2>1. at = "draw" /\ at' = "edit" /\ entries' = entries /\ next > Len(Runs(entries))
    BY <1>3 DEF ShowPrompt
  <2>2. PICK i \in DOMAIN Runs(entries) : Runs(entries)[i] \in Mine
    BY <2>1 DEF Prompted
  <2>3. i < next
    BY <1>1, <2>1, <2>2
  <2> QED BY <2>1, <2>2, <2>3 DEF Prompted
<1>4. CASE RunFramework
  <2>1. at = "draw" /\ at' = at /\ entries' = entries /\ next' = next
    BY <1>4 DEF RunFramework
  <2> QED BY <2>1 DEF Prompted
<1>5. CASE ~Drawing
  <2>1. at' # "edit"
    <3>1. CASE EndCommand
      <4>1. at' = "draw" \/ at' = "exec"
        BY <3>1, Zenon DEF EndCommand
      <4> QED BY <4>1
    <3> QED BY <1>5, <3>1 DEF ShellNext, SourceHook, ClaimReturns, Executing, EnterLine,
                              ExecuteCommand, Launch
  <2>2. at # "draw" /\ next' = next
    BY <1>5 DEF ShellNext, SourceHook, ClaimReturns, Executing, EnterLine,
                ExecuteCommand, Launch, EndCommand
  <2>3. next' = 1
    BY <2>2 DEF LineInv, PlaceInv
  <2>4. \A i \in DOMAIN Runs(entries') : ~(i < 1)
    BY <1>1
  <2> QED BY <2>1, <2>3, <2>4 DEF Prompted
<1> QED BY <1>2, <1>3, <1>4, <1>5 DEF Drawing

\* Where the processes of new are, if any, and where the others still are.
LEMMA SpawnedPlaces ==
  ASSUME procs \in Seq(Process), NEW new \in Seq(EventSet), Spawn(new)
  PROVE  /\ procs' \in Seq(Process)
         /\ OneHolder(procs) => OneHolder(procs')
         /\ \A k \in DOMAIN procs' :
              \/ \E d \in DOMAIN procs : procs'[k] = procs[d]
              \/ \E j \in DOMAIN new : /\ procs'[k].event = new[j]
                                       /\ procs'[k].at \notin Holding
         /\ procs # <<>> \/ new # <<>> => procs' # <<>>
         /\ new = <<>> => procs' = procs /\ fresh' = (fresh /\ fg' = fg)
         /\ new # <<>> => /\ ~fresh'
                          /\ Last(procs').event = Last(new) /\ Last(procs').at = "start"
<1>1. CASE new = <<>>
  BY <1>1 DEF Spawn
<1>2. CASE new # <<>>
  <2>1. /\ \A j \in DOMAIN new : /\ new[j] \in EventSet /\ Started(new[j]).event = new[j]
                                 /\ Started(new[j]).at \notin Holding
        /\ Last(new) \in EventSet
    <3>1. \A j \in DOMAIN new : new[j] \in EventSet
      OBVIOUS
    <3>2. Len(new) \in DOMAIN new
      BY <1>2
    <3> QED BY <3>1, <3>2, StartedProcess DEF Last
  <2>2. Started(Last(new)).event = Last(new) /\ Started(Last(new)).at = "start"
    BY <2>1, StartedProcess
  <2>3. /\ procs' \in Seq(Process) /\ procs' # <<>> /\ fresh' = FALSE
        /\ Last(procs') = Started(Last(new))
        /\ \A k \in DOMAIN procs' :
             \/ \E j \in DOMAIN new : procs'[k] = Started(new[j])
             \/ \E d \in DOMAIN procs : procs'[k] = procs[d] /\ ~IsEnded(procs[d])
        /\ OneHolder(procs) => OneHolder(procs')
    BY <1>2, Spawned
  <2>4. \A k \in DOMAIN procs' :
          \/ \E d \in DOMAIN procs : procs'[k] = procs[d]
          \/ \E j \in DOMAIN new : procs'[k].event = new[j] /\ procs'[k].at \notin Holding
    BY <2>1, <2>3
  <2> QED BY <1>2, <2>2, <2>3, <2>4
<1> QED BY <1>1, <1>2

(***************************************************************************)
(* The processes after new ones were started: in the shell that claims or   *)
(* draws, or for a focus.                                                   *)
(***************************************************************************)
LEMMA SpawnKeeps ==
  ASSUME ProcsInv, FreshInv, NEW new \in Seq(EventSet), Spawn(new),
         structural' = structural, name' = name, focuses' \in 0 .. MaxFocus
  PROVE  ProcsInv' /\ FreshInv'
<1>1. /\ procs' \in Seq(Process) /\ OneHolder(procs')
      /\ \A k \in DOMAIN procs' :
           \/ \E d \in DOMAIN procs : procs'[k] = procs[d]
           \/ procs'[k].at \notin Holding
      /\ new = <<>> => procs' = procs /\ fresh' = (fresh /\ fg' = fg)
      /\ new # <<>> => ~fresh'
  BY SpawnedPlaces DEF ProcsInv
<1>2. structural' => \A k \in DOMAIN procs' : procs'[k].at \notin Holding
  BY <1>1 DEF ProcsInv
<1>3. fresh' \in BOOLEAN
  <2>1. CASE new = <<>>
    BY <1>1, <2>1
  <2>2. CASE new # <<>>
    <3>1. fresh' = FALSE
      BY <2>2, SpawnedPlaces DEF Spawn
    <3> QED BY <3>1
  <2> QED BY <2>1, <2>2
<1>4. ProcsInv'
  BY <1>1, <1>2, <1>3 DEF ProcsInv
<1>5. ASSUME fresh' PROVE procs' = procs /\ fresh /\ fg' = fg
  BY <1>1, <1>5
<1> QED BY <1>4, <1>5 DEF FreshInv, Current

LEMMA FocusStep ==
  ASSUME ObsInv, Focus
  PROVE  ProcsInv' /\ FreshInv' /\ ClaimInv' /\ PromptInv'
<1> DEFINE new == <<FocusEvent>>
<1>1. new \in Seq(EventSet) /\ new # <<>> /\ Last(new) = FocusEvent
      /\ \A j \in DOMAIN new : new[j] = FocusEvent
  BY EventTypes, FewReports
<1>2. Spawn(new) /\ focuses' \in 0 .. MaxFocus /\ structural' = structural /\ name' = name
      /\ at' = at
  BY ObservationAssumption DEF Focus, ObsInv, ProcsInv, shellVars
<1> HIDE DEF new
<1>3. ProcsInv' /\ FreshInv'
  BY <1>1, <1>2, SpawnKeeps DEF ObsInv
<1>4. /\ procs' # <<>>
      /\ \A k \in DOMAIN procs' : \/ \E d \in DOMAIN procs : procs'[k] = procs[d]
                                  \/ procs'[k].event = FocusEvent
      /\ Last(procs').at = "start"
  BY <1>1, <1>2, SpawnedPlaces DEF ObsInv, ProcsInv
<1>5. ClaimEnded => ClaimEnded'
  BY <1>4, EventTypes DEF ClaimEnded
<1>6. ClaimInv'
  BY <1>2, <1>4, <1>5, EventTypes DEF ObsInv, ClaimInv
<1>7. PromptInv'
  BY <1>4 DEF PromptInv
<1> QED BY <1>3, <1>6, <1>7

LEMMA ShellStepsStep ==
  ASSUME ObsInv, LineInv', ShellSteps
  PROVE  ShellInv' /\ ProcsInv' /\ FreshInv' /\ ClaimInv' /\ PromptInv'
<1> DEFINE new == started'
<1>1. /\ ShellNext /\ (at = "claim" => ClaimEnded) /\ Spawn(new)
      /\ structural' = structural /\ name' = name /\ focuses' = focuses
      /\ LineInv /\ ShellInv /\ ProcsInv /\ FreshInv /\ ClaimInv /\ PromptInv
  BY DEF ObsInv, ShellSteps
<1>2. /\ new \in Seq(EventSet)
      /\ at = "rc" => new = <<InitEvent>> /\ at' = "claim"
      /\ at = "claim" => new = <<>>
      /\ at \notin {"rc", "claim"} =>
           /\ at' \notin {"rc", "claim"}
           /\ \A j \in DOMAIN new : new[j].kind \in {"precmd", "preexec"}
      /\ new # <<>> => Last(new).kind # "precmd" \/ (RunEntry /\ Runs(entries)[next] \in Mine)
  BY <1>1, StartedType
<1> HIDE DEF new
<1>3. ShellInv'
  BY <1>1, ShellStep
<1>4. ProcsInv' /\ FreshInv'
  BY <1>1, <1>2, SpawnKeeps DEF ProcsInv
<1>5. /\ procs' \in Seq(Process)
      /\ \A k \in DOMAIN procs' :
           \/ \E d \in DOMAIN procs : procs'[k] = procs[d]
           \/ \E j \in DOMAIN new : procs'[k].event = new[j]
      /\ procs # <<>> \/ new # <<>> => procs' # <<>>
      /\ new = <<>> => procs' = procs /\ fresh' = (fresh /\ fg' = fg)
      /\ new # <<>> => Last(procs').at = "start"
  BY <1>1, <1>2, SpawnedPlaces DEF ProcsInv
<1>6. ClaimInv'
  <2>1. CASE at = "rc"
    <3>1. new = <<InitEvent>> /\ new # <<>> /\ (\A j \in DOMAIN new : new[j] = InitEvent)
      <4>1. InitEvent \in EventSet /\ new = <<InitEvent>>
        BY <1>2, <2>1, EventTypes
      <4>2. <<InitEvent>> # <<>> /\ \A j \in DOMAIN <<InitEvent>> : <<InitEvent>>[j] = InitEvent
        BY <4>1, FewReports
      <4> QED BY <4>1, <4>2
    <3>2. \A k \in DOMAIN procs' : procs'[k].event.kind \notin {"precmd", "preexec"}
      BY <1>1, <1>5, <2>1, <3>1, EventTypes DEF ClaimInv
    <3> QED BY <1>2, <1>5, <2>1, <3>1, <3>2 DEF ClaimInv
  <2>2. CASE at = "claim"
    BY <1>1, <1>2, <1>5, <2>2 DEF ClaimInv, ClaimEnded, ShellNext, SourceHook, ClaimReturns,
       Drawing, RunEntry, RunFramework, ShowPrompt, Executing, EnterLine, ExecuteCommand,
       Launch, EndCommand
  <2>3. CASE at \notin {"rc", "claim"}
    <3>1. ClaimEnded'
      BY <1>1, <1>2, <1>5, <2>3 DEF ClaimInv, ClaimEnded
    <3> QED BY <1>1, <1>2, <1>5, <2>3, <3>1 DEF ClaimInv
  <2> QED BY <2>1, <2>2, <2>3
<1>7. PromptInv'
  <2> SUFFICES ASSUME Prompted', Last(procs').event = PrecmdEvent,
                      Last(procs').at \in {"commit", "ok"}
               PROVE  fresh' /\ Last(procs').plan = IdleName
    BY DEF PromptInv
  <2>1. new = <<>>
    BY <1>5
  <2>2. Prompted
    <3>1. ~(RunEntry /\ Runs(entries)[next] \in Mine)
      BY <2>1, OursReports DEF new
    <3> QED BY <1>1, <3>1, PromptedStep
  <2>3. at' \in {"draw", "edit"} /\ at \in {"draw", "edit"}
    BY <2>2 DEF Prompted
  <2>4. fg' = fg
    BY <1>1, <1>3, <2>3 DEF ShellInv
  <2> QED BY <1>1, <1>5, <2>1, <2>2, <2>4 DEF PromptInv
<1> QED BY <1>3, <1>4, <1>6, <1>7

-----------------------------------------------------------------------------
(* The invariant *)

LEMMA ObsInit == Init => ObsInv
<1> SUFFICES ASSUME Init PROVE ObsInv
  OBVIOUS
<1>1. LineInv
  BY LineInit DEF Init
<1>2. /\ procs = <<>> /\ fresh = FALSE /\ structural = FALSE /\ name = NoName /\ focuses = 0
      /\ at = "rc" /\ fg = Shell /\ next = 1 /\ rest = <<>> /\ lines = 0 /\ setup \in Setups
  BY DEF Init, ShellInit
<1>3. DOMAIN procs = {} /\ procs \in Seq(Process)
  BY <1>2
<1>4. ShellInv
  <2>1. Well(entries) /\ Len(Runs(entries)) \in Nat
    BY <1>1, RunsType DEF LineInv, PlaceInv
  <2>2. next \in 1 .. Len(Runs(entries)) + 1 /\ lines \in 0 .. MaxLines /\ setup \in Setup
    BY <1>2, <2>1, ShellHookAssumption
  <2> QED BY <1>1, <1>2, <2>1, <2>2
          DEF ShellInv, ShellTypeOK, LineInv, PlaceInv, ReportInv, Well
<1>5. ProcsInv
  <2>1. OneHolder(procs) /\ \A i \in DOMAIN procs : procs[i].at \notin Holding
    BY <1>3, Zenon DEF OneHolder
  <2>2. 0 \in 0 .. MaxFocus
    BY ObservationAssumption
  <2> QED BY <1>2, <1>3, <2>1, <2>2 DEF ProcsInv, Names
<1> QED BY <1>1, <1>2, <1>3, <1>4, <1>5 DEF ObsInv, ClaimInv, FreshInv, PromptInv, Prompted

LEMMA ObsStep == ObsInv /\ [Next]_vars => ObsInv'
<1> SUFFICES ASSUME ObsInv, [Next]_vars PROVE ObsInv'
  OBVIOUS
<1>1. LineInv'
  BY LineStepAmong DEF ObsInv
<1>2. fg \in Job \cup {Shell}
  BY DEF ObsInv, ShellInv, ShellTypeOK
<1>3. ASSUME NEW i \in DOMAIN procs, ProcessStep(i) PROVE ObsInv'
  <2>1. ShellInv'
    BY <1>2, <1>3, ProcessStepCases, ShellKept DEF ObsInv, ProcsInv
  <2>2. ProcsInv' /\ ClaimInv' /\ FreshInv' /\ PromptInv'
    BY <1>2, <1>3, ProcsStep, ClaimStep, FreshStep, PromptStep DEF ObsInv
  <2> QED BY <1>1, <2>1, <2>2 DEF ObsInv
<1>4. CASE StructuralPass
  <2>1. /\ UNCHANGED <<shellVars, procs, fresh, name, focuses>> /\ structural' = ~structural
        /\ structural \/ LockFree
    BY <1>4 DEF StructuralPass
  <2>2. ShellInv'
    BY <2>1, ShellKept DEF ObsInv
  <2>3. ProcsInv'
    BY <2>1 DEF ObsInv, ProcsInv, LockFree
  <2>4. ClaimInv' /\ FreshInv' /\ PromptInv'
    BY <2>1 DEF ObsInv, ClaimInv, ClaimEnded, FreshInv, Current, PromptInv, Prompted, shellVars
  <2> QED BY <1>1, <2>2, <2>3, <2>4 DEF ObsInv
<1>5. CASE Focus
  <2>1. ShellInv'
    BY <1>5, ShellKept DEF ObsInv, Focus
  <2> QED BY <1>1, <1>5, <2>1, FocusStep DEF ObsInv
<1>6. CASE ShellSteps
  BY <1>1, <1>6, ShellStepsStep DEF ObsInv
<1>7. CASE UNCHANGED vars
  <2>1. ShellInv'
    BY <1>7, ShellKept DEF ObsInv, vars
  <2>2. ProcsInv' /\ ClaimInv' /\ FreshInv' /\ PromptInv'
    BY <1>7 DEF ObsInv, ProcsInv, ClaimInv, ClaimEnded, FreshInv, Current, PromptInv,
                Prompted, vars, obsVars, shellVars
  <2> QED BY <1>1, <2>1, <2>2 DEF ObsInv
<1> QED BY <1>3, <1>4, <1>5, <1>6, <1>7 DEF Next, ProcessStep, AtPrompt, ShellIdle, vars

LEMMA ObsInvariant == Spec => []ObsInv
BY ObsInit, ObsStep, PTL DEF Spec

-----------------------------------------------------------------------------
(* Theorems *)

(***************************************************************************)
(* The types, and the lock: at any time at most one of the observations and *)
(* the structural passes holds reconcile.lock.                              *)
(***************************************************************************)
THEOREM ObservationTypes == Spec => []ObservationTypeOK
<1>1. ASSUME ObsInv PROVE ObservationTypeOK
  <2> DEFINE H == {i \in DOMAIN procs : procs[i].at \in Holding}
  <2>1. \A i, j \in H : i = j
    BY <1>1 DEF ObsInv, ProcsInv, OneHolder
  <2>2. structural => H = {}
    BY <1>1 DEF ObsInv, ProcsInv
  <2>3. H = {} \/ \E i : H = {i}
    BY <2>1
  <2>4. Cardinality(H) = 0 \/ (Cardinality(H) = 1 /\ ~structural)
    BY <2>2, <2>3, FS_EmptySet, FS_Singleton
  <2>5. Cardinality(H) + (IF structural THEN 1 ELSE 0) <= 1
    BY <2>4
  <2> QED BY <1>1, <2>5 DEF ObsInv, ShellInv, ProcsInv, ObservationTypeOK
<1> QED BY <1>1, ObsInvariant, PTL

(***************************************************************************)
(* The startup file waits for its claim, so that no report overtakes it.    *)
(***************************************************************************)
THEOREM NoReportOvertakesClaim == Spec => []ClaimFirst
<1>1. ObsInv => ClaimFirst
  BY DEF ObsInv, ClaimInv, ClaimFirst
<1> QED BY <1>1, ObsInvariant, PTL

(***************************************************************************)
(* However many older processes settle, wait and commit after the newest    *)
(* has named the tab, the name is that of a program in the foreground as    *)
(* long as the foreground stays what it was.                                *)
(***************************************************************************)
THEOREM NameStaysInFront == Spec => []NameIsInFront
<1>1. ObsInv => NameIsInFront
  BY DEF ObsInv, FreshInv, NameIsInFront
<1> QED BY <1>1, ObsInvariant, PTL

(***************************************************************************)
(* A stale name at a prompt has two causes only: its observation was        *)
(* dropped, or it failed.                                                   *)
(***************************************************************************)
THEOREM PromptsAreNamed == Spec => []PromptNamed
<1>1. ASSUME ObsInv, at = "edit", \E i \in DOMAIN Runs(entries) : Runs(entries)[i] \in Mine,
             Last(procs).event = PrecmdEvent, Last(procs).at = "ok"
      PROVE  name = IdleName
  <2>1. fresh /\ Last(procs).plan = IdleName
    BY <1>1 DEF ObsInv, PromptInv, Prompted
  <2>2. procs # <<>> /\ fg = Shell
    BY <1>1 DEF ObsInv, ClaimInv, ShellInv
  <2> QED BY <1>1, <2>1, <2>2, ShellNamed DEF ObsInv, FreshInv
<1>2. ObsInv => PromptNamed
  BY <1>1 DEF PromptNamed
<1> QED BY <1>2, ObsInvariant, PTL
=============================================================================
