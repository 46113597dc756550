---------------------------- MODULE MCObservation ----------------------------
(* Instances of Observation for TLC.                                        *)
EXTENDS Observation

MCShells    == {"zsh"}
MCIgnored   == {"git"}
MCAliases   == [p \in {} |-> p]
MCShortened == [x \in {} |-> x]

MCProgram == {"npx", "vim", "git"}
MCJob     == {"npx", "vim", "git"}

Process1(pid, argv) == [pid |-> pid, name |-> Head(argv), argv0 |-> <<Head(argv)>>, argv |-> argv]
Alone(pid, program) == [id |-> pid, procs |-> <<Process1(pid, <<program>>)>>]

\* npx is a script of node and starts an agent, which Herdr detects.
MCGroup == [j \in MCJob \cup {Shell} |->
  CASE j = Shell -> Alone(1, "zsh")
    [] j = "npx" -> [id |-> 2, procs |-> <<Process1(2, <<"node", "npx">>),
                                          Process1(3, <<"codex">>)>>]
    [] OTHER     -> Alone(4, j)]
MCAgent == [j \in MCJob \cup {Shell} |-> IF j = "npx" THEN "codex" ELSE NoName]

Cmd(word, job, does) == [word |-> word, job |-> job, does |-> does]
ByName(p)  == Cmd(p, p, "nothing")          \* the executable
ByAlias(p) == Cmd(Sample, p, "nothing")     \* a function or an alias of it
Builtin(d) == Cmd(Sample, Shell, d)

\* Enter alone, a program by name, an alias for two commands of which the second is
\* an ignored program, and everything that changes the prompt (reload is replace and
\* source_hook in one line).
MCLines == {<<>>, <<ByName("npx")>>, <<ByAlias("vim"), ByName("git")>>}
             \cup {<<Builtin(d)>> : d \in Effect \ {"nothing", "reload"}}

Prompt(declared, functions, array, prompt) ==
  [declared |-> declared, functions |-> functions, array |-> array, prompt |-> prompt]
NoPrompt == Prompt(FALSE, <<>>, FALSE, <<>>)

\* bash as it comes, with a DEBUG trap of the user that functions inherit, and zsh.
Bash == [zsh |-> FALSE, preexec |-> FALSE, functrace |-> FALSE, foreign |-> FALSE,
         entries |-> NoPrompt]
MCSetups == {
  Bash,
  [Bash EXCEPT !.foreign = TRUE, !.functrace = TRUE],
  [Bash EXCEPT !.zsh = TRUE, !.preexec = TRUE, !.entries = Prompt(TRUE, <<>>, FALSE, <<>>)] }

\* A DEBUG trap of the user that functions inherit or do not.
ForeignSetups == {[Bash EXCEPT !.foreign = TRUE, !.functrace = seen] : seen \in BOOLEAN}
=============================================================================
