----------------------------- MODULE MCPolicies -----------------------------
(* Every label of at most five tokens; every group of at most three         *)
(* processes in the only pane of a tab, of at most two with the programs    *)
(* and the limits that matter to the label alone; and every arrangement of  *)
(* panes with a program in each.                                            *)
EXTENDS Policies

MaxTokens == 5
Tokens    == {Num(1), Num(12), Space, Digits, Word(0)}
AllLabels == UNION {[1 .. n -> Tokens] : n \in 0 .. MaxTokens}

MCShells  == {"zsh"}
MCIgnored == {"git", "ls"}
MCAliases == [p \in {"ls", "top"} |-> IF p = "ls" THEN "files" ELSE Empty]

Programs == {"zsh", "vim", "git", "ls", "top", Slash}

\* Three characters are enough for every program and not for the alias of ls.
MCShortened == [x \in {<<3, "files">>} |-> "fil"]

\* Process i of a group: reported by argv0, with one argument if it leads.
Proc(i, program, argument) ==
  [pid |-> i, name |-> "vim", argv0 |-> <<program>>, argv |-> <<program>> \o argument]

\* A process of which Herdr knows the executable or argv only.
Silent(i, argv) == [pid |-> i, name |-> "zsh", argv0 |-> <<Empty>>, argv |-> argv]

Procs(n, programs, argument) ==
  {[i \in 1 .. n |-> Proc(i, f[i], argument)] : f \in [1 .. n -> programs]}
    \cup {[i \in 1 .. n |-> Silent(i, argv)] : argv \in {<<>>, <<Empty>>, <<"vim">>}}

GroupsOf(n, programs, argument) == [id : 0 .. n, procs : Procs(n, programs, argument)]

Groups      == UNION {GroupsOf(n, Programs, argument) :
                        n \in 0 .. 2, argument \in {<<>>, <<"vim">>, <<"git">>}}
LargeGroups == GroupsOf(3, Programs \ {"top"}, <<"vim">>)

OnePane(kind, program, g, agent, hide, limit) ==
  [kind |-> kind, pane |-> 1, own |-> {1}, labelled |-> {1}, focused |-> 1, front |-> TRUE,
   program |-> program, shell |-> "zsh", shellPid |-> 1, group |-> g, agent |-> agent,
   hide |-> hide, limit |-> limit]

OfGroups(groups, hide, limit) ==
  {OnePane("preexec", program, g, NoName, hide, limit) : program \in Programs, g \in groups}
  \cup {OnePane("prompt", "zsh", g, NoName, hide, limit) : g \in groups}
  \cup {OnePane("focus", "zsh", g, agent, hide, limit) :
     g \in groups, agent \in {NoName, "vim", "ls"}}

Vim == [id |-> 1, procs |-> <<Proc(1, "vim", <<>>)>>]

OfPanes(group) ==
  {o \in [kind : {"preexec", "prompt", "sample", "focus", "other"}, pane : 1 .. 3,
          own : SUBSET {1, 2} \ {{}}, labelled : SUBSET {1, 2}, focused : 0 .. 3,
          front : BOOLEAN, program : {"vim"}, shell : {"zsh"}, shellPid : {1, 2},
          group : {group}, agent : {NoName}, hide : {FALSE}, limit : {24}] :
     o.focused \in o.own => o.front}

MCObservations ==
  UNION ({OfGroups(groups, hide, 24) : groups \in {Groups, LargeGroups}, hide \in BOOLEAN}
           \cup {OfGroups(Groups, FALSE, limit) : limit \in {0, 3}}
           \cup {OfPanes(Vim)})
=============================================================================
