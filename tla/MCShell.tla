------------------------------- MODULE MCShell -------------------------------
(* Lines for model checking Shell: blocks of a few commands joined by     *)
(* ';' or '|', at most three blocks a line.                                *)
EXTENDS Shell

Echo(n) == [name |-> "echo", n |-> n]   \* echo, or true when n = 0
Cat == [name |-> "cat", n |-> 0]
History == [name |-> "history", n |-> 0]
Cd(ok) == [name |-> "cd", n |-> ok]
Quit == [name |-> "quit", n |-> 0]
Empty == [name |-> "", n |-> 0]

(* The line c[1] s c[2] s ... c[k]: every separator is s.                  *)
Joined(c, s) ==
  [i \in 1 .. Len(c) |-> [cmd |-> c[i], sep |-> IF i = Len(c) THEN "\n" ELSE s]]

(* Lines of 1 to k blocks, commands from C, all joined by s.              *)
LinesOf(C, s, k) ==
  {Joined(c, s) : c \in UNION {[1 .. j -> C] : j \in 1 .. k}}

AnyCommand == {Echo(1), Echo(2), Cat, History, Cd(1), Cd(0), Quit, Empty}

(* Pipelines and ';'-lists of any commands, of one or two blocks, and     *)
(* three-stage pipelines of the commands that print.                      *)
PlainLines ==
  LinesOf(AnyCommand, "|", 2) \cup LinesOf(AnyCommand, ";", 2)
  \cup {Joined(c, "|") : c \in [1 .. 3 -> {Echo(1), Echo(2), Cat, History}]}

(* echo a ; echo b | cat   and   echo a | echo b ; cat                    *)
LeakLine ==
  {<<[cmd |-> Echo(1), sep |-> ";"], [cmd |-> Echo(1), sep |-> "|"],
     [cmd |-> Cat, sep |-> "\n"]>>,
   <<[cmd |-> Echo(1), sep |-> "|"], [cmd |-> Echo(1), sep |-> ";"],
     [cmd |-> Cat, sep |-> "\n"]>>}
(* true | cat, and a stage printing more than the pipe holds piped into  *)
(* cat.                                                                      *)
HangLines == {Joined(<<Echo(0), Cat>>, "|"), Joined(<<Echo(3), Cat>>, "|")}
=============================================================================
