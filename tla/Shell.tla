-------------------------------- MODULE Shell --------------------------------
(***************************************************************************)
(* myShell's line executor (src/myShell/hw1.c): executeLine walks a line  *)
(* block by block, executeCommand runs each block in the shell or in a    *)
(* forked child, and the children of a line talk to the shell through     *)
(* one pipe, from_child_pipefd, of bounded capacity.  At every '|' the    *)
(* shell waits for all its children and then makes ONE read of that pipe *)
(* into output_buffer; a later block that is not the first one gets       *)
(* output_buffer as its standard input.                                    *)
(*                                                                         *)
(* Output is abstracted to units: a unit is tagged with the block that    *)
(* wrote it, and PipeCap units fill a pipe.  A command is a record        *)
(* [name, n]: "echo" prints n units and ignores its input, "cat" copies   *)
(* its input, "history" prints one unit per history entry, "cd" with n = 1 *)
(* names an existing directory and with n = 0 one that does not, "quit"   *)
(* ends the shell and "" is an empty block.  A child is one process; the  *)
(* shell is another.                                                       *)
(***************************************************************************)
EXTENDS Integers, Sequences, FiniteSets

CONSTANTS
  PipeCap,            \* units a pipe holds before write() blocks
  Lines,              \* the lines the shell may read, sequences of blocks
  MaxLines            \* lines read before end of input

ASSUME PipeCap \in Nat \ {0} /\ MaxLines \in Nat

MaxBlocks == CHOOSE m \in {Len(l) : l \in Lines} : \A l \in Lines : Len(l) <= m
Idx == 1 .. MaxBlocks
Commands == UNION {{l[i].cmd : i \in 1 .. Len(l)} : l \in Lines}

(* What a block's standard input is: the terminal, or a pipe holding data. *)
Terminal == [from |-> "tty", data |-> <<>>]
NotForked == [from |-> "none", data |-> <<>>]

VARIABLES
  ppc,        \* the shell: "prompt", "exec", "wait", "read", "wait_end",
              \* "quit", "exited", "failed"
  line,       \* the line being executed
  pos,        \* the block executeLine is at
  seen,       \* seen_pipe_count
  pids,       \* child_pids[0 .. child_pids_size)
  waitIdx,    \* the loop index of waitForAllChildProcesses
  child,      \* per block of the line: its child process
  pipe,       \* from_child_pipefd's contents, as writer tags
  outbuf,     \* output_buffer
  history,    \* the history queue
  nlines,     \* lines read so far
  got,        \* per block: the standard input its child was given
  produced    \* per block: units its child has written

vars == <<ppc, line, pos, seen, pids, waitIdx, child, pipe, outbuf, history,
          nlines, got, produced>>

NoChild == [st |-> "none", left |-> 0, dest |-> "tty"]

Init ==
  /\ ppc = "prompt"
  /\ line = <<>>
  /\ pos = 1
  /\ seen = 0
  /\ pids = <<>>
  /\ waitIdx = 1
  /\ child = [i \in Idx |-> NoChild]
  /\ pipe = <<>>
  /\ outbuf = <<>>
  /\ history = <<>>
  /\ nlines = 0
  /\ got = [i \in Idx |-> NotForked]
  /\ produced = [i \in Idx |-> 0]

-----------------------------------------------------------------------------
(* executeLine: the pipe, the count of '|' and the flags of each block.   *)
PipeCount(l) == Cardinality({i \in 1 .. Len(l) : l[i].sep = "|"})

IsFirstBlock == seen = 0
IsLastBlockOffByOne == seen + 1 = PipeCount(line)
IsLastBlock == seen = PipeCount(line)

(* The shell reads a line (getchar or fgets) and executeLine makes the    *)
(* pipe.                                                                    *)
ReadLine ==
  /\ ppc = "prompt"
  /\ nlines < MaxLines
  /\ \E l \in Lines : line' = l
  /\ nlines' = nlines + 1
  /\ ppc' = "exec"
  /\ pos' = 1
  /\ seen' = 0
  /\ pipe' = <<>>
  /\ child' = [i \in Idx |-> NoChild]
  /\ got' = [i \in Idx |-> NotForked]
  /\ produced' = [i \in Idx |-> 0]
  /\ UNCHANGED <<pids, waitIdx, outbuf, history>>

(* End of input: shellMode or batchMode returns, main dequeues and frees  *)
(* every history entry and returns.                                        *)
EndOfInput ==
  /\ ppc = "prompt"
  /\ nlines = MaxLines
  /\ ppc' = "exited"
  /\ history' = <<>>
  /\ UNCHANGED <<line, pos, seen, pids, waitIdx, child, pipe, outbuf, nlines,
                 got, produced>>

(* enqueue(&history, command_copy): the history queue appends at its rear. *)
Enqueue(cmd) == history' = Append(history, cmd)

(* executeLine's continuation with the wait at a '|' left out: the shell *)
(* reads the pipe at once.                                                  *)
ContinueNoWait(b) ==
  /\ pos' = pos + 1
  /\ CASE b.sep = ";"  -> ppc' = "exec" /\ seen' = seen
       [] b.sep = "|"  -> ppc' = "read" /\ seen' = seen + 1
       [] b.sep = "\n" -> ppc' = "wait_end" /\ seen' = seen

(* What executeLine does once executeCommand has returned: go on after a   *)
(* ';', count a '|' and wait for the children, or after the last block    *)
(* wait for them and close the pipe.                                        *)
Continue(b) ==
  /\ pos' = pos + 1
  /\ CASE b.sep = ";"  -> ppc' = "exec" /\ seen' = seen
       [] b.sep = "|"  -> ppc' = "wait" /\ seen' = seen + 1
       [] b.sep = "\n" -> ppc' = "wait_end" /\ seen' = seen

Block == line[pos]

(* executeCommand on a block that trims to nothing returns at once.       *)
ExecEmpty ==
  /\ ppc = "exec"
  /\ Block.cmd.name = ""
  /\ Continue(Block)
  /\ UNCHANGED <<line, pids, waitIdx, child, pipe, outbuf, history, nlines,
                 got, produced>>

(* cd runs in the shell: chdir, or perror and _exit when it fails.        *)
ExecCd ==
  /\ ppc = "exec"
  /\ Block.cmd.name = "cd"
  /\ Enqueue(Block.cmd)
  /\ IF Block.cmd.n = 1
       THEN Continue(Block)
       ELSE ppc' = "failed" /\ UNCHANGED <<pos, seen>>
  /\ UNCHANGED <<line, pids, waitIdx, child, pipe, outbuf, nlines, got,
                 produced>>

(* quit waits for every child and exits.                                   *)
ExecQuit ==
  /\ ppc = "exec"
  /\ Block.cmd.name = "quit"
  /\ Enqueue(Block.cmd)
  /\ ppc' = "quit"
  /\ UNCHANGED <<line, pos, seen, pids, waitIdx, child, pipe, outbuf, nlines,
                 got, produced>>

(* What a child prints: echo its units, cat its input, history the queue. *)
Output(cmd, input, hist) ==
  CASE cmd.name = "echo"    -> cmd.n
    [] cmd.name = "cat"     -> Len(input.data)
    [] cmd.name = "history" -> Len(hist)

(* Any other command: enqueue it and fork (createChildProcess; its check   *)
(* of a full child_pids cannot fail, as a line of at most 250 characters  *)
(* has at most 126 blocks and child_pids holds 128).  The child's stdout  *)
(* is the pipe unless it is the last block; unless it is the first block, *)
(* its stdin is a new pipe it fills with output_buffer itself.             *)
ExecFork ==
  /\ ppc = "exec"
  /\ Block.cmd.name \in {"echo", "cat", "history"}
  /\ Enqueue(Block.cmd)
  /\ LET input == IF IsFirstBlock THEN Terminal
                  ELSE [from |-> "pipe", data |-> outbuf]
     IN  /\ pids' = Append(pids, pos)
         /\ got' = [got EXCEPT ![pos] = input]
         /\ child' = [child EXCEPT ![pos] =
              [st   |-> IF IsFirstBlock THEN "run" ELSE "feed",
               left |-> Output(Block.cmd, input, history'),
               dest |-> IF IsLastBlock THEN "tty" ELSE "pipe"]]
         /\ Continue(Block)
  /\ UNCHANGED <<line, waitIdx, pipe, outbuf, nlines, produced>>

(* waitForAllChildProcesses: waitpid(child_pids[i]) returns once that     *)
(* child has exited.                                                        *)
Reap ==
  /\ ppc \in {"wait", "wait_end", "quit"}
  /\ waitIdx <= Len(pids)
  /\ child[pids[waitIdx]].st = "exited"
  /\ child' = [child EXCEPT ![pids[waitIdx]].st = "reaped"]
  /\ waitIdx' = waitIdx + 1
  /\ UNCHANGED <<ppc, line, pos, seen, pids, pipe, outbuf, history, nlines,
                 got, produced>>

(* The loop is over: child_pids_size = 0, and the caller goes on: the     *)
(* read at a '|', the close of the pipe and resetLineInfo after the last  *)
(* block, exit after quit.                                                  *)
WaitDone ==
  /\ ppc \in {"wait", "wait_end", "quit"}
  /\ waitIdx > Len(pids)
  /\ pids' = <<>>
  /\ waitIdx' = 1
  /\ ppc' = CASE ppc = "wait"     -> "read"
              [] ppc = "wait_end" -> "prompt"
              [] ppc = "quit"     -> "exited"
  /\ UNCHANGED <<line, pos, seen, child, pipe, outbuf, history, nlines, got,
                 produced>>

(* copyProcessOutputToBuffer: one read of up to BUFFER_SIZE bytes, which   *)
(* returns what the pipe holds (never more than its capacity, less than   *)
(* BUFFER_SIZE) and blocks while it is empty, for the shell itself holds  *)
(* the write end open.                                                       *)
ReadPipe ==
  /\ ppc = "read"
  /\ pipe # <<>>
  /\ outbuf' = pipe
  /\ pipe' = <<>>
  /\ ppc' = "exec"
  /\ UNCHANGED <<line, pos, seen, pids, waitIdx, child, history, nlines, got,
                 produced>>

(* A child that is not the first block: copyBufferToProcessInput writes   *)
(* output_buffer into its own new pipe, which blocks if it does not fit.  *)
Feed(i) ==
  /\ child[i].st = "feed"
  /\ Len(got[i].data) <= PipeCap
  /\ child' = [child EXCEPT ![i].st = "run"]
  /\ UNCHANGED <<ppc, line, pos, seen, pids, waitIdx, pipe, outbuf, history,
                 nlines, got, produced>>

(* A write that does not wait for room in the pipe.                         *)
WriteUnbounded(i) ==
  /\ child[i].st = "run"
  /\ child[i].left > 0
  /\ pipe' = IF child[i].dest = "pipe" THEN Append(pipe, i) ELSE pipe
  /\ child' = [child EXCEPT ![i].left = @ - 1]
  /\ produced' = [produced EXCEPT ![i] = @ + 1]
  /\ UNCHANGED <<ppc, line, pos, seen, pids, waitIdx, outbuf, history, nlines,
                 got>>

(* The child's program writes one unit to its stdout: the terminal takes  *)
(* it, the pipe only while it has room.                                     *)
Write(i) ==
  /\ child[i].st = "run"
  /\ child[i].left > 0
  /\ child[i].dest = "pipe" => Len(pipe) < PipeCap
  /\ pipe' = IF child[i].dest = "pipe" THEN Append(pipe, i) ELSE pipe
  /\ child' = [child EXCEPT ![i].left = @ - 1]
  /\ produced' = [produced EXCEPT ![i] = @ + 1]
  /\ UNCHANGED <<ppc, line, pos, seen, pids, waitIdx, outbuf, history, nlines,
                 got>>

(* The child has printed everything and exits.                             *)
Exit(i) ==
  /\ child[i].st = "run"
  /\ child[i].left = 0
  /\ child' = [child EXCEPT ![i].st = "exited"]
  /\ UNCHANGED <<ppc, line, pos, seen, pids, waitIdx, pipe, outbuf, history,
                 nlines, got, produced>>

(* The shell has exited; nothing more happens.                             *)
Terminated ==
  /\ ppc \in {"exited", "failed"}
  /\ UNCHANGED vars

ShellStep ==
  \/ ReadLine \/ EndOfInput
  \/ ExecEmpty \/ ExecCd \/ ExecQuit \/ ExecFork
  \/ Reap \/ WaitDone \/ ReadPipe

ChildStep(i) == Feed(i) \/ Write(i) \/ Exit(i)

Next == ShellStep \/ (\E i \in Idx : ChildStep(i)) \/ Terminated

(* The kernel schedules every runnable process: the shell and each child. *)
Spec ==
  /\ Init /\ [][Next]_vars
  /\ WF_vars(ShellStep)
  /\ \A i \in Idx : WF_vars(ChildStep(i))

-----------------------------------------------------------------------------
Input == [from : {"tty", "pipe", "none"}, data : Seq(Idx)]

TypeOK ==
  /\ ppc \in {"prompt", "exec", "wait", "read", "wait_end", "quit", "exited",
              "failed"}
  /\ line \in Seq([cmd : Commands, sep : {";", "|", "\n"}])
  /\ pids \in Seq(Idx)
  /\ child \in [Idx -> [st : {"none", "feed", "run", "exited", "reaped"},
                        left : Nat, dest : {"tty", "pipe"}]]
  /\ pipe \in Seq(Idx) /\ Len(pipe) <= PipeCap
  /\ outbuf \in Seq(Idx)
  /\ got \in [Idx -> Input]
  /\ produced \in [Idx -> Nat]

(* What a block's stdin should be, as a shell pipeline means it: the      *)
(* whole output of the block just before it when a '|' separates them,    *)
(* the terminal otherwise.                                                  *)
PipedFrom(i) ==
  IF i > 1 /\ line[i - 1].sep = "|"
    THEN [from |-> "pipe", data |-> [k \in 1 .. produced[i - 1] |-> i - 1]]
    ELSE Terminal

(* Every child executeCommand forks gets, through output_buffer, exactly  *)
(* the output of the stage before its '|' and nothing else: nothing of an *)
(* earlier ';' block, nothing left over from an earlier stage, no part    *)
(* missing.  This is what waitForAllChildProcesses before the single read *)
(* of copyProcessOutputToBuffer, and the is_first_block / is_last_block   *)
(* flags, are there to ensure.                                              *)
StdinIsPreviousStage ==
  \A i \in 1 .. Len(line) : got[i] # NotForked => got[i] = PipedFrom(i)

(* Every line the shell starts to execute ends: the shell comes back to   *)
(* its prompt, or exits (quit, a failed cd).  A stage whose output cannot *)
(* reach the next one would hang executeLine in waitpid or in read.       *)
LineCompletes == ppc = "exec" ~> ppc \in {"prompt", "exited", "failed"}

(* A line whose every block before a '|' comes before any ';' and prints  *)
(* between one unit and a pipe's capacity: echo, or cat reading such a    *)
(* stage.                                                                    *)
FeedsPipe(l, i) ==
  \/ l[i].cmd.name = "echo" /\ l[i].cmd.n \in 1 .. PipeCap
  \/ l[i].cmd.name = "cat" /\ i > 1 /\ l[i - 1].sep = "|"
Fed(l) ==
  \A i \in 1 .. Len(l) :
    l[i].sep = "|" => FeedsPipe(l, i) /\ \A j \in 1 .. i : l[j].sep # ";"

(* Such a line always ends: the shell's waits and its single read of the  *)
(* pipe return, and every child's writes to the pipe complete.             *)
FedLinesComplete ==
  (ppc = "exec" /\ Fed(line)) ~> ppc \in {"prompt", "exited", "failed"}
=============================================================================
