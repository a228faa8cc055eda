----------------------------- MODULE ShellInput -----------------------------
(***************************************************************************)
(* How myShell (src/myShell/hw1.c) cuts its input into the lines it hands *)
(* to executeLine: shellMode reads getchar() by getchar() into a buffer of *)
(* LineMax (251) bytes, batchMode reads the file with fgets(line, 251).   *)
(* What executeLine then does with a line is Shell's business; here a     *)
(* call is recorded as the line it was given.                              *)
(*                                                                         *)
(* A byte is "x" (any byte that is not a newline) or "nl".  The input ends *)
(* with end of file after the last byte.                                   *)
(***************************************************************************)
EXTENDS Integers, Sequences, SequencesExt

CONSTANTS
  LineMax,   \* sizeof line[] in shellMode and the size given to fgets
  Inputs,    \* the byte sequences standard input or the batch file may hold
  Modes      \* "shell" (no argument) and/or "batch" (a batch file argument)

ASSUME LineMax \in Nat \ {0}
ASSUME Modes \subseteq {"shell", "batch"}

VARIABLES
  mode,      \* which reader main called
  input,     \* the whole input, fixed
  rest,      \* bytes not read yet
  buf,       \* shellMode: line[0 .. cursor)
  executed,  \* the lines given to executeLine, in order
  done,      \* the reader has returned to main
  file       \* batchMode's FILE*: "unopened", "open", "closed"

vars == <<mode, input, rest, buf, executed, done, file>>

Init ==
  /\ mode \in Modes
  /\ input \in Inputs
  /\ rest = input
  /\ buf = <<>>
  /\ executed = <<>>
  /\ done = FALSE
  /\ file = "unopened"

-----------------------------------------------------------------------------
(* shellMode, one pass of its while loop each *)

(* cursor == 251: "Command too long", "Discarding the input", cursor = 0. *)
(* Only the buffer is dropped; reading goes on in the middle of the line. *)
DiscardLong ==
  /\ mode = "shell" /\ ~done
  /\ Len(buf) = LineMax
  /\ buf' = <<>>
  /\ UNCHANGED <<mode, input, rest, executed, done, file>>

(* getchar() returns EOF: break out of the loop; a partial line is lost. *)
ShellEOF ==
  /\ mode = "shell" /\ ~done
  /\ Len(buf) < LineMax
  /\ rest = <<>>
  /\ done' = TRUE
  /\ UNCHANGED <<mode, input, rest, buf, executed, file>>

(* A newline: line[cursor] = '\0', executeLine(line), cursor = 0. *)
ShellNewline ==
  /\ mode = "shell" /\ ~done
  /\ Len(buf) < LineMax
  /\ rest # <<>> /\ Head(rest) = "nl"
  /\ executed' = Append(executed, buf)
  /\ buf' = <<>>
  /\ rest' = Tail(rest)
  /\ UNCHANGED <<mode, input, done, file>>

(* Any other byte: line[cursor++] = c. *)
ShellChar ==
  /\ mode = "shell" /\ ~done
  /\ Len(buf) < LineMax
  /\ rest # <<>> /\ Head(rest) # "nl"
  /\ buf' = Append(buf, Head(rest))
  /\ rest' = Tail(rest)
  /\ UNCHANGED <<mode, input, executed, done, file>>

-----------------------------------------------------------------------------
(* batchMode *)

(* fopen(filename, "r"): on NULL, "Error: File not found" and return to *)
(* main with nothing executed.                                           *)
BatchOpen ==
  /\ mode = "batch" /\ ~done
  /\ file = "unopened"
  /\ \/ file' = "open" /\ UNCHANGED done
     \/ done' = TRUE /\ UNCHANGED file
  /\ UNCHANGED <<mode, input, rest, buf, executed>>

(* How many bytes fgets(line, LineMax, file) takes from s: up to and      *)
(* including the first newline, but at most LineMax - 1 bytes.          *)
FgetsCount(s) ==
  LET j == SelectInSeq(s, LAMBDA b : b = "nl")
  IN  IF j # 0 /\ j <= LineMax - 1 THEN j
      ELSE IF Len(s) < LineMax - 1 THEN Len(s) ELSE LineMax - 1

(* One iteration of while (fgets(...)) { executeLine(line); }, or the    *)
(* NULL at end of file after which batchMode closes the file.  The       *)
(* newline fgets keeps is the end of the line's last block.               *)
BatchLine ==
  /\ mode = "batch" /\ ~done
  /\ file = "open"
  /\ IF rest = <<>>
       THEN /\ done' = TRUE
            /\ file' = "closed"
            /\ UNCHANGED <<rest, executed>>
       ELSE LET n == FgetsCount(rest)
            IN  /\ executed' = Append(executed,
                                      SelectSeq(SubSeq(rest, 1, n), LAMBDA b : b # "nl"))
                /\ rest' = SubSeq(rest, n + 1, Len(rest))
                /\ UNCHANGED <<done, file>>
  /\ UNCHANGED <<mode, input, buf>>

Next ==
  \/ DiscardLong \/ ShellEOF \/ ShellNewline \/ ShellChar
  \/ BatchOpen \/ BatchLine

Spec == Init /\ [][Next]_vars

-----------------------------------------------------------------------------
(* The lines of s: the byte runs each ended by a newline. *)
RECURSIVE LinesOf(_)
LinesOf(s) ==
  LET j == SelectInSeq(s, LAMBDA b : b = "nl")
  IN  IF j = 0 THEN <<>> ELSE <<SubSeq(s, 1, j - 1)>> \o LinesOf(SubSeq(s, j + 1, Len(s)))

NonEmpty(l) == l # <<>>

(* What the user typed and the shell should run: the non-empty lines     *)
(* that fit the buffer; a longer one is "discarded" as shellMode says.    *)
Typed == SelectSeq(LinesOf(input), LAMBDA l : NonEmpty(l) /\ Len(l) <= LineMax - 1)

(* batchMode returned because fopen failed: there was no input to run. *)
FileNotFound == mode = "batch" /\ file = "unopened"

(* The shell runs the lines as typed: the non-empty lines it hands to     *)
(* executeLine are, in order, the typed lines of at most 250 bytes, and   *)
(* when the reader returns (having read its input) it has run all of      *)
(* them.  A line that is too long is discarded, not run in part.          *)
ExecutedAsTyped ==
  LET ran == SelectSeq(executed, NonEmpty)
  IN  /\ IsPrefix(ran, Typed)
      /\ done /\ ~FileNotFound => ran = Typed
=============================================================================
