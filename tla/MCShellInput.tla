---------------------------- MODULE MCShellInput ----------------------------
(* A 3-byte line buffer and every input of up to six bytes that ends     *)
(* with a newline: lines shorter than, as long as and longer than the    *)
(* buffer, empty lines, and several lines in a row.                     *)
EXTENDS ShellInput

MCInputs ==
  {s \in UNION {[1 .. n -> {"x", "nl"}] : n \in 1 .. 6} : s[Len(s)] = "nl"}
=============================================================================
