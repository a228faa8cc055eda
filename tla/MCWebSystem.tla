---------------------------- MODULE MCWebSystem -----------------------------
(* Three client threads at a time: two ask for existing files of        *)
(* and ages, the third for a file stat does not find.                    *)
EXTENDS WebSystem

MCFiles ==
  {[size |-> 1, mtime |-> 2, exists |-> TRUE],
   [size |-> 2, mtime |-> 1, exists |-> TRUE],
   [size |-> 0, mtime |-> 0, exists |-> FALSE]}

MCWants ==
  <<[size |-> 2, mtime |-> 1, exists |-> TRUE],
    [size |-> 1, mtime |-> 2, exists |-> TRUE],
    [size |-> 0, mtime |-> 0, exists |-> FALSE]>>
=============================================================================
