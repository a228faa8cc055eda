---------------------------- MODULE MCWebServer -----------------------------
EXTENDS WebServer

MCFiles ==
  {[size |-> 1, mtime |-> 2, exists |-> TRUE],
   [size |-> 2, mtime |-> 1, exists |-> TRUE],
   [size |-> 0, mtime |-> 0, exists |-> FALSE]}
=============================================================================
