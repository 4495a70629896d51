----------------------------- MODULE MCPosixMain -----------------------------
(***************************************************************************)
(* Command lines for module PosixMain: the complete ones, each with one    *)
(* thing wrong, and configuration files that lack up to two options.       *)
(***************************************************************************)
EXTENDS PosixMain

File == [argc |-> 2, help |-> FALSE, version |-> FALSE, readable |-> TRUE, lacks |-> {},
         threads |-> "positive", max_extent |-> "none"]
Words == [File EXCEPT !.argc = 7]

ChosenCommandLines ==
  {File, Words,
   [File EXCEPT !.argc = 1],
   [File EXCEPT !.argc = 3],
   [File EXCEPT !.readable = FALSE],
   [File EXCEPT !.help = TRUE, !.readable = FALSE],
   [File EXCEPT !.version = TRUE, !.readable = FALSE],
   [Words EXCEPT !.help = TRUE],
   [Words EXCEPT !.version = TRUE],
   [Words EXCEPT !.threads = "zero"],
   [Words EXCEPT !.threads = "word"],
   [File EXCEPT !.threads = "zero"],
   [File EXCEPT !.threads = "word", !.lacks = {"port"}],
   [File EXCEPT !.max_extent = "bbox"],
   [File EXCEPT !.max_extent = "garbled"]}
  \cup {[File EXCEPT !.lacks = {a, b}] : a, b \in Options}

ChosenMasks == {{}, {"SIGHUP"}, {"SIGTERM", "SIGHUP"}}
=============================================================================
