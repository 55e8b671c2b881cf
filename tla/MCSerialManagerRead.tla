------------------------ MODULE MCSerialManagerRead ------------------------
(***************************************************************************)
(* The ways of reading in which only owed callbacks are made.  The task    *)
(* first: requests of both modes and cancellation, if nobody writes, and   *)
(* non-blocking requests if somebody does.  The application first: both    *)
(* modes, nothing canceled.  Neither: non-blocking requests only.          *)
(***************************************************************************)
EXTENDS SerialManagerRead

Usage(first, modes, cancels, writes, crowded) ==
  [first |-> first, modes |-> modes, cancels |-> cancels, writes |-> writes,
   crowded |-> crowded]

TaskAlone == {Usage("task", Modes, TRUE, FALSE, c) : c \in BOOLEAN}
TaskFirst == {Usage("task", {"nonblocking"}, TRUE, TRUE, FALSE)}
AppFirst == {Usage("app", Modes, FALSE, TRUE, FALSE)}
Neither == {Usage("any", {"nonblocking"}, FALSE, TRUE, FALSE)}

Safe == TaskAlone \cup TaskFirst \cup AppFirst \cup Neither
=============================================================================
