-------------------------- MODULE SingleWordCount --------------------------
(***************************************************************************)
(* The word counter of p1 that the project starts from, wc.c: one process  *)
(* counts the whole file with one call of word_count() and prints the      *)
(* total.  Its number of processes is read and not used.  With a crash     *)
(* rate it may abort instead, and prints nothing.                          *)
(***************************************************************************)
EXTENDS WordCountCore

CONSTANTS
  Files,      \* the contents a file may have
  crashRate   \* TRUE when the crash rate is not 0

VARIABLES
  file,   \* the file's contents
  pc,     \* "count", "done" when the total is printed, "killed" after abort()
  count   \* the total

vars == <<file, pc, count>>

Init ==
  /\ file \in Files
  /\ pc = "count"
  /\ count = NoCount

Count ==
  /\ pc = "count"
  /\ count' = word_count(file, 0, Len(file))
  /\ pc' = "done"
  /\ UNCHANGED file

Abort ==
  /\ crashRate
  /\ pc = "count"
  /\ pc' = "killed"
  /\ UNCHANGED <<file, count>>

Next == Count \/ Abort

Spec == Init /\ [][Next]_vars
=============================================================================
