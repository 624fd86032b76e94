------------------------------ MODULE QueueOps ------------------------------
(***************************************************************************)
(* What the list operations that pagetable.c uses do to a list seen as a   *)
(* sequence: of frames for LRU (list.c), of [data, ref] records for CLOCK  *)
(* (clock_list.c).  VM.tla is built on these operators and LinkedList.tla  *)
(* checks that the pointer code computes them.                             *)
(***************************************************************************)
EXTENDS Integers, Sequences, SequencesExt

(* The frames in a list of [data, ref] records. *)
FramesIn(q) == [k \in DOMAIN q |-> q[k].data]

(* s lists every member of S exactly once. *)
OneOfEach(s, S) == IsInjective(s) /\ Range(s) = S

(* Mutants: the hit frame is not taken off first, or not moved at all. *)
InsertAgain(s, PFN) == Append(s, PFN)
StayInPlace(s, PFN) == s

(* list_remove then list_insert_tail: a hit moves its frame to the tail. *)
MoveToTail(s, PFN) == Append(RemoveFirst(s, PFN), PFN)

(* list_remove: the first node of the frame leaves the list. *)
list_remove(q, PFN) ==
  LET n == SelectInSeq(q, LAMBDA node : node.data = PFN)
  IN  IF n = 0 THEN q ELSE RemoveAt(q, n)

(* The first node of the frame gets the reference bit. *)
clock_list_update_ref(q, PFN, ref) ==
  LET n == SelectInSeq(q, LAMBDA node : node.data = PFN)
  IN  IF n = 0 THEN q ELSE [q EXCEPT ![n].ref = ref]

(* Mutant: the reference bits are never looked at. *)
NoneReferenced(q) == 0

(* The number of nodes the loop of clock() moves before it stops.  When    *)
(* every node is referenced it moves them all and stops at the old head.   *)
Referenced(q) ==
  LET n == SelectInSeq(q, LAMBDA node : node.ref = 0)
  IN  IF n = 0 THEN Len(q) ELSE n - 1

(* clock(): referenced nodes at the head go to the tail, unreferenced. *)
Sweep(q) ==
  LET n == Referenced(q)
  IN  SubSeq(q, n + 1, Len(q)) \o [k \in 1 .. n |-> [data |-> q[k].data, ref |-> 0]]
=============================================================================
