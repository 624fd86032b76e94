----------------------------- MODULE LinkedList -----------------------------
(***************************************************************************)
(* The doubly linked lists of p3 at the level of their pointers: list.c,   *)
(* and clock_list.c, which is list.c with a reference bit.  A call walks   *)
(* the list one node per step, as the loops of the code do, so that an     *)
(* endless walk, a lost node or a NULL dereference can show.  The calls    *)
(* are those of pagetable.c, where a frame is inserted only when it is not *)
(* in the list and clock() runs on a list that is not empty, and the       *)
(* insertion at the head that list_test.c adds to them.                    *)
(***************************************************************************)
EXTENDS QueueOps

CONSTANTS
  Frame,     \* the values a node carries
  MaxNodes   \* addresses; enough for every frame, and one in the making

ASSUME ListAssumption ==
  /\ Frame # {} /\ IsFiniteSet(Frame)
  /\ MaxNodes \in Nat /\ Cardinality(Frame) < MaxNodes

NULL == 0
Node == 1 .. MaxNodes

VARIABLES
  heap,    \* heap[node]: its next, prev, data and ref
  new,     \* newNode: the node the call is inserting, NULL outside it
  head,    \* the pointer the caller keeps
  cur,     \* the cursor of the call's loop (ret or temp), NULL outside it
  pc,      \* which loop the call is in, "idle" between calls, "segv"
  call,    \* the call: its name and arguments
  before   \* history: the list, as a sequence, when the call began

vars == <<heap, new, head, cur, pc, call, before>>

(* The nodes reached from h through next, NULL from the end on. *)
Path(h) ==
  LET path[k \in Node] ==
        IF k = 1 THEN h
        ELSE IF path[k - 1] = NULL THEN NULL ELSE heap[path[k - 1]].next
  IN  path

Reached(h) == {Path(h)[k] : k \in Node} \ {NULL}

Blank == [next |-> NULL, prev |-> NULL, data |-> 0, ref |-> 0]

(* The addresses malloc may not return.  The code frees no node, but once  *)
(* no pointer in the list names it (DoublyLinked) a removed node is never  *)
(* seen again: it is blanked here and its address is used again, so that   *)
(* calls can go on for ever.                                               *)
InUse(h) == Reached(h) \cup {heap[n].prev : n \in Reached(h)}

(* The list from h as pagetable.c means it. *)
List(h) ==
  [k \in 1 .. Cardinality({j \in Node : Path(h)[j] # NULL}) |->
     [data |-> heap[Path(h)[k]].data, ref |-> heap[Path(h)[k]].ref]]

Init ==
  /\ heap = [n \in Node |-> Blank]
  /\ new = NULL
  /\ head = NULL
  /\ cur = NULL
  /\ pc = "idle"
  /\ call = [op |-> "none"]
  /\ before = << >>

-----------------------------------------------------------------------------
(* list_new_node: one address that is free stands for all. *)
new_node(h) == CHOOSE n \in Node \ InUse(h) : \A m \in Node \ InUse(h) : n <= m

(* list_insert_tail on the list at h of the heap hp, up to its loop. *)
InsertTail(hp, h, x, ref, return) ==
  LET n == new_node(h)
  IN  /\ heap' = [hp EXCEPT ![n] = [Blank EXCEPT !.data = x, !.ref = ref]]
      /\ IF h = NULL THEN head' = n /\ pc' = return /\ cur' = NULL /\ new' = NULL
                     ELSE head' = h /\ pc' = "insert" /\ cur' = h /\ new' = n

(* Mutant: the new head keeps its prev (list.c:32 dropped). *)
UnheadKeepsPrev(hp, h) == [hp EXCEPT ![h] = Blank]

(* list_remove_head: the second node becomes the head and forgets it. *)
Unhead(hp, h) ==
  IF hp[h].next = NULL THEN [hp EXCEPT ![h] = Blank]
                       ELSE [hp EXCEPT ![hp[h].next].prev = NULL, ![h] = Blank]

InsertWalk ==
  /\ pc = "insert"
  /\ heap[cur].next # NULL
  /\ cur' = heap[cur].next
  /\ UNCHANGED <<heap, new, head, pc>>

InsertLink ==
  /\ pc = "insert"
  /\ heap[cur].next = NULL
  /\ heap' = [heap EXCEPT ![cur].next = new, ![new].prev = cur]
  /\ pc' = IF call.op = "clock" THEN "clock" ELSE "idle"
  /\ cur' = NULL
  /\ new' = NULL
  /\ UNCHANGED head

(* Mutant: the loop forgets to go to the next node (list.c:51 dropped). *)
RemoveWalkStays ==
  /\ pc = "remove"
  /\ cur # NULL
  /\ heap[cur].data # call.data
  /\ UNCHANGED <<heap, new, head, cur, pc>>

(* The loop of list_remove. *)
RemoveWalk ==
  /\ pc = "remove"
  /\ cur # NULL
  /\ heap[cur].data # call.data
  /\ cur' = heap[cur].next
  /\ UNCHANGED <<heap, new, head, pc>>

(* list_remove has found its node: the tests of the code, in their order.  *)
Found == pc = "remove" /\ cur # NULL /\ heap[cur].data = call.data

RemoveIsHead ==
  /\ Found
  /\ cur = head
  /\ heap' = Unhead(heap, head)
  /\ head' = heap[head].next
  /\ pc' = "idle"
  /\ cur' = NULL
  /\ UNCHANGED new

(* Mutant: the test for the last node comes before the one for the head    *)
(* (list.c:45-46 swapped).                                                 *)
TailBeforeHead ==
  /\ Found
  /\ heap[cur].next = NULL
  /\ cur' = head
  /\ pc' = "removeTail"
  /\ UNCHANGED <<heap, new, head>>

RemoveIsTail ==
  /\ Found
  /\ cur # head
  /\ heap[cur].next = NULL
  /\ cur' = head
  /\ pc' = "removeTail"
  /\ UNCHANGED <<heap, new, head>>

RemoveMiddle ==
  /\ Found
  /\ cur # head
  /\ heap[cur].next # NULL
  /\ heap' = IF heap[cur].prev = NULL
             THEN [heap EXCEPT ![heap[cur].next].prev = NULL, ![cur] = Blank]
             ELSE [heap EXCEPT ![heap[cur].prev].next = heap[cur].next,
                               ![heap[cur].next].prev = heap[cur].prev,
                               ![cur] = Blank]
  /\ pc' = "idle"
  /\ cur' = NULL
  /\ UNCHANGED <<new, head>>

RemoveTailWalk ==
  /\ pc = "removeTail"
  /\ heap[cur].next # NULL
  /\ cur' = heap[cur].next
  /\ UNCHANGED <<heap, new, head, pc>>

(* ret->prev->next = NULL, with no test that ret has a predecessor. *)
RemoveTailUnlink ==
  /\ pc = "removeTail"
  /\ heap[cur].next = NULL
  /\ IF heap[cur].prev = NULL
     THEN pc' = "segv" /\ UNCHANGED heap
     ELSE pc' = "idle" /\ heap' = [heap EXCEPT ![heap[cur].prev].next = NULL, ![cur] = Blank]
  /\ cur' = NULL
  /\ UNCHANGED <<new, head>>

UpdateWalk ==
  /\ pc = "update"
  /\ cur # NULL
  /\ heap[cur].data # call.data
  /\ cur' = heap[cur].next
  /\ UNCHANGED <<heap, new, head, pc>>

(* Mutant: the bit is set in the head, not in the node that was found. *)
UpdateHead ==
  /\ pc = "update"
  /\ cur # NULL
  /\ heap[cur].data = call.data
  /\ heap' = [heap EXCEPT ![head].ref = call.ref]
  /\ pc' = "idle"
  /\ cur' = NULL
  /\ UNCHANGED <<new, head>>

UpdateFound ==
  /\ pc = "update"
  /\ cur # NULL
  /\ heap[cur].data = call.data
  /\ heap' = [heap EXCEPT ![cur].ref = call.ref]
  /\ pc' = "idle"
  /\ cur' = NULL
  /\ UNCHANGED <<new, head>>

(* The end of the list: list_remove and clock_list_update_ref return. *)
NotFound ==
  /\ pc \in {"remove", "update"}
  /\ cur = NULL
  /\ pc' = "idle"
  /\ UNCHANGED <<heap, new, head, cur>>

(* Mutant: the node goes to the tail with the bit it had at the head. *)
TurnKeepsBit ==
  /\ pc = "clock"
  /\ heap[head].ref = 1
  /\ InsertTail(Unhead(heap, head), heap[head].next, heap[head].data, heap[head].ref, "clock")

(* The loop of clock(): the head goes to the tail while it is referenced. *)
ClockTurn ==
  /\ pc = "clock"
  /\ heap[head].ref = 1
  /\ InsertTail(Unhead(heap, head), heap[head].next, heap[head].data, 0, "clock")

ClockStop ==
  /\ pc = "clock"
  /\ heap[head].ref # 1
  /\ pc' = "idle"
  /\ UNCHANGED <<heap, new, head, cur>>

Step ==
  /\ \/ InsertWalk \/ InsertLink
     \/ RemoveWalk \/ RemoveIsHead \/ RemoveIsTail \/ RemoveMiddle \/ RemoveTailWalk \/ RemoveTailUnlink
     \/ UpdateWalk \/ UpdateFound \/ NotFound
     \/ ClockTurn \/ ClockStop
  /\ UNCHANGED <<call, before>>

-----------------------------------------------------------------------------
(* The calls. *)
Call(c) ==
  /\ pc = "idle"
  /\ call' = c
  /\ before' = List(head)

CallInsert(x, ref) ==
  /\ x \notin Range(FramesIn(List(head)))
  /\ Call([op |-> "insert", data |-> x, ref |-> ref])
  /\ InsertTail(heap, head, x, ref, "idle")

CallInsertHead(x, ref) ==
  LET n == new_node(head)
  IN  /\ x \notin Range(FramesIn(List(head)))
      /\ Call([op |-> "insertHead", data |-> x, ref |-> ref])
      /\ heap' = [m \in Node |->
                    CASE m = n    -> [next |-> head, prev |-> NULL, data |-> x, ref |-> ref]
                      [] m = head -> [heap[m] EXCEPT !.prev = n]
                      [] OTHER    -> heap[m]]
      /\ head' = n
      /\ UNCHANGED <<new, cur, pc>>

CallRemoveHead ==
  /\ Call([op |-> "removeHead"])
  /\ IF head = NULL THEN UNCHANGED <<heap, head>>
     ELSE heap' = Unhead(heap, head) /\ head' = heap[head].next
  /\ UNCHANGED <<new, cur, pc>>

CallRemove(x) ==
  /\ Call([op |-> "remove", data |-> x])
  /\ pc' = "remove"
  /\ cur' = head
  /\ UNCHANGED <<heap, new, head>>

CallUpdateRef(x, ref) ==
  /\ Call([op |-> "update", data |-> x, ref |-> ref])
  /\ pc' = "update"
  /\ cur' = head
  /\ UNCHANGED <<heap, new, head>>

CallClock ==
  /\ head # NULL
  /\ Call([op |-> "clock"])
  /\ pc' = "clock"
  /\ UNCHANGED <<heap, new, head, cur>>

Next ==
  \/ Step
  \/ CallRemoveHead
  \/ CallClock
  \/ \E x \in Frame :
       \/ CallRemove(x)
       \/ \E ref \in {0, 1} : CallInsert(x, ref) \/ CallInsertHead(x, ref) \/ CallUpdateRef(x, ref)

(* A call runs until it returns: there is one thread and nothing blocks. *)
Spec == Init /\ [][Next]_vars /\ WF_vars(Step)

-----------------------------------------------------------------------------
(* Properties. *)

(* What the call in hand should leave of the list it found. *)
Promised ==
  CASE call.op = "none"       -> << >>
    [] call.op = "insert"     -> Append(before, [data |-> call.data, ref |-> call.ref])
    [] call.op = "insertHead" -> <<[data |-> call.data, ref |-> call.ref]>> \o before
    [] call.op = "removeHead" -> IF before = << >> THEN << >> ELSE Tail(before)
    [] call.op = "remove"     -> list_remove(before, call.data)
    [] call.op = "update"     -> clock_list_update_ref(before, call.data, call.ref)
    [] call.op = "clock"      -> Sweep(before)

(* A call that returns leaves the list that the operators VM.tla is built  *)
(* on say: the loops over next and prev pointers of list.c, clock_list.c   *)
(* and clock() compute what the simulator's model takes them to compute.   *)
CallsKeepPromise == pc = "idle" => List(head) = Promised

(* Between calls the list is doubly linked: the head has no predecessor,   *)
(* and every node reached is the prev of its next.  list_remove and        *)
(* list_remove_tail unlink through prev, insert_tail and the printing      *)
(* loops walk through next; a prev left behind corrupts a later call.      *)
DoublyLinked ==
  pc = "idle" /\ head # NULL =>
    /\ heap[head].prev = NULL
    /\ \A n \in Reached(head) :
         heap[n].next # NULL => heap[heap[n].next].prev = n

(* No legal sequence of calls reaches list_remove_tail on a one-node list, *)
(* whose ret->prev->next dereferences NULL (list.c:22, clock_list.c:23).   *)
NoNullDereference == pc # "segv"

(* The nodes that clock() has still to turn, those with the reference bit. *)
ToTurn ==
  IF call.op = "clock" THEN {n \in (Reached(head) \cup {new}) \ {NULL} : heap[n].ref = 1} ELSE {}

(* The loops that the call in hand has still to enter or to leave. *)
LoopsLeft ==
  CASE pc \in {"insert", "remove"}              -> 2
    [] pc \in {"removeTail", "update", "clock"} -> 1
    [] OTHER                                    -> 0

Fewer(S, T) == S \subseteq T /\ S # T

Nearer ==
  \/ Fewer(ToTurn', ToTurn)
  \/ ToTurn' = ToTurn /\ LoopsLeft' < LoopsLeft
  \/ ToTurn' = ToTurn /\ LoopsLeft' = LoopsLeft /\ Fewer(Reached(cur)', Reached(cur))

(* Every step of a call brings its end nearer: clock() turns a referenced  *)
(* node and makes none, or a loop is left for good, or the cursor leaves   *)
(* behind a node that next never leads back to.  These are the reasons why *)
(* CallsReturn holds of a list of any length.                              *)
EveryStepCounts == [][Step => Nearer]_vars

(* Every call returns: no list is ever circular, and clock() stops even    *)
(* when every node is referenced, after one turn (pagetable.c:29).         *)
CallsReturn == pc # "idle" ~> pc = "idle"
=============================================================================
