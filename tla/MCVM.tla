-------------------------------- MODULE MCVM --------------------------------
(* VM.tla, with the histories of PolicyHistory.tla, for TLC: what an        *)
(* uncleared heap may hold before it is written.                            *)
EXTENDS PolicyHistory

(* A heap that malloc handed out cleared, as it is in a fresh process. *)
MCZeroIPTE == {[pid |-> 0, VPN |-> 0]}

(* The same, or a pair of numbers that names no page. *)
MCHeapIPTE == MCZeroIPTE \cup {[pid |-> 7, VPN |-> 9]}

(* To keep the initial states few, the heap is cleared throughout or has   *)
(* one pattern throughout, with every dirty bit set.                       *)
MCInit ==
  /\ HInit
  /\ \A pid \in Pids, VPN \in Pages, f \in Frames :
       pageTable[pid][VPN].dirty <=> invertedPageTable[f] \notin MCZeroIPTE
  /\ \A f \in Frames : PHYSICAL_MEM[f] = InitByte

(* A page is but a name to the simulator, except that a cleared inverted   *)
(* table names the first page of the first process.  So the other pages    *)
(* may be taken in one order: none is requested before those below it.     *)
Below(p) ==
  {q \in AllPages : q # <<0, 0>> /\ q[1] * MAX_VPN + q[2] < p[1] * MAX_VPN + p[2]}

MCNext ==
  /\ HNext
  /\ \A p \in AllPages \ {<<0, 0>>} :
       lastUse'[p] # 0 => \A q \in Below(p) : lastUse'[q] # 0

MCSpec == MCInit /\ [][MCNext]_hvars
=============================================================================
