------------------------------ MODULE VMProofs ------------------------------
(***************************************************************************)
(* The safety theorems of VM.tla, for any number of processes, pages and   *)
(* frames, any set of bytes, any contents of the heap and every policy.    *)
(*                                                                         *)
(* The invariants need one another: the frame that a policy picks is a     *)
(* frame at all only by QueueInv, its inverted entry names a page only by  *)
(* MappingInv, and only so do the tables keep their types.  They are       *)
(* proved together, as IInv, one lemma per action.                         *)
(***************************************************************************)
EXTENDS VM, QueueProofs

(* Types, tables, lists and dirty bits: inductive as a whole. *)
IInv == TypeOK /\ MappingInv /\ QueueInv /\ CleanPageOnDisk

Types == {"R", "W", "X"}

(* The tables pt are inverse to the inverted table on the frames of A,      *)
(* except for PFN, which no page is mapped to.                              *)
InverseBut(A, PFN, pt) ==
  /\ \A f \in A \ {PFN} :
        /\ invertedPageTable[f] \in IPTE
        /\ pt[invertedPageTable[f].pid][invertedPageTable[f].VPN].valid
        /\ pt[invertedPageTable[f].pid][invertedPageTable[f].VPN].PFN = f
  /\ \A p \in Pids, v \in Pages : pt[p][v].valid =>
        /\ pt[p][v].PFN \in A \ {PFN}
        /\ invertedPageTable[pt[p][v].PFN] = [pid |-> p, VPN |-> v]

(* CleanPageOnDisk for the page tables pt and the swap disk disk. *)
CleanOn(pt, disk) ==
  \A p \in Pids, v \in Pages : pt[p][v].valid /\ ~pt[p][v].dirty =>
     PHYSICAL_MEM[pt[p][v].PFN] = disk[p][v]

(* The line printed for a request served from a frame. *)
Answer(pid, VPN, type, PFN, hit) ==
  \/ reply' = [type |-> "fatal"] /\ type = "X"
  \/ /\ type \in {"R", "W"}
     /\ reply' = [type |-> type, pid |-> pid, VPN |-> VPN, PFN |-> PFN,
                  hit |-> hit, byte |-> PHYSICAL_MEM'[PFN]]

(* What a hit does to the page tables. *)
TablesHit(pid, VPN, type) ==
  /\ pageTable' \in [Pids -> [Pages -> PTE]]
  /\ \A p \in Pids, v \in Pages :
       /\ pageTable'[p][v].valid = pageTable[p][v].valid
       /\ pageTable'[p][v].PFN = pageTable[p][v].PFN
       /\ ~pageTable'[p][v].dirty =>
            ~pageTable[p][v].dirty /\ ~(type = "W" /\ p = pid /\ v = VPN)

(* What loading a page does: the page owns the frame, the frame holds what  *)
(* the disk had or the byte written, and nothing else changes hands.        *)
Loaded(pid, VPN, type, byte, PFN, pt, disk) ==
  /\ replacementPolicy' = replacementPolicy
  /\ SWAP_DISK' = disk
  /\ pageTable' \in [Pids -> [Pages -> PTE]]
  /\ pageTable'[pid][VPN].valid /\ pageTable'[pid][VPN].PFN = PFN
  /\ type = "W" => pageTable'[pid][VPN].dirty
  /\ \A p \in Pids, v \in Pages : ~(p = pid /\ v = VPN) => pageTable'[p][v] = pt[p][v]
  /\ invertedPageTable' \in [Frames -> [pid : Int, VPN : Int]]
  /\ \A f \in Frames : invertedPageTable'[f] =
       IF f = PFN THEN [pid |-> pid, VPN |-> VPN] ELSE invertedPageTable[f]
  /\ PHYSICAL_MEM' \in [Frames -> Byte]
  /\ \A f \in Frames : f # PFN => PHYSICAL_MEM'[f] = PHYSICAL_MEM[f]
  /\ PHYSICAL_MEM'[PFN] = IF type = "W" THEN byte ELSE disk[pid][VPN]
  /\ running' \in BOOLEAN
  /\ reply' \in PageReply \cup NoReply
  /\ Answer(pid, VPN, type, PFN, FALSE)

(* pt and disk are the page tables and the disk, but for the page in PFN.   *)
VictimGone(PFN, pt, disk) ==
  LET ipte == invertedPageTable[PFN]
  IN  /\ pt \in [Pids -> [Pages -> PTE]] /\ disk \in [Pids -> [Pages -> Byte]]
      /\ ipte \in IPTE /\ Valid(ipte.pid, ipte.VPN) /\ FrameOf(ipte.pid, ipte.VPN) = PFN
      /\ ~pt[ipte.pid][ipte.VPN].valid
      /\ disk[ipte.pid][ipte.VPN] = PHYSICAL_MEM[PFN]
      /\ \A p \in Pids, v \in Pages : ~(p = ipte.pid /\ v = ipte.VPN) =>
            pt[p][v] = pageTable[p][v] /\ disk[p][v] = SWAP_DISK[p][v]

-----------------------------------------------------------------------------
(* Lemmas about parts of the actions. *)

LEMMA AllocatedAreFrames == TypeOK => Allocated \subseteq Frames
BY VMAssumption DEF TypeOK, Allocated, Frames

(* The frames run out exactly when the counter reaches MAX_PFN. *)
LEMMA FreeFrames ==
  TypeOK => (get_freeframe >= 0 <=> nextFreeFrame < MAX_PFN)
            /\ (get_freeframe < 0 <=> nextFreeFrame >= MAX_PFN)
<1> SUFFICES ASSUME TypeOK
             PROVE  (get_freeframe >= 0 <=> nextFreeFrame < MAX_PFN)
                    /\ (get_freeframe < 0 <=> nextFreeFrame >= MAX_PFN)
  OBVIOUS
<1>1. nextFreeFrame \in 0 .. MAX_PFN /\ MAX_PFN \in Nat
  BY VMAssumption DEF TypeOK
<1>2. CASE nextFreeFrame < MAX_PFN
  BY ONLY <1>1, <1>2 DEF get_freeframe
<1>3. CASE nextFreeFrame >= MAX_PFN
  BY ONLY <1>1, <1>3 DEF get_freeframe
<1>4. QED
  BY <1>1, <1>2, <1>3

(* A counter that goes up is still a counter. *)
LEMMA StatsCount ==
  ASSUME NEW st \in STATS
  PROVE  /\ [st EXCEPT !.hitCount = @ + 1] \in STATS
         /\ [st EXCEPT !.missCount = @ + 1, !.swapRead = @ + 1] \in STATS
         /\ [st EXCEPT !.missCount = @ + 1, !.swapWrite = @ + 1, !.swapRead = @ + 1] \in STATS
<1>1. st.hitCount + 1 \in Nat /\ st.missCount + 1 \in Nat
      /\ st.swapRead + 1 \in Nat /\ st.swapWrite + 1 \in Nat
  BY DEF STATS
<1>2. QED
  BY <1>1 DEF STATS

(* main reads or writes the frame it was given and no other. *)
LEMMA AccessEffect ==
  ASSUME TypeOK, NEW pid \in Pids, NEW VPN \in Pages, NEW type \in Types,
         NEW byte \in Byte, NEW STATE PFN, PFN \in Frames, NEW hit \in BOOLEAN,
         NEW STATE mem, mem \in [Frames -> Byte],
         Access(pid, VPN, type, byte, PFN, hit, mem)
  PROVE  /\ PHYSICAL_MEM' = IF type = "W" THEN [mem EXCEPT ![PFN] = byte] ELSE mem
         /\ PHYSICAL_MEM' \in [Frames -> Byte]
         /\ running' \in BOOLEAN
         /\ reply' \in PageReply \cup NoReply
         /\ Answer(pid, VPN, type, PFN, hit)
<1>1. PHYSICAL_MEM' = IF type = "W" THEN [mem EXCEPT ![PFN] = byte] ELSE mem
  BY DEF Access, Types
<1>2. PHYSICAL_MEM' \in [Frames -> Byte]
  BY <1>1
<1>3. CASE type \in {"R", "W"}
  <2>1. /\ running' = running
        /\ reply' = [type |-> type, pid |-> pid, VPN |-> VPN, PFN |-> PFN,
                     hit |-> hit, byte |-> PHYSICAL_MEM'[PFN]]
    BY <1>3 DEF Access
  <2>2. PHYSICAL_MEM'[PFN] \in Byte
    BY <1>2
  <2>3. reply' \in PageReply
    BY <1>3, <2>1, <2>2 DEF PageReply
  <2>4. QED
    BY <1>1, <1>2, <1>3, <2>1, <2>3 DEF TypeOK, Answer
<1>4. CASE type = "X"
  <2>1. running' = FALSE /\ reply' = [type |-> "fatal"]
    BY <1>4 DEF Access
  <2>2. reply' \in NoReply
    BY <2>1 DEF NoReply
  <2>3. QED
    BY <1>1, <1>2, <1>4, <2>1, <2>2 DEF Answer
<1>5. QED
  BY <1>3, <1>4 DEF Types

(* A hit leaves the lists of the policies complete. *)
LEMMA QueuesHit ==
  ASSUME TypeOK, QueueInv, NEW STATE PFN, PFN \in Allocated, QueuesAfterHit(PFN),
         UNCHANGED <<replacementPolicy, nextFreeFrame>>
  PROVE  /\ fifoIndex' \in Nat \cup {-1}
         /\ head' \in Seq(Frames)
         /\ clockHead' \in Seq(ClockNode)
         /\ QueueInv'
<1>1. ClockNode = Nodes(Frames)
  BY DEF ClockNode, Nodes
<1>2. Allocated' = Allocated
  BY DEF Allocated
<1>3. fifoIndex' \in Nat \cup {-1}
  BY DEF QueuesAfterHit, TypeOK
<1>4. head \in Seq(Frames) /\ clockHead \in Seq(Nodes(Frames))
  BY <1>1 DEF TypeOK
<1>5. CASE replacementPolicy = LRU
  <2>1. head' = MoveToTail(head, PFN) /\ clockHead' = clockHead
    BY <1>5 DEF QueuesAfterHit, LRU, CLOCK
  <2>2. OneOfEach(head, Allocated)
    BY <1>5 DEF QueueInv
  <2>3. head' \in Seq(Frames) /\ OneOfEach(head', Allocated)
    BY <1>4, <2>1, <2>2, MoveToTailOneOfEach
  <2>4. QED
    BY <1>1, <1>2, <1>3, <1>4, <1>5, <2>1, <2>3 DEF QueueInv, LRU, CLOCK
<1>6. CASE replacementPolicy = CLOCK
  <2>1. clockHead' = clock_list_update_ref(clockHead, PFN, 1) /\ head' = head
    BY <1>6 DEF QueuesAfterHit, LRU, CLOCK
  <2>2. clockHead' \in Seq(Nodes(Frames)) /\ FramesIn(clockHead') = FramesIn(clockHead)
    BY <1>4, <2>1, UpdateRefKeepsFrames
  <2>3. QED
    BY <1>1, <1>2, <1>3, <1>4, <1>6, <2>1, <2>2 DEF QueueInv, LRU, CLOCK
<1>7. CASE replacementPolicy \notin {LRU, CLOCK}
  BY <1>1, <1>3, <1>4, <1>7 DEF QueuesAfterHit, QueueInv
<1>8. QED
  BY <1>5, <1>6, <1>7

(* A free frame joins the lists. *)
LEMMA QueuesFree ==
  ASSUME TypeOK, QueueInv, nextFreeFrame < MAX_PFN, nextFreeFrame' = nextFreeFrame + 1,
         QueuesAfterFault(FALSE, nextFreeFrame), UNCHANGED replacementPolicy
  PROVE  /\ fifoIndex' \in Nat \cup {-1}
         /\ head' \in Seq(Frames)
         /\ clockHead' \in Seq(ClockNode)
         /\ QueueInv'
<1> USE VMAssumption
<1>1. ClockNode = Nodes(Frames)
  BY DEF ClockNode, Nodes
<1>2. nextFreeFrame \in Frames /\ nextFreeFrame \notin Allocated
  BY DEF TypeOK, Frames, Allocated
<1>3. Allocated' = Allocated \cup {nextFreeFrame}
  BY DEF TypeOK, Allocated
<1>4. fifoIndex' \in Nat \cup {-1}
  BY DEF QueuesAfterFault, TypeOK
<1>5. head \in Seq(Frames) /\ clockHead \in Seq(Nodes(Frames))
  BY <1>1 DEF TypeOK
<1>6. CASE replacementPolicy = LRU
  <2>1. head' = Append(head, nextFreeFrame) /\ clockHead' = clockHead
    BY <1>6 DEF QueuesAfterFault, LRU, CLOCK
  <2>2. OneOfEach(head, Allocated)
    BY <1>6 DEF QueueInv
  <2>3. head' \in Seq(Frames) /\ OneOfEach(head', Allocated \cup {nextFreeFrame})
    BY <1>2, <1>5, <2>1, <2>2, AppendOneOfEach, AppendProperties
  <2>4. QED
    BY <1>1, <1>3, <1>4, <1>5, <1>6, <2>1, <2>3 DEF QueueInv, LRU, CLOCK
<1>7. CASE replacementPolicy = CLOCK
  <2> DEFINE node == [data |-> nextFreeFrame, ref |-> 0]
  <2>1. clockHead' = Append(clockHead, node) /\ head' = head
    BY <1>7 DEF QueuesAfterFault, LRU, CLOCK
  <2>2. node \in Nodes(Frames) /\ node.data = nextFreeFrame
    BY <1>2 DEF Nodes
  <2>3. /\ clockHead' \in Seq(Nodes(Frames))
        /\ FramesIn(clockHead') = Append(FramesIn(clockHead), nextFreeFrame)
    BY <1>2, <1>5, <2>1, <2>2, FramesInAppend
  <2>4. OneOfEach(FramesIn(clockHead), Allocated) /\ FramesIn(clockHead) \in Seq(Frames)
    BY <1>5, <1>7, FramesInSeq DEF QueueInv
  <2>5. OneOfEach(FramesIn(clockHead'), Allocated \cup {nextFreeFrame})
    BY <1>2, <2>3, <2>4, AppendOneOfEach
  <2>6. QED
    BY <1>1, <1>3, <1>4, <1>5, <1>7, <2>1, <2>3, <2>5 DEF QueueInv, LRU, CLOCK
<1>8. CASE replacementPolicy \notin {LRU, CLOCK}
  BY <1>1, <1>4, <1>5, <1>8 DEF QueuesAfterFault, QueueInv
<1>9. QED
  BY <1>6, <1>7, <1>8

(* Every policy picks a frame, and its list stays complete. *)
LEMMA QueuesEvict ==
  ASSUME TypeOK, QueueInv, nextFreeFrame >= MAX_PFN,
         QueuesAfterFault(TRUE, find_replacement),
         UNCHANGED <<replacementPolicy, nextFreeFrame>>
  PROVE  /\ find_replacement \in Frames
         /\ fifoIndex' \in Nat \cup {-1}
         /\ head' \in Seq(Frames)
         /\ clockHead' \in Seq(ClockNode)
         /\ QueueInv'
<1> USE VMAssumption
<1>1. ClockNode = Nodes(Frames)
  BY DEF ClockNode, Nodes
<1>2. Allocated = Frames /\ Allocated' = Frames /\ 0 \in Frames
  BY DEF TypeOK, Frames, Allocated
<1>3. fifoIndex \in Int /\ fifoIndex >= -1 /\ fifoIndex' \in Nat \cup {-1}
  BY DEF QueuesAfterFault, TypeOK
<1>4. head \in Seq(Frames) /\ clockHead \in Seq(Nodes(Frames))
  BY <1>1 DEF TypeOK
<1>5. CASE replacementPolicy = ZERO
  <2>1. find_replacement = 0 /\ head' = head /\ clockHead' = clockHead
    BY <1>5 DEF find_replacement, fifo, lru, clock, QueuesAfterFault, ZERO, FIFO, LRU, CLOCK
  <2>2. QED
    BY <1>1, <1>2, <1>3, <1>4, <1>5, <2>1 DEF QueueInv, ZERO, LRU, CLOCK
<1>6. CASE replacementPolicy = FIFO
  <2>1. find_replacement = (fifoIndex + 1) % MAX_PFN /\ head' = head /\ clockHead' = clockHead
    BY <1>6 DEF find_replacement, fifo, lru, clock, QueuesAfterFault, ZERO, FIFO, LRU, CLOCK
  <2>2. (fifoIndex + 1) % MAX_PFN \in Frames
    BY <1>3 DEF Frames
  <2>3. QED
    BY <1>1, <1>2, <1>3, <1>4, <1>6, <2>1, <2>2 DEF QueueInv, FIFO, LRU, CLOCK
<1>7. CASE replacementPolicy = LRU
  <2>1. /\ find_replacement = head[1]
        /\ head' = Append(Tail(head), find_replacement)
        /\ clockHead' = clockHead
    BY <1>7 DEF find_replacement, fifo, lru, clock, QueuesAfterFault, ZERO, FIFO, LRU, CLOCK
  <2>2. OneOfEach(head, Frames)
    BY <1>2, <1>7 DEF QueueInv
  <2>3. head # << >> /\ head[1] \in Frames
    BY <1>2, <1>4, <2>2, OneOfEachNonempty
  <2>4. head' \in Seq(Frames) /\ OneOfEach(head', Frames)
    BY <1>4, <2>1, <2>2, <2>3, HeadToTail
  <2>5. QED
    BY <1>1, <1>2, <1>3, <1>4, <1>7, <2>1, <2>3, <2>4 DEF QueueInv, LRU, CLOCK
<1>8. CASE replacementPolicy = CLOCK
  <2> DEFINE q == Sweep(clockHead)
             node == [data |-> find_replacement, ref |-> 0]
  <2>1. /\ find_replacement = q[1].data
        /\ clockHead' = Append(Tail(q), node)
        /\ head' = head
    BY <1>8 DEF find_replacement, fifo, lru, clock, QueuesAfterFault, ZERO, FIFO, LRU, CLOCK
  <2>2. OneOfEach(FramesIn(clockHead), Frames) /\ FramesIn(clockHead) \in Seq(Frames)
    BY <1>2, <1>4, <1>8, FramesInSeq DEF QueueInv
  <2>3. PICK m \in 0 .. Len(clockHead) : FramesIn(q) = Rotation(FramesIn(clockHead), m)
    BY <1>4, SweepRotates
  <2>4. q \in Seq(Nodes(Frames))
    BY <1>4, SweepRotates
  <2>5. Len(FramesIn(clockHead)) = Len(clockHead)
    BY <1>4, FramesInSeq
  <2>6. OneOfEach(FramesIn(q), Frames) /\ FramesIn(q) \in Seq(Frames)
    BY <2>2, <2>3, <2>5, Rotated
  <2> HIDE DEF q
  <2>7. FramesIn(q) # << >> /\ FramesIn(q)[1] \in Frames
    BY <1>2, <2>6, OneOfEachNonempty
  <2>8. q # << >> /\ q[1].data = FramesIn(q)[1]
    BY <2>4, <2>7, FramesInHead
  <2>9. node \in Nodes(Frames) /\ node.data = FramesIn(q)[1]
    BY <2>1, <2>7, <2>8 DEF Nodes
  <2>10. Tail(q) \in Seq(Nodes(Frames)) /\ FramesIn(Tail(q)) = Tail(FramesIn(q))
    BY <2>4, <2>8, FramesInTail
  <2>11. /\ clockHead' \in Seq(Nodes(Frames))
         /\ FramesIn(clockHead') = Append(Tail(FramesIn(q)), FramesIn(q)[1])
    BY <2>1, <2>9, <2>10, FramesInAppend
  <2>12. OneOfEach(FramesIn(clockHead'), Frames)
    BY <2>6, <2>7, <2>11, HeadToTail
  <2>13. QED
    BY <1>1, <1>2, <1>3, <1>4, <1>8, <2>1, <2>7, <2>8, <2>11, <2>12 DEF QueueInv, LRU, CLOCK
<1>9. QED
  BY <1>5, <1>6, <1>7, <1>8 DEF TypeOK

-----------------------------------------------------------------------------
(* The initial states. *)
LEMMA InitIInv == Init => IInv
<1> SUFFICES ASSUME Init PROVE IInv
  OBVIOUS
<1> USE VMAssumption DEF Init, init_pagetable, init_swap_disk
<1>1. Allocated = {}
  BY DEF Allocated
<1>2. TypeOK
  <2>1. pageTable \in [Pids -> [Pages -> PTE]]
    <3>1. [PFN : UninitPFN, valid : {FALSE}, dirty : BOOLEAN] \subseteq PTE
      BY DEF PTE
    <3>2. \A p \in Pids : pageTable[p] \in [Pages -> [PFN : UninitPFN, valid : {FALSE}, dirty : BOOLEAN]]
      OBVIOUS
    <3>3. \A p \in Pids : pageTable[p] \in [Pages -> PTE]
      BY ONLY <3>1, <3>2
    <3>4. pageTable = [p \in Pids |-> pageTable[p]]
      OBVIOUS
    <3>5. QED
      BY ONLY <3>3, <3>4
  <2>2. invertedPageTable \in [Frames -> [pid : Int, VPN : Int]]
    OBVIOUS
  <2>3. SWAP_DISK \in [Pids -> [Pages -> Byte]]
    OBVIOUS
  <2>4. head \in Seq(Frames) /\ clockHead \in Seq(ClockNode)
    BY EmptySeq
  <2>5. stats \in STATS
    BY DEF STATS
  <2>6. reply \in NoReply
    BY DEF NoReply
  <2>7. /\ replacementPolicy \in Policy
        /\ nextFreeFrame \in 0 .. MAX_PFN
        /\ PHYSICAL_MEM \in [Frames -> Byte]
        /\ fifoIndex \in Nat \cup {-1}
        /\ running \in BOOLEAN
    OBVIOUS
  <2> QED
    BY ONLY <2>1, <2>2, <2>3, <2>4, <2>5, <2>6, <2>7 DEF TypeOK
<1>3. \A pid \in Pids, VPN \in Pages : ~Valid(pid, VPN)
  BY DEF Valid
<1>4. MappingInv /\ CleanPageOnDisk
  BY <1>1, <1>3 DEF MappingInv, CleanPageOnDisk
<1>5. QueueInv
  <2>1. OneOfEach(head, Allocated)
    BY <1>1 DEF OneOfEach, IsInjective, Range
  <2>2. FramesIn(clockHead) = << >>
    BY DEF FramesIn
  <2>3. OneOfEach(FramesIn(clockHead), Allocated)
    BY <1>1, <2>2 DEF OneOfEach, IsInjective, Range
  <2>4. QED
    BY <2>1, <2>3 DEF QueueInv
<1>6. QED
  BY <1>2, <1>4, <1>5 DEF IInv

-----------------------------------------------------------------------------
(* One lemma per action. *)

(* A step that only prints, and perhaps ends the program. *)
LEMMA QuietIInv ==
  ASSUME IInv, reply' \in PageReply \cup NoReply, running' \in BOOLEAN,
         UNCHANGED <<replacementPolicy, tables, PHYSICAL_MEM, SWAP_DISK, queues, stats>>
  PROVE  IInv'
<1>1. TypeOK /\ MappingInv /\ QueueInv /\ CleanPageOnDisk
  BY DEF IInv
<1>2. /\ UNCHANGED <<replacementPolicy, PHYSICAL_MEM, SWAP_DISK, stats>>
      /\ UNCHANGED <<pageTable, invertedPageTable, nextFreeFrame, fifoIndex, head, clockHead>>
  BY DEF tables, queues
<1>3. TypeOK'
  BY ONLY <1>1, <1>2, reply' \in PageReply \cup NoReply, running' \in BOOLEAN DEF TypeOK
<1>4. Allocated' = Allocated
  BY <1>2 DEF Allocated
<1>5. MappingInv' /\ QueueInv' /\ CleanPageOnDisk'
  BY ONLY <1>1, <1>2, <1>4 DEF MappingInv, QueueInv, CleanPageOnDisk, Valid, FrameOf, IPTE
<1>6. QED
  BY <1>3, <1>5 DEF IInv

(* A hit changes at most the dirty bit of its own page. *)
LEMMA HitTables ==
  ASSUME TypeOK, NEW pid \in Pids, NEW VPN \in Pages, NEW type \in Types,
         pageTable' = IF type = "W" THEN [pageTable EXCEPT ![pid][VPN].dirty = TRUE]
                                    ELSE pageTable
  PROVE  TablesHit(pid, VPN, type)
<1>1. pageTable \in [Pids -> [Pages -> PTE]]
  BY DEF TypeOK
<1>2. CASE type = "W"
  <2> DEFINE pte == [pageTable[pid][VPN] EXCEPT !.dirty = TRUE]
  <2>1. pageTable' = [pageTable EXCEPT ![pid] = [@ EXCEPT ![VPN] = pte]]
    BY <1>2
  <2>2. /\ pte \in PTE /\ pte.dirty = TRUE
        /\ pte.valid = pageTable[pid][VPN].valid
        /\ pte.PFN = pageTable[pid][VPN].PFN
    BY <1>1 DEF PTE
  <2> HIDE DEF pte
  <2>3. pageTable' \in [Pids -> [Pages -> PTE]]
    BY ONLY <1>1, <2>1, <2>2, pid \in Pids, VPN \in Pages
  <2>4. \A p \in Pids, v \in Pages :
          pageTable'[p][v] = IF p = pid /\ v = VPN THEN pte ELSE pageTable[p][v]
    BY ONLY <1>1, <2>1, pid \in Pids, VPN \in Pages
  <2>5. QED
    BY <1>2, <2>2, <2>3, <2>4 DEF TablesHit
<1>3. CASE type # "W"
  BY <1>1, <1>3 DEF TablesHit
<1>4. QED
  BY <1>2, <1>3

LEMMA PageHitIInv ==
  ASSUME IInv, NEW pid \in Pids, NEW VPN \in Pages, NEW type \in Types, NEW byte \in Byte,
         PageHit(pid, VPN, type, byte)
  PROVE  IInv'
<1> DEFINE PFN == pageTable[pid][VPN].PFN
<1>1. TypeOK /\ MappingInv /\ QueueInv /\ CleanPageOnDisk
  BY DEF IInv
<1>2. Valid(pid, VPN) /\ PFN \in Allocated /\ PFN \in Frames
  <2>1. Valid(pid, VPN)
    BY DEF PageHit, Valid
  <2>2. PFN \in Allocated
    BY <1>1, <2>1 DEF MappingInv, FrameOf
  <2>3. QED
    BY <1>1, <2>1, <2>2, AllocatedAreFrames
<1>3. /\ Access(pid, VPN, type, byte, PFN, TRUE, PHYSICAL_MEM)
      /\ QueuesAfterHit(PFN)
      /\ UNCHANGED <<replacementPolicy, invertedPageTable, nextFreeFrame, SWAP_DISK>>
      /\ stats' = [stats EXCEPT !.hitCount = @ + 1]
      /\ pageTable' = IF type = "W" THEN [pageTable EXCEPT ![pid][VPN].dirty = TRUE]
                                    ELSE pageTable
  BY DEF PageHit
<1>4. /\ PHYSICAL_MEM' = IF type = "W" THEN [PHYSICAL_MEM EXCEPT ![PFN] = byte]
                                       ELSE PHYSICAL_MEM
      /\ PHYSICAL_MEM' \in [Frames -> Byte]
      /\ running' \in BOOLEAN
      /\ reply' \in PageReply \cup NoReply
  BY <1>1, <1>2, <1>3, AccessEffect DEF TypeOK
<1>5. /\ fifoIndex' \in Nat \cup {-1}
      /\ head' \in Seq(Frames)
      /\ clockHead' \in Seq(ClockNode)
      /\ QueueInv'
  BY <1>1, <1>2, <1>3, QueuesHit
<1>6. /\ pageTable' \in [Pids -> [Pages -> PTE]]
      /\ \A p \in Pids, v \in Pages :
           /\ pageTable'[p][v].valid = pageTable[p][v].valid
           /\ pageTable'[p][v].PFN = pageTable[p][v].PFN
           /\ ~pageTable'[p][v].dirty =>
                ~pageTable[p][v].dirty /\ ~(type = "W" /\ p = pid /\ v = VPN)
  <2>1. pageTable' = IF type = "W" THEN [pageTable EXCEPT ![pid][VPN].dirty = TRUE]
                                   ELSE pageTable
    BY <1>3
  <2>2. TablesHit(pid, VPN, type)
    BY ONLY <1>1, <2>1, HitTables, pid \in Pids, VPN \in Pages, type \in Types
  <2>3. QED
    BY ONLY <2>2 DEF TablesHit
<1>7. stats' \in STATS
  <2>1. stats \in STATS
    BY <1>1 DEF TypeOK
  <2>2. QED
    BY <1>3, <2>1, StatsCount
<1>8. TypeOK'
  <2>1. /\ replacementPolicy' \in Policy
        /\ invertedPageTable' \in [Frames -> [pid : Int, VPN : Int]]
        /\ nextFreeFrame' \in 0 .. MAX_PFN
        /\ SWAP_DISK' \in [Pids -> [Pages -> Byte]]
    BY <1>1, <1>3 DEF TypeOK
  <2>2. QED
    BY ONLY <1>4, <1>5, <1>6, <1>7, <2>1 DEF TypeOK
<1>9. MappingInv'
  <2>1. Allocated' = Allocated
    BY <1>3 DEF Allocated
  <2>2. \A p \in Pids, v \in Pages :
          (Valid(p, v)' <=> Valid(p, v)) /\ FrameOf(p, v)' = FrameOf(p, v)
    BY <1>6 DEF Valid, FrameOf
  <2>3. invertedPageTable' = invertedPageTable
    BY <1>3
  <2>4. QED
    BY <1>1, <2>1, <2>2, <2>3 DEF MappingInv, IPTE
<1>10. CleanPageOnDisk'
  <2> SUFFICES ASSUME NEW p \in Pids, NEW v \in Pages, Valid(p, v)', ~pageTable'[p][v].dirty
               PROVE  PHYSICAL_MEM'[pageTable'[p][v].PFN] = SWAP_DISK'[p][v]
    BY DEF CleanPageOnDisk, FrameOf
  <2>1. /\ Valid(p, v) /\ ~pageTable[p][v].dirty
        /\ pageTable'[p][v].PFN = pageTable[p][v].PFN
        /\ ~(type = "W" /\ p = pid /\ v = VPN)
    BY <1>6 DEF Valid
  <2>2. PHYSICAL_MEM[pageTable[p][v].PFN] = SWAP_DISK[p][v]
    BY <1>1, <2>1 DEF CleanPageOnDisk, FrameOf
  <2>3. CASE type # "W"
    BY <1>3, <1>4, <2>1, <2>2, <2>3
  <2>4. CASE type = "W"
    <3>1. pageTable[p][v].PFN # PFN
      <4>1. <<p, v>> # <<pid, VPN>>
        BY <2>1, <2>4
      <4>2. /\ invertedPageTable[pageTable[p][v].PFN] = [pid |-> p, VPN |-> v]
            /\ invertedPageTable[PFN] = [pid |-> pid, VPN |-> VPN]
        BY <1>1, <1>2, <2>1 DEF MappingInv, FrameOf
      <4>3. QED
        BY <4>1, <4>2
    <3>2. pageTable[p][v].PFN \in Frames
      BY <1>1, <2>1, AllocatedAreFrames DEF MappingInv, FrameOf
    <3>3. QED
      BY <1>1, <1>3, <1>4, <2>1, <2>2, <2>4, <3>1, <3>2 DEF TypeOK
  <2>5. QED
    BY <2>3, <2>4
<1>11. QED
  BY <1>5, <1>8, <1>9, <1>10 DEF IInv

LEMMA LoadPageEffect ==
  ASSUME TypeOK, NEW pid \in Pids, NEW VPN \in Pages, NEW type \in Types, NEW byte \in Byte,
         NEW STATE PFN, PFN \in Frames,
         NEW STATE pt, pt \in [Pids -> [Pages -> PTE]], NEW STATE disk, disk \in [Pids -> [Pages -> Byte]],
         LoadPage(pid, VPN, type, byte, PFN, pt, disk)
  PROVE  Loaded(pid, VPN, type, byte, PFN, pt, disk)
<1> DEFINE mem == [PHYSICAL_MEM EXCEPT ![PFN] = disk[pid][VPN]]
           own == [pid |-> pid, VPN |-> VPN]
<1>1. /\ SWAP_DISK' = disk
      /\ replacementPolicy' = replacementPolicy
      /\ invertedPageTable' = [invertedPageTable EXCEPT ![PFN] = own]
      /\ Access(pid, VPN, type, byte, PFN, FALSE, mem)
  BY DEF LoadPage
<1>2. PICK d \in BOOLEAN :
        /\ pageTable' = [pt EXCEPT ![pid][VPN] = [PFN |-> PFN, valid |-> TRUE, dirty |-> d]]
        /\ type = "W" => d
  <2> DEFINE D == DirtyOnLoad(type, invertedPageTable[PFN], pt)
  <2>1. CASE type = "W"
    <3>1. D = {TRUE}
      BY <2>1 DEF DirtyOnLoad
    <3>2. QED
      BY <2>1, <3>1 DEF LoadPage
  <2>2. CASE type # "W"
    <3>1. D \subseteq BOOLEAN
      <4>1. CASE type = "R"
        BY <4>1 DEF DirtyOnLoad
      <4>2. CASE type = "X" /\ invertedPageTable[PFN] \in IPTE
        <5>1. pt[invertedPageTable[PFN].pid][invertedPageTable[PFN].VPN].dirty \in BOOLEAN
          BY <4>2 DEF IPTE, PTE
        <5>2. QED
          BY <4>2, <5>1 DEF DirtyOnLoad
      <4>3. CASE type = "X" /\ invertedPageTable[PFN] \notin IPTE
        BY <4>3 DEF DirtyOnLoad
      <4>4. QED
        BY <2>2, <4>1, <4>2, <4>3 DEF Types
    <3>2. PICK d \in D :
            pageTable' = [pt EXCEPT ![pid][VPN] = [PFN |-> PFN, valid |-> TRUE, dirty |-> d]]
      BY DEF LoadPage
    <3>3. QED
      BY <2>2, <3>1, <3>2
  <2>3. QED
    BY <2>1, <2>2
<1> DEFINE pte == [PFN |-> PFN, valid |-> TRUE, dirty |-> d]
<1>3. /\ pte \in PTE /\ own \in IPTE /\ own \in [pid : Int, VPN : Int]
      /\ pte.PFN = PFN /\ pte.valid = TRUE /\ pte.dirty = d
      /\ own.pid = pid /\ own.VPN = VPN
  BY DEF PTE, IPTE, Pids, Pages, Frames
<1>4. mem \in [Frames -> Byte] /\ mem[PFN] = disk[pid][VPN]
  BY DEF TypeOK
<1> HIDE DEF mem
<1>5. /\ PHYSICAL_MEM' = IF type = "W" THEN [mem EXCEPT ![PFN] = byte] ELSE mem
      /\ PHYSICAL_MEM' \in [Frames -> Byte]
      /\ running' \in BOOLEAN
      /\ reply' \in PageReply \cup NoReply
      /\ Answer(pid, VPN, type, PFN, FALSE)
  <2>1. /\ TypeOK /\ pid \in Pids /\ VPN \in Pages /\ type \in Types /\ byte \in Byte
        /\ PFN \in Frames /\ FALSE \in BOOLEAN /\ mem \in [Frames -> Byte]
    BY <1>4
  <2>2. Access(pid, VPN, type, byte, PFN, FALSE, mem)
    BY <1>1
  <2>3. QED
    BY ONLY <2>1, <2>2, AccessEffect
<1>6. \A f \in Frames : f # PFN => PHYSICAL_MEM'[f] = PHYSICAL_MEM[f]
  <2>1. CASE type = "W"
    BY <1>5, <2>1 DEF TypeOK, mem
  <2>2. CASE type # "W"
    BY <1>5, <2>2 DEF TypeOK, mem
  <2>3. QED
    BY <2>1, <2>2
<1>7. PHYSICAL_MEM'[PFN] = IF type = "W" THEN byte ELSE disk[pid][VPN]
  BY <1>4, <1>5
<1>8. pageTable' = [pt EXCEPT ![pid][VPN] = pte]
  BY <1>2
<1> HIDE DEF own, pte
<1>9. /\ pageTable' \in [Pids -> [Pages -> PTE]]
      /\ \A p \in Pids, v \in Pages :
           pageTable'[p][v] = IF p = pid /\ v = VPN THEN pte ELSE pt[p][v]
  <2>1. pageTable' = [pt EXCEPT ![pid] = [@ EXCEPT ![VPN] = pte]]
    BY <1>8
  <2>2. QED
    BY <1>3, <2>1
<1>10. /\ invertedPageTable' \in [Frames -> [pid : Int, VPN : Int]]
       /\ \A f \in Frames : invertedPageTable'[f] = IF f = PFN THEN own ELSE invertedPageTable[f]
  BY <1>1, <1>3 DEF TypeOK
<1>11. QED
  <2>1. pageTable'[pid][VPN] = pte
    BY <1>9
  <2>2. \A p \in Pids, v \in Pages : ~(p = pid /\ v = VPN) => pageTable'[p][v] = pt[p][v]
    BY <1>9
  <2>3. \A f \in Frames : invertedPageTable'[f] =
          IF f = PFN THEN [pid |-> pid, VPN |-> VPN] ELSE invertedPageTable[f]
    BY <1>10 DEF own
  <2>4. QED
    BY ONLY <1>1, <1>2, <1>3, <1>5, <1>6, <1>7, <1>9, <1>10, <2>1, <2>2, <2>3 DEF Loaded

(* Loading a page keeps the tables inverse and the dirty bits honest, if    *)
(* the page tables pt and the disk it starts from were so for every frame   *)
(* but the one it loads.                                                    *)
LEMMA LoadPageKeeps ==
  ASSUME TypeOK, NEW pid \in Pids, NEW VPN \in Pages, NEW type \in Types, NEW byte \in Byte,
         NEW STATE PFN, PFN \in Frames,
         NEW STATE pt, pt \in [Pids -> [Pages -> PTE]], NEW STATE disk, disk \in [Pids -> [Pages -> Byte]],
         LoadPage(pid, VPN, type, byte, PFN, pt, disk),
         Allocated' \subseteq Frames, PFN \in Allocated',
         ~pt[pid][VPN].valid,
         InverseBut(Allocated', PFN, pt), CleanOn(pt, disk)
  PROVE  /\ replacementPolicy' = replacementPolicy
         /\ pageTable' \in [Pids -> [Pages -> PTE]]
         /\ invertedPageTable' \in [Frames -> [pid : Int, VPN : Int]]
         /\ PHYSICAL_MEM' \in [Frames -> Byte]
         /\ SWAP_DISK' \in [Pids -> [Pages -> Byte]]
         /\ running' \in BOOLEAN
         /\ reply' \in PageReply \cup NoReply
         /\ MappingInv'
         /\ CleanPageOnDisk'
<1>1. /\ replacementPolicy' = replacementPolicy
      /\ SWAP_DISK' = disk
      /\ pageTable' \in [Pids -> [Pages -> PTE]]
      /\ pageTable'[pid][VPN].valid /\ pageTable'[pid][VPN].PFN = PFN
      /\ type = "W" => pageTable'[pid][VPN].dirty
      /\ \A p \in Pids, v \in Pages : ~(p = pid /\ v = VPN) => pageTable'[p][v] = pt[p][v]
      /\ invertedPageTable' \in [Frames -> [pid : Int, VPN : Int]]
      /\ \A f \in Frames : invertedPageTable'[f] =
           IF f = PFN THEN [pid |-> pid, VPN |-> VPN] ELSE invertedPageTable[f]
      /\ PHYSICAL_MEM' \in [Frames -> Byte]
      /\ \A f \in Frames : f # PFN => PHYSICAL_MEM'[f] = PHYSICAL_MEM[f]
      /\ type # "W" => PHYSICAL_MEM'[PFN] = disk[pid][VPN]
      /\ running' \in BOOLEAN
      /\ reply' \in PageReply \cup NoReply
  <2>1. Loaded(pid, VPN, type, byte, PFN, pt, disk)
    BY LoadPageEffect
  <2>2. QED
    BY ONLY <2>1 DEF Loaded
<1>2. [pid |-> pid, VPN |-> VPN] \in IPTE
  BY DEF IPTE
<1>3. MappingInv'
  <2>1. ASSUME NEW f \in Allocated'
        PROVE  /\ invertedPageTable'[f] \in IPTE
               /\ pageTable'[invertedPageTable'[f].pid][invertedPageTable'[f].VPN].valid
               /\ pageTable'[invertedPageTable'[f].pid][invertedPageTable'[f].VPN].PFN = f
    <3>1. CASE f = PFN
      BY <1>1, <1>2, <3>1
    <3>2. CASE f # PFN
      <4> DEFINE ipte == invertedPageTable[f]
      <4>1. ipte \in IPTE /\ pt[ipte.pid][ipte.VPN].valid /\ pt[ipte.pid][ipte.VPN].PFN = f
        BY <3>2 DEF InverseBut
      <4>2. invertedPageTable'[f] = ipte
        BY <1>1, <3>2
      <4>3. ipte.pid \in Pids /\ ipte.VPN \in Pages
        BY <4>1 DEF IPTE
      <4>4. ~(ipte.pid = pid /\ ipte.VPN = VPN)
        BY <4>1
      <4>5. pageTable'[ipte.pid][ipte.VPN] = pt[ipte.pid][ipte.VPN]
        BY <1>1, <4>3, <4>4
      <4>6. QED
        BY <4>1, <4>2, <4>5
    <3>3. QED
      BY <3>1, <3>2
  <2>2. ASSUME NEW p \in Pids, NEW v \in Pages, pageTable'[p][v].valid
        PROVE  /\ pageTable'[p][v].PFN \in Allocated'
               /\ invertedPageTable'[pageTable'[p][v].PFN] = [pid |-> p, VPN |-> v]
    <3>1. CASE p = pid /\ v = VPN
      BY <1>1, <3>1
    <3>2. CASE ~(p = pid /\ v = VPN)
      <4>1. pageTable'[p][v] = pt[p][v]
        BY <1>1, <3>2
      <4>2. QED
        BY <1>1, <2>2, <4>1 DEF InverseBut
    <3>3. QED
      BY <3>1, <3>2
  <2>3. IPTE' = IPTE
    BY DEF IPTE
  <2>4. QED
    BY <2>1, <2>2, <2>3 DEF MappingInv, Valid, FrameOf
<1>4. CleanPageOnDisk'
  <2> SUFFICES ASSUME NEW p \in Pids, NEW v \in Pages,
                      pageTable'[p][v].valid, ~pageTable'[p][v].dirty
               PROVE  PHYSICAL_MEM'[pageTable'[p][v].PFN] = SWAP_DISK'[p][v]
    BY DEF CleanPageOnDisk, Valid, FrameOf
  <2>1. CASE p = pid /\ v = VPN
    BY <1>1, <2>1
  <2>2. CASE ~(p = pid /\ v = VPN)
    <3>1. pageTable'[p][v] = pt[p][v]
      BY <1>1, <2>2
    <3>2. pt[p][v].PFN \in Frames /\ pt[p][v].PFN # PFN
      <4>1. pt[p][v].valid
        BY <3>1
      <4>2. pt[p][v].PFN \in Allocated' \ {PFN}
        BY ONLY <4>1, p \in Pids, v \in Pages, InverseBut(Allocated', PFN, pt) DEF InverseBut
      <4>3. QED
        BY ONLY <4>2, Allocated' \subseteq Frames
    <3>3. PHYSICAL_MEM'[pt[p][v].PFN] = PHYSICAL_MEM[pt[p][v].PFN]
      BY <1>1, <3>2
    <3>4. QED
      BY <1>1, <3>1, <3>3 DEF CleanOn
  <2>3. QED
    BY <2>1, <2>2
<1>5. /\ replacementPolicy' = replacementPolicy
      /\ pageTable' \in [Pids -> [Pages -> PTE]]
      /\ invertedPageTable' \in [Frames -> [pid : Int, VPN : Int]]
      /\ PHYSICAL_MEM' \in [Frames -> Byte]
      /\ SWAP_DISK' \in [Pids -> [Pages -> Byte]]
      /\ running' \in BOOLEAN
      /\ reply' \in PageReply \cup NoReply
  BY <1>1, Zenon
<1>6. QED
  BY ONLY <1>3, <1>4, <1>5

LEMMA FaultFreeIInv ==
  ASSUME IInv, NEW pid \in Pids, NEW VPN \in Pages, NEW type \in Types, NEW byte \in Byte,
         FaultFree(pid, VPN, type, byte)
  PROVE  IInv'
<1>1. TypeOK /\ MappingInv /\ QueueInv /\ CleanPageOnDisk
  BY DEF IInv
<1>2. /\ ~pageTable[pid][VPN].valid
      /\ nextFreeFrame < MAX_PFN /\ nextFreeFrame' = nextFreeFrame + 1
      /\ QueuesAfterFault(FALSE, nextFreeFrame)
      /\ stats' = [stats EXCEPT !.missCount = @ + 1, !.swapRead = @ + 1]
      /\ LoadPage(pid, VPN, type, byte, nextFreeFrame, pageTable, SWAP_DISK)
  BY <1>1, FreeFrames DEF FaultFree
<1>3. /\ nextFreeFrame \in Frames /\ nextFreeFrame \notin Allocated
      /\ nextFreeFrame' \in 0 .. MAX_PFN
      /\ Allocated' = Allocated \cup {nextFreeFrame}
      /\ Allocated' \subseteq Frames
  <2>1. nextFreeFrame \in 0 .. MAX_PFN /\ MAX_PFN \in Nat
    BY <1>1, VMAssumption DEF TypeOK
  <2>2. QED
    BY ONLY <1>2, <2>1 DEF Allocated, Frames
<1>4. InverseBut(Allocated', nextFreeFrame, pageTable)
  BY <1>1, <1>3 DEF InverseBut, MappingInv, Valid, FrameOf
<1>5. CleanOn(pageTable, SWAP_DISK)
  BY <1>1 DEF CleanOn, CleanPageOnDisk, Valid, FrameOf
<1>7. /\ pageTable \in [Pids -> [Pages -> PTE]] /\ SWAP_DISK \in [Pids -> [Pages -> Byte]]
      /\ nextFreeFrame \in Allocated'
  BY <1>1, <1>3 DEF TypeOK
<1>8. /\ replacementPolicy' = replacementPolicy
      /\ pageTable' \in [Pids -> [Pages -> PTE]]
      /\ invertedPageTable' \in [Frames -> [pid : Int, VPN : Int]]
      /\ PHYSICAL_MEM' \in [Frames -> Byte]
      /\ SWAP_DISK' \in [Pids -> [Pages -> Byte]]
      /\ running' \in BOOLEAN
      /\ reply' \in PageReply \cup NoReply
      /\ MappingInv'
      /\ CleanPageOnDisk'
  BY ONLY <1>1, <1>2, <1>3, <1>4, <1>5, <1>7, LoadPageKeeps,
          pid \in Pids, VPN \in Pages, type \in Types, byte \in Byte
<1>9. /\ fifoIndex' \in Nat \cup {-1} /\ head' \in Seq(Frames) /\ clockHead' \in Seq(ClockNode)
      /\ QueueInv'
  BY <1>1, <1>2, <1>8, QueuesFree
<1>10. stats' \in STATS
  BY <1>1, <1>2, StatsCount DEF TypeOK
<1>11. TypeOK'
  BY ONLY <1>1, <1>3, <1>8, <1>9, <1>10 DEF TypeOK
<1>12. QED
  BY <1>8, <1>9, <1>11 DEF IInv

(* The victim's page leaves the tables and its byte goes to the disk. *)
LEMMA EvictEffect ==
  ASSUME TypeOK, MappingInv, NEW STATE PFN, PFN \in Frames, Allocated = Frames
  PROVE  VictimGone(PFN, TablesWithout(PFN), DiskWith(PFN))
<1> DEFINE ipte == invertedPageTable[PFN]
           pte  == pageTable[ipte.pid][ipte.VPN]
           gone == [pte EXCEPT !.valid = FALSE]
           pt   == TablesWithout(PFN)
           disk == DiskWith(PFN)
<1>1. /\ ipte \in IPTE /\ ipte.pid \in Pids /\ ipte.VPN \in Pages
      /\ pte.valid /\ pte.PFN = PFN
  BY DEF MappingInv, IPTE, Valid, FrameOf
<1>2. /\ pageTable \in [Pids -> [Pages -> PTE]] /\ SWAP_DISK \in [Pids -> [Pages -> Byte]]
      /\ PHYSICAL_MEM[PFN] \in Byte
  BY DEF TypeOK
<1>3. pte \in PTE
  BY <1>1, <1>2
<1>4. /\ gone \in PTE /\ gone.valid = FALSE
      /\ pt = [pageTable EXCEPT ![ipte.pid] = [@ EXCEPT ![ipte.VPN] = gone]]
  BY <1>1, <1>2, <1>3 DEF PTE, TablesWithout
<1>5. disk = [SWAP_DISK EXCEPT ![ipte.pid] = [@ EXCEPT ![ipte.VPN] = PHYSICAL_MEM[PFN]]]
  BY <1>1 DEF DiskWith
<1> HIDE DEF gone, ipte, pt, disk
<1>6. /\ pt \in [Pids -> [Pages -> PTE]]
      /\ \A p \in Pids, v \in Pages :
           pt[p][v] = IF p = ipte.pid /\ v = ipte.VPN THEN gone ELSE pageTable[p][v]
  BY ONLY <1>1, <1>2, <1>4
<1>7. /\ disk \in [Pids -> [Pages -> Byte]]
      /\ \A p \in Pids, v \in Pages : disk[p][v] =
           IF p = ipte.pid /\ v = ipte.VPN THEN PHYSICAL_MEM[PFN] ELSE SWAP_DISK[p][v]
  BY ONLY <1>1, <1>2, <1>5
<1>8. QED
  BY ONLY <1>1, <1>4, <1>6, <1>7 DEF VictimGone, Valid, FrameOf, ipte, pt, disk

(* What is left of the tables and the disk is as sound as before. *)
LEMMA EvictKeeps ==
  ASSUME MappingInv, CleanPageOnDisk, Allocated = Frames,
         NEW STATE PFN, PFN \in Frames, NEW STATE pt, NEW STATE disk, VictimGone(PFN, pt, disk)
  PROVE  InverseBut(Frames, PFN, pt) /\ CleanOn(pt, disk)
<1> DEFINE ipte == invertedPageTable[PFN]
<1>1. /\ ipte.pid \in Pids /\ ipte.VPN \in Pages
      /\ pageTable[ipte.pid][ipte.VPN].PFN = PFN
  BY DEF VictimGone, IPTE, FrameOf
<1>2. ASSUME NEW p \in Pids, NEW v \in Pages, pt[p][v].valid
      PROVE  /\ pt[p][v] = pageTable[p][v] /\ pageTable[p][v].valid
             /\ disk[p][v] = SWAP_DISK[p][v]
             /\ pt[p][v].PFN \in Frames \ {PFN}
             /\ invertedPageTable[pt[p][v].PFN] = [pid |-> p, VPN |-> v]
  <2>1. ~(p = ipte.pid /\ v = ipte.VPN)
    BY <1>2 DEF VictimGone
  <2>2. /\ pt[p][v] = pageTable[p][v] /\ pageTable[p][v].valid
        /\ disk[p][v] = SWAP_DISK[p][v]
    BY <1>2, <2>1 DEF VictimGone
  <2>3. /\ pageTable[p][v].PFN \in Frames
        /\ invertedPageTable[pageTable[p][v].PFN] = [pid |-> p, VPN |-> v]
    BY <2>2 DEF MappingInv, Valid, FrameOf
  <2>4. pageTable[p][v].PFN # PFN
    BY <2>1, <2>3
  <2>5. QED
    BY <2>2, <2>3, <2>4
<1>3. ASSUME NEW f \in Frames, f # PFN
      PROVE  /\ invertedPageTable[f] \in IPTE
             /\ pt[invertedPageTable[f].pid][invertedPageTable[f].VPN].valid
             /\ pt[invertedPageTable[f].pid][invertedPageTable[f].VPN].PFN = f
  <2> DEFINE o == invertedPageTable[f]
  <2>1. /\ o \in IPTE /\ o.pid \in Pids /\ o.VPN \in Pages
        /\ pageTable[o.pid][o.VPN].valid /\ pageTable[o.pid][o.VPN].PFN = f
    BY DEF MappingInv, IPTE, Valid, FrameOf
  <2>2. ~(o.pid = ipte.pid /\ o.VPN = ipte.VPN)
    BY <1>1, <1>3, <2>1
  <2>3. pt[o.pid][o.VPN] = pageTable[o.pid][o.VPN]
    BY <2>1, <2>2 DEF VictimGone
  <2>4. QED
    BY <2>1, <2>3
<1>4. InverseBut(Frames, PFN, pt)
  BY ONLY <1>2, <1>3 DEF InverseBut
<1>5. CleanOn(pt, disk)
  <2> SUFFICES ASSUME NEW p \in Pids, NEW v \in Pages, pt[p][v].valid, ~pt[p][v].dirty
               PROVE  PHYSICAL_MEM[pt[p][v].PFN] = disk[p][v]
    BY DEF CleanOn
  <2>1. /\ pt[p][v] = pageTable[p][v] /\ pageTable[p][v].valid
        /\ disk[p][v] = SWAP_DISK[p][v]
    BY <1>2
  <2>2. PHYSICAL_MEM[pageTable[p][v].PFN] = SWAP_DISK[p][v]
    BY <2>1 DEF CleanPageOnDisk, Valid, FrameOf
  <2>3. QED
    BY <2>1, <2>2
<1>6. QED
  BY <1>4, <1>5

(* A fault that evicts picks a frame, evicts its page and loads the other. *)
LEMMA FaultEvictEffect ==
  ASSUME IInv, NEW pid \in Pids, NEW VPN \in Pages, NEW type \in Types, NEW byte \in Byte,
         FaultEvict(pid, VPN, type, byte)
  PROVE  /\ ~pageTable[pid][VPN].valid
         /\ nextFreeFrame' = nextFreeFrame
         /\ Allocated = Frames /\ Allocated' = Frames
         /\ find_replacement \in Frames
         /\ VictimGone(find_replacement, TablesWithout(find_replacement), DiskWith(find_replacement))
         /\ LoadPage(pid, VPN, type, byte, find_replacement,
                     TablesWithout(find_replacement), DiskWith(find_replacement))
         /\ Loaded(pid, VPN, type, byte, find_replacement,
                   TablesWithout(find_replacement), DiskWith(find_replacement))
         /\ fifoIndex' \in Nat \cup {-1} /\ head' \in Seq(Frames) /\ clockHead' \in Seq(ClockNode)
         /\ QueueInv'
<1> DEFINE PFN == find_replacement
<1>1. TypeOK /\ MappingInv /\ QueueInv
  BY DEF IInv
<1>2. /\ ~pageTable[pid][VPN].valid
      /\ nextFreeFrame >= MAX_PFN /\ nextFreeFrame' = nextFreeFrame
      /\ QueuesAfterFault(TRUE, PFN)
      /\ LoadPage(pid, VPN, type, byte, PFN, TablesWithout(PFN), DiskWith(PFN))
  BY <1>1, FreeFrames DEF FaultEvict
<1>3. replacementPolicy' = replacementPolicy
  BY <1>2 DEF LoadPage
<1>4. /\ PFN \in Frames
      /\ fifoIndex' \in Nat \cup {-1} /\ head' \in Seq(Frames) /\ clockHead' \in Seq(ClockNode)
      /\ QueueInv'
  BY <1>1, <1>2, <1>3, QueuesEvict
<1>5. Allocated = Frames /\ Allocated' = Frames
  BY <1>1, <1>2, VMAssumption DEF TypeOK, Allocated, Frames
<1> HIDE DEF PFN
<1>6. VictimGone(PFN, TablesWithout(PFN), DiskWith(PFN))
  BY <1>1, <1>4, <1>5, EvictEffect
<1>7. TablesWithout(PFN) \in [Pids -> [Pages -> PTE]] /\ DiskWith(PFN) \in [Pids -> [Pages -> Byte]]
  BY <1>6 DEF VictimGone
<1>8. Loaded(pid, VPN, type, byte, PFN, TablesWithout(PFN), DiskWith(PFN))
  BY <1>1, <1>2, <1>4, <1>7, LoadPageEffect
<1>9. QED
  BY <1>2, <1>4, <1>5, <1>6, <1>8 DEF PFN

LEMMA FaultEvictIInv ==
  ASSUME IInv, NEW pid \in Pids, NEW VPN \in Pages, NEW type \in Types, NEW byte \in Byte,
         FaultEvict(pid, VPN, type, byte)
  PROVE  IInv'
<1> DEFINE PFN  == find_replacement
           pt   == TablesWithout(PFN)
           disk == DiskWith(PFN)
<1>1. TypeOK /\ MappingInv /\ CleanPageOnDisk
  BY DEF IInv
<1>2. /\ ~pageTable[pid][VPN].valid
      /\ nextFreeFrame' = nextFreeFrame
      /\ Allocated = Frames /\ Allocated' = Frames
      /\ PFN \in Frames
      /\ VictimGone(PFN, pt, disk)
      /\ LoadPage(pid, VPN, type, byte, PFN, pt, disk)
      /\ fifoIndex' \in Nat \cup {-1} /\ head' \in Seq(Frames) /\ clockHead' \in Seq(ClockNode)
      /\ QueueInv'
  BY FaultEvictEffect
<1> HIDE DEF PFN, pt, disk
<1>3. InverseBut(Frames, PFN, pt) /\ CleanOn(pt, disk)
  BY <1>1, <1>2, EvictKeeps
<1>4. pt \in [Pids -> [Pages -> PTE]] /\ disk \in [Pids -> [Pages -> Byte]]
  BY <1>2 DEF VictimGone
<1>5. ~pt[pid][VPN].valid
  BY <1>2 DEF VictimGone
<1>6. InverseBut(Allocated', PFN, pt) /\ Allocated' \subseteq Frames /\ PFN \in Allocated'
  BY <1>2, <1>3
<1>7. /\ replacementPolicy' = replacementPolicy
      /\ pageTable' \in [Pids -> [Pages -> PTE]]
      /\ invertedPageTable' \in [Frames -> [pid : Int, VPN : Int]]
      /\ PHYSICAL_MEM' \in [Frames -> Byte]
      /\ SWAP_DISK' \in [Pids -> [Pages -> Byte]]
      /\ running' \in BOOLEAN
      /\ reply' \in PageReply \cup NoReply
      /\ MappingInv'
      /\ CleanPageOnDisk'
  BY ONLY <1>1, <1>2, <1>3, <1>4, <1>5, <1>6, LoadPageKeeps,
          pid \in Pids, VPN \in Pages, type \in Types, byte \in Byte
<1>8. stats' \in STATS
  BY <1>1, StatsCount DEF TypeOK, FaultEvict
<1>9. TypeOK'
  BY ONLY <1>1, <1>2, <1>7, <1>8 DEF TypeOK
<1>10. QED
  BY <1>2, <1>7, <1>9 DEF IInv

LEMMA WildReadIInv ==
  ASSUME IInv, NEW pid \in Pids, NEW VPN \in Pages, WildRead(pid, VPN)
  PROVE  IInv'
<1>1. /\ reply' = [type |-> "fatal"] /\ running' = FALSE
      /\ UNCHANGED <<replacementPolicy, tables, PHYSICAL_MEM, SWAP_DISK, queues, stats>>
  BY DEF WildRead
<1>2. QED
  BY <1>1, QuietIInv DEF NoReply

LEMMA NextIInv == IInv /\ [Next]_vars => IInv'
<1> SUFFICES ASSUME IInv, [Next]_vars PROVE IInv'
  OBVIOUS
<1>1. ASSUME NEW pid \in Pids, NEW VPN \in Pages, NEW type \in {"R", "W", "X"}, NEW byte \in Byte,
             Serve(pid, VPN, type, byte)
      PROVE  IInv'
  BY <1>1, PageHitIInv, FaultFreeIInv, WildReadIInv, FaultEvictIInv DEF Serve, Types
<1>2. CASE Skip
  BY <1>2, QuietIInv DEF Skip, NoReply, IInv, TypeOK
<1>3. CASE pt_print_stats
  BY <1>3, QuietIInv DEF pt_print_stats, NoReply
<1>4. CASE UNCHANGED vars
  BY <1>4, QuietIInv DEF vars, IInv, TypeOK
<1>5. QED
  BY <1>1, <1>2, <1>3, <1>4 DEF Next

-----------------------------------------------------------------------------
(* The safety theorems. *)

(* The strengthened invariant holds in every reachable state. *)
THEOREM Invariance == Spec => []IInv
BY InitIInv, NextIInv, PTL DEF Spec

(* The variables keep their types: in particular every frame a policy      *)
(* picks is a frame, and no list ever holds anything else                  *)
(* (pagetable.c:63-71).                                                    *)
THEOREM TypeCorrect == Spec => []TypeOK
<1>1. IInv => TypeOK
  BY DEF IInv
<1>2. QED
  BY <1>1, Invariance, PTL

(* The page tables and the inverted page table are inverse to each other,  *)
(* so no two pages ever share a frame (pagetable.c:73-133).                *)
THEOREM MappingCorrect == Spec => []MappingInv
<1>1. IInv => MappingInv
  BY DEF IInv
<1>2. QED
  BY <1>1, Invariance, PTL

(* The lists of LRU and CLOCK hold every frame handed out exactly once     *)
(* (pagetable.c:29-38, 83-109, 148-155).                                   *)
THEOREM QueuesCorrect == Spec => []QueueInv
<1>1. IInv => QueueInv
  BY DEF IInv
<1>2. QED
  BY <1>1, Invariance, PTL

(* A clean resident page is the same in memory and on the swap disk, so    *)
(* writing back only dirty pages would lose nothing (pagetable.c:93-97).   *)
THEOREM CleanPagesCorrect == Spec => []CleanPageOnDisk
<1>1. IInv => CleanPageOnDisk
  BY DEF IInv
<1>2. QED
  BY <1>1, Invariance, PTL

-----------------------------------------------------------------------------
(* The action property. *)

(* What EvictionIsReplacement says of one step. *)
ReplacementStep ==
  \A pid \in Pids, VPN \in Pages :
    Valid(pid, VPN) /\ ~Valid(pid, VPN)' =>
      /\ nextFreeFrame = MAX_PFN
      /\ \E p \in Pids, v \in Pages :
           ~Valid(p, v) /\ Valid(p, v)' /\ FrameOf(p, v)' = FrameOf(pid, VPN)

LEMMA FreeKeepsPages ==
  ASSUME IInv, NEW pid \in Pids, NEW VPN \in Pages, NEW type \in Types, NEW byte \in Byte,
         FaultFree(pid, VPN, type, byte), NEW p \in Pids, NEW v \in Pages, Valid(p, v)
  PROVE  Valid(p, v)'
<1>1. TypeOK
  BY DEF IInv
<1>2. /\ nextFreeFrame < MAX_PFN
      /\ LoadPage(pid, VPN, type, byte, nextFreeFrame, pageTable, SWAP_DISK)
  BY <1>1, FreeFrames DEF FaultFree
<1>3. /\ nextFreeFrame \in Frames
      /\ pageTable \in [Pids -> [Pages -> PTE]] /\ SWAP_DISK \in [Pids -> [Pages -> Byte]]
  <2>1. nextFreeFrame \in 0 .. MAX_PFN /\ MAX_PFN \in Nat
    BY <1>1, VMAssumption DEF TypeOK
  <2>2. nextFreeFrame \in Frames
    BY ONLY <1>2, <2>1 DEF Frames
  <2>3. QED
    BY <1>1, <2>2 DEF TypeOK
<1>4. Loaded(pid, VPN, type, byte, nextFreeFrame, pageTable, SWAP_DISK)
  BY ONLY <1>1, <1>2, <1>3, LoadPageEffect,
          pid \in Pids, VPN \in Pages, type \in Types, byte \in Byte
<1>5. QED
  BY <1>4 DEF Loaded, Valid

LEMMA EvictReplaces ==
  ASSUME IInv, NEW pid \in Pids, NEW VPN \in Pages, NEW type \in Types, NEW byte \in Byte,
         FaultEvict(pid, VPN, type, byte)
  PROVE  ReplacementStep
<1> DEFINE PFN  == find_replacement
           pt   == TablesWithout(PFN)
           disk == DiskWith(PFN)
           ipte == invertedPageTable[PFN]
<1>1. /\ ~pageTable[pid][VPN].valid /\ PFN \in Frames
      /\ VictimGone(PFN, pt, disk)
      /\ Loaded(pid, VPN, type, byte, PFN, pt, disk)
  BY FaultEvictEffect
<1>2. nextFreeFrame = MAX_PFN
  <2>1. nextFreeFrame \in 0 .. MAX_PFN /\ MAX_PFN \in Nat
    BY VMAssumption DEF IInv, TypeOK
  <2>2. nextFreeFrame >= MAX_PFN
    BY FreeFrames DEF IInv, FaultEvict
  <2>3. QED
    BY ONLY <2>1, <2>2
<1> HIDE DEF PFN, pt, disk
<1>3. /\ ~Valid(pid, VPN) /\ Valid(pid, VPN)' /\ FrameOf(pid, VPN)' = PFN
      /\ \A p \in Pids, v \in Pages : ~(p = pid /\ v = VPN) => pageTable'[p][v] = pt[p][v]
  BY <1>1 DEF Loaded, Valid, FrameOf
<1>4. ASSUME NEW p \in Pids, NEW v \in Pages, Valid(p, v), ~Valid(p, v)'
      PROVE  FrameOf(p, v) = PFN
  <2>1. ~pt[p][v].valid
    BY <1>3, <1>4 DEF Valid
  <2>2. p = ipte.pid /\ v = ipte.VPN
    BY <1>1, <1>4, <2>1 DEF VictimGone, Valid
  <2>3. QED
    BY <1>1, <2>2 DEF VictimGone
<1>5. QED
  BY <1>2, <1>3, <1>4 DEF ReplacementStep

LEMMA NextReplaces == IInv /\ [Next]_vars => [ReplacementStep]_vars
<1> SUFFICES ASSUME IInv, Next PROVE ReplacementStep
  OBVIOUS
<1>1. ASSUME NEW pid \in Pids, NEW VPN \in Pages, NEW type \in {"R", "W", "X"}, NEW byte \in Byte,
             Serve(pid, VPN, type, byte)
      PROVE  ReplacementStep
  <2>1. CASE PageHit(pid, VPN, type, byte)
    <3>1. TablesHit(pid, VPN, type)
      BY <2>1, HitTables DEF PageHit, IInv, Types
    <3>2. QED
      BY <3>1 DEF ReplacementStep, TablesHit, Valid
  <2>2. CASE FaultFree(pid, VPN, type, byte)
    BY <2>2, FreeKeepsPages DEF ReplacementStep, Types
  <2>3. CASE WildRead(pid, VPN)
    BY <2>3 DEF WildRead, tables, ReplacementStep, Valid
  <2>4. CASE FaultEvict(pid, VPN, type, byte)
    BY <2>4, EvictReplaces DEF Types
  <2>5. QED
    BY <1>1, <2>1, <2>2, <2>3, <2>4 DEF Serve
<1>2. CASE Skip
  BY <1>2 DEF Skip, tables, ReplacementStep, Valid
<1>3. CASE pt_print_stats
  BY <1>3 DEF pt_print_stats, tables, ReplacementStep, Valid
<1>4. QED
  BY <1>1, <1>2, <1>3 DEF Next

(* A page leaves memory only when no frame is free, and its frame goes to  *)
(* the page that the same request brings in (pagetable.c:73-133).          *)
THEOREM EvictionCorrect == Spec => EvictionIsReplacement
<1>1. IInv /\ [Next]_vars =>
        [\A pid \in Pids, VPN \in Pages :
           Valid(pid, VPN) /\ ~Valid(pid, VPN)' =>
             /\ nextFreeFrame = MAX_PFN
             /\ \E p \in Pids, v \in Pages :
                  ~Valid(p, v) /\ Valid(p, v)' /\ FrameOf(p, v)' = FrameOf(pid, VPN)]_vars
  BY NextReplaces DEF ReplacementStep
<1>2. QED
  BY <1>1, Invariance, PTL DEF Spec, EvictionIsReplacement
-----------------------------------------------------------------------------
(* The simulator of p3 implements a flat memory: every step of VM.tla is a *)
(* step of FlatMemory.tla or changes nothing it shows.  The invariant      *)
(* supplies what a step needs to know of the state before it: which frame  *)
(* holds which page.                                                       *)

(* The contents that the tables pt and the disk disk give to a page. *)
ContentsOf(pt, disk, p, v) ==
  IF pt[p][v].valid THEN PHYSICAL_MEM[pt[p][v].PFN] ELSE disk[p][v]

(* A request reads or writes its own page and no other. *)
Serves(pid, VPN, type, byte) ==
  /\ \A p \in Pids, v \in Pages :
       PageContents'[p][v] = IF p = pid /\ v = VPN /\ type = "W" THEN byte ELSE PageContents[p][v]
  /\ \/ reply' = [type |-> "fatal"] /\ type = "X"
     \/ /\ type \in {"R", "W"}
        /\ \E PFN, hit : reply' = [type |-> type, pid |-> pid, VPN |-> VPN, PFN |-> PFN,
                                   hit |-> hit, byte |-> PageContents'[pid][VPN]]

(* A table of tables that differs from another in one entry. *)
LEMMA OneEntryChanged ==
  ASSUME NEW S, NEW T, NEW f, NEW g, NEW a \in S, NEW b \in T, NEW c,
         DOMAIN f = S, \A p \in S : f[p] = [v \in T |-> f[p][v]],
         g = [p \in S |-> [v \in T |-> IF p = a /\ v = b THEN c ELSE f[p][v]]]
  PROVE  g = [f EXCEPT ![a][b] = c]
<1>1. g[a] = [f[a] EXCEPT ![b] = c]
  <2>1. g[a] = [v \in T |-> IF v = b THEN c ELSE f[a][v]]
    OBVIOUS
  <2>2. DOMAIN f[a] = T
    OBVIOUS
  <2>3. QED
    BY ONLY <2>1, <2>2, b \in T
<1>2. \A p \in S : p # a => g[p] = f[p]
  OBVIOUS
<1>3. QED
  BY <1>1, <1>2

(* A line without a byte, while no page changes, is a step of it, too. *)
LEMMA SilentStep ==
  ASSUME PageContents' = PageContents, reply' \in NoReply
  PROVE  Flat!Next
<1>1. PICK t \in {"none", "skipped", "fatal", "stats"} : reply' = [type |-> t]
  BY DEF NoReply
<1>2. PageLine' = [type |-> t]
  BY <1>1 DEF PageLine
<1>3. Flat!Refuse
  BY <1>1, <1>2 DEF Flat!Refuse, Flat!Silent
<1>4. QED
  BY <1>3 DEF Flat!Next

(* What a request does to the pages is a step of the flat memory. *)
LEMMA ServesIsFlat ==
  ASSUME NEW pid \in Pids, NEW VPN \in Pages, NEW type \in Types, NEW byte \in Byte,
         Serves(pid, VPN, type, byte)
  PROVE  Flat!Next
<1> DEFINE C == PageContents
<1>1. Pids = Flat!Pids /\ Pages = Flat!Pages
  BY DEF Pids, Pages, Flat!Pids, Flat!Pages
<1>2. /\ C = [p \in Pids |-> [v \in Pages |-> C[p][v]]]
      /\ C' = [p \in Pids |-> [v \in Pages |-> C'[p][v]]]
  BY DEF PageContents
<1>3. CASE type = "W"
  <2>1. PICK PFN, hit : reply' = [type |-> "W", pid |-> pid, VPN |-> VPN, PFN |-> PFN,
                                  hit |-> hit, byte |-> C'[pid][VPN]]
    BY <1>3 DEF Serves
  <2>2. C'[pid][VPN] = byte
    BY <1>3 DEF Serves
  <2>3. PageLine' = [type |-> "W", pid |-> pid, VPN |-> VPN, byte |-> byte]
    BY <2>1, <2>2 DEF PageLine
  <2>4. C' = [C EXCEPT ![pid][VPN] = byte]
    <3>1. \A p \in Pids, v \in Pages : C'[p][v] = IF p = pid /\ v = VPN THEN byte ELSE C[p][v]
      BY <1>3 DEF Serves
    <3> HIDE DEF C
    <3>2. C' = [p \in Pids |-> [v \in Pages |-> IF p = pid /\ v = VPN THEN byte ELSE C[p][v]]]
      BY ONLY <1>2, <3>1
    <3>3. DOMAIN C = Pids /\ \A p \in Pids : C[p] = [v \in Pages |-> C[p][v]]
      BY DEF C, PageContents
    <3>4. QED
      BY <3>2, <3>3, OneEntryChanged
  <2>5. Flat!Write(pid, VPN, byte)
    BY <2>3, <2>4 DEF Flat!Write
  <2>6. QED
    BY <1>1, <2>5 DEF Flat!Next
<1>4. CASE type # "W"
  <2>1. C' = C
    <3>1. \A p \in Pids, v \in Pages : C'[p][v] = C[p][v]
      BY <1>4 DEF Serves
    <3> HIDE DEF C
    <3>2. QED
      BY ONLY <1>2, <3>1
  <2>2. CASE type = "R"
    <3>1. PICK PFN, hit : reply' = [type |-> "R", pid |-> pid, VPN |-> VPN, PFN |-> PFN,
                                    hit |-> hit, byte |-> C'[pid][VPN]]
      BY <2>2 DEF Serves
    <3>2. PageLine' = [type |-> "R", pid |-> pid, VPN |-> VPN, byte |-> C[pid][VPN]]
      BY <2>1, <3>1 DEF PageLine
    <3>3. Flat!Read(pid, VPN)
      BY <2>1, <3>2 DEF Flat!Read
    <3>4. QED
      BY <1>1, <3>3 DEF Flat!Next
  <2>3. CASE type = "X"
    <3>1. reply' = [type |-> "fatal"]
      BY <2>3 DEF Serves
    <3>2. QED
      BY <2>1, <3>1, SilentStep DEF NoReply
  <2>4. QED
    BY <1>4, <2>2, <2>3 DEF Types
<1>5. QED
  BY <1>3, <1>4

-----------------------------------------------------------------------------
(* Each action in terms of what the pages hold. *)

LEMMA ContentsAt ==
  ASSUME NEW p \in Pids, NEW v \in Pages
  PROVE  PageContents[p][v] = ContentsOf(pageTable, SWAP_DISK, p, v)
BY DEF PageContents, ContentsOf, Valid, FrameOf

LEMMA ContentsAfter ==
  ASSUME NEW p \in Pids, NEW v \in Pages
  PROVE  PageContents'[p][v] =
           IF pageTable'[p][v].valid THEN PHYSICAL_MEM'[pageTable'[p][v].PFN] ELSE SWAP_DISK'[p][v]
BY DEF PageContents, Valid, FrameOf

(* A hit serves the page from the frame it is in. *)
LEMMA PageHitServes ==
  ASSUME IInv, NEW pid \in Pids, NEW VPN \in Pages, NEW type \in Types, NEW byte \in Byte,
         PageHit(pid, VPN, type, byte)
  PROVE  Serves(pid, VPN, type, byte)
<1> DEFINE PFN == pageTable[pid][VPN].PFN
<1>1. TypeOK /\ MappingInv
  BY DEF IInv
<1>2. /\ pageTable[pid][VPN].valid /\ PFN \in Frames
      /\ invertedPageTable[PFN] = [pid |-> pid, VPN |-> VPN]
  BY <1>1, AllocatedAreFrames DEF PageHit, MappingInv, Valid, FrameOf
<1>3. /\ Access(pid, VPN, type, byte, PFN, TRUE, PHYSICAL_MEM)
      /\ SWAP_DISK' = SWAP_DISK
      /\ pageTable' = IF type = "W" THEN [pageTable EXCEPT ![pid][VPN].dirty = TRUE]
                                    ELSE pageTable
  BY DEF PageHit
<1>4. PHYSICAL_MEM \in [Frames -> Byte] /\ pageTable \in [Pids -> [Pages -> PTE]]
  BY <1>1 DEF TypeOK
<1> HIDE DEF PFN
<1>5. /\ PHYSICAL_MEM' = IF type = "W" THEN [PHYSICAL_MEM EXCEPT ![PFN] = byte]
                                       ELSE PHYSICAL_MEM
      /\ Answer(pid, VPN, type, PFN, TRUE)
  BY ONLY <1>1, <1>2, <1>3, <1>4, AccessEffect,
          pid \in Pids, VPN \in Pages, type \in Types, byte \in Byte
<1>6. ASSUME NEW p \in Pids, NEW v \in Pages
      PROVE  /\ pageTable'[p][v].valid = pageTable[p][v].valid
             /\ pageTable'[p][v].PFN = pageTable[p][v].PFN
  BY <1>1, <1>3, HitTables DEF TablesHit
<1>7. ASSUME NEW p \in Pids, NEW v \in Pages
      PROVE  PageContents'[p][v] =
               IF p = pid /\ v = VPN /\ type = "W" THEN byte ELSE PageContents[p][v]
  <2>1. PageContents'[p][v] =
          IF pageTable[p][v].valid THEN PHYSICAL_MEM'[pageTable[p][v].PFN] ELSE SWAP_DISK[p][v]
    BY <1>3, <1>6, ContentsAfter
  <2>2. PageContents[p][v] =
          IF pageTable[p][v].valid THEN PHYSICAL_MEM[pageTable[p][v].PFN] ELSE SWAP_DISK[p][v]
    BY ContentsAt DEF ContentsOf
  <2>3. CASE p = pid /\ v = VPN
    BY <1>2, <1>4, <1>5, <2>1, <2>2, <2>3 DEF PFN
  <2>4. CASE ~(p = pid /\ v = VPN) /\ pageTable[p][v].valid
    <3>1. /\ pageTable[p][v].PFN \in Frames
          /\ invertedPageTable[pageTable[p][v].PFN] = [pid |-> p, VPN |-> v]
      BY <1>1, <2>4, AllocatedAreFrames DEF MappingInv, Valid, FrameOf
    <3>2. pageTable[p][v].PFN # PFN
      BY <1>2, <2>4, <3>1
    <3>3. PHYSICAL_MEM'[pageTable[p][v].PFN] = PHYSICAL_MEM[pageTable[p][v].PFN]
      BY <1>4, <1>5, <3>1, <3>2
    <3>4. QED
      BY <2>1, <2>2, <2>4, <3>3
  <2>5. CASE ~(p = pid /\ v = VPN) /\ ~pageTable[p][v].valid
    BY <2>1, <2>2, <2>5
  <2>6. QED
    BY <2>3, <2>4, <2>5
<1>8. PageContents'[pid][VPN] = PHYSICAL_MEM'[PFN]
  BY <1>2, <1>6, ContentsAfter DEF PFN
<1>9. QED
  BY <1>5, <1>7, <1>8 DEF Serves, Answer

(* A page fault loads the page and serves it; the page it replaces, if any, *)
(* is found on the disk with the contents it had.                           *)
LEMMA LoadedServes ==
  ASSUME TypeOK, NEW pid \in Pids, NEW VPN \in Pages, NEW type \in Types, NEW byte \in Byte,
         NEW STATE PFN, PFN \in Frames, NEW STATE pt, NEW STATE disk,
         Loaded(pid, VPN, type, byte, PFN, pt, disk),
         ~pt[pid][VPN].valid,
         \A p \in Pids, v \in Pages : pt[p][v].valid => pt[p][v].PFN \in Frames \ {PFN},
         \A p \in Pids, v \in Pages : ContentsOf(pt, disk, p, v) = PageContents[p][v]
  PROVE  Serves(pid, VPN, type, byte)
<1>1. /\ SWAP_DISK' = disk
      /\ pageTable'[pid][VPN].valid /\ pageTable'[pid][VPN].PFN = PFN
      /\ \A p \in Pids, v \in Pages : ~(p = pid /\ v = VPN) => pageTable'[p][v] = pt[p][v]
      /\ \A f \in Frames : f # PFN => PHYSICAL_MEM'[f] = PHYSICAL_MEM[f]
      /\ PHYSICAL_MEM'[PFN] = IF type = "W" THEN byte ELSE disk[pid][VPN]
      /\ Answer(pid, VPN, type, PFN, FALSE)
  BY DEF Loaded
<1>2. ASSUME NEW p \in Pids, NEW v \in Pages
      PROVE  PageContents'[p][v] =
               IF p = pid /\ v = VPN /\ type = "W" THEN byte ELSE PageContents[p][v]
  <2>1. PageContents'[p][v] =
          IF pageTable'[p][v].valid THEN PHYSICAL_MEM'[pageTable'[p][v].PFN] ELSE SWAP_DISK'[p][v]
    BY ContentsAfter
  <2>2. PageContents[p][v] = IF pt[p][v].valid THEN PHYSICAL_MEM[pt[p][v].PFN] ELSE disk[p][v]
    BY DEF ContentsOf
  <2>3. CASE p = pid /\ v = VPN
    BY ONLY <1>1, <2>1, <2>2, <2>3, ~pt[pid][VPN].valid
  <2>4. CASE ~(p = pid /\ v = VPN)
    <3>1. pageTable'[p][v] = pt[p][v]
      BY <1>1, <2>4
    <3>2. pt[p][v].valid => PHYSICAL_MEM'[pt[p][v].PFN] = PHYSICAL_MEM[pt[p][v].PFN]
      BY <1>1
    <3>3. QED
      BY ONLY <1>1, <2>1, <2>2, <2>4, <3>1, <3>2
  <2>5. QED
    BY <2>3, <2>4
<1>3. PageContents'[pid][VPN] = PHYSICAL_MEM'[PFN]
  BY <1>1, ContentsAfter
<1>4. QED
  BY ONLY <1>1, <1>2, <1>3 DEF Serves, Answer

LEMMA FaultFreeServes ==
  ASSUME IInv, NEW pid \in Pids, NEW VPN \in Pages, NEW type \in Types, NEW byte \in Byte,
         FaultFree(pid, VPN, type, byte)
  PROVE  Serves(pid, VPN, type, byte)
<1>1. TypeOK /\ MappingInv
  BY DEF IInv
<1>2. /\ ~pageTable[pid][VPN].valid /\ nextFreeFrame < MAX_PFN
      /\ LoadPage(pid, VPN, type, byte, nextFreeFrame, pageTable, SWAP_DISK)
  BY <1>1, FreeFrames DEF FaultFree
<1>3. /\ nextFreeFrame \in Frames /\ Allocated \subseteq Frames \ {nextFreeFrame}
      /\ pageTable \in [Pids -> [Pages -> PTE]] /\ SWAP_DISK \in [Pids -> [Pages -> Byte]]
  <2>1. nextFreeFrame \in 0 .. MAX_PFN /\ MAX_PFN \in Nat
    BY <1>1, VMAssumption DEF TypeOK
  <2>2. nextFreeFrame \in Frames /\ Allocated \subseteq Frames \ {nextFreeFrame}
    BY ONLY <1>2, <2>1 DEF Allocated, Frames
  <2>3. QED
    BY <1>1, <2>2 DEF TypeOK
<1>4. Loaded(pid, VPN, type, byte, nextFreeFrame, pageTable, SWAP_DISK)
  BY ONLY <1>1, <1>2, <1>3, LoadPageEffect,
          pid \in Pids, VPN \in Pages, type \in Types, byte \in Byte
<1>5. \A p \in Pids, v \in Pages :
         pageTable[p][v].valid => pageTable[p][v].PFN \in Frames \ {nextFreeFrame}
  BY <1>1, <1>3 DEF MappingInv, Valid, FrameOf
<1>6. \A p \in Pids, v \in Pages : ContentsOf(pageTable, SWAP_DISK, p, v) = PageContents[p][v]
  BY ContentsAt
<1>7. QED
  BY ONLY <1>1, <1>2, <1>3, <1>4, <1>5, <1>6, LoadedServes,
          pid \in Pids, VPN \in Pages, type \in Types, byte \in Byte

LEMMA FaultEvictServes ==
  ASSUME IInv, NEW pid \in Pids, NEW VPN \in Pages, NEW type \in Types, NEW byte \in Byte,
         FaultEvict(pid, VPN, type, byte)
  PROVE  Serves(pid, VPN, type, byte)
<1> DEFINE PFN  == find_replacement
           pt   == TablesWithout(PFN)
           disk == DiskWith(PFN)
           ipte == invertedPageTable[PFN]
<1>1. TypeOK /\ MappingInv /\ CleanPageOnDisk
  BY DEF IInv
<1>2. /\ ~pageTable[pid][VPN].valid
      /\ Allocated = Frames
      /\ PFN \in Frames
      /\ VictimGone(PFN, pt, disk)
      /\ Loaded(pid, VPN, type, byte, PFN, pt, disk)
  BY FaultEvictEffect
<1> HIDE DEF PFN, pt, disk
<1>3. /\ pt \in [Pids -> [Pages -> PTE]] /\ disk \in [Pids -> [Pages -> Byte]]
      /\ ipte.pid \in Pids /\ ipte.VPN \in Pages
      /\ pageTable[ipte.pid][ipte.VPN].valid /\ pageTable[ipte.pid][ipte.VPN].PFN = PFN
      /\ ~pt[ipte.pid][ipte.VPN].valid
      /\ disk[ipte.pid][ipte.VPN] = PHYSICAL_MEM[PFN]
      /\ \A p \in Pids, v \in Pages : ~(p = ipte.pid /\ v = ipte.VPN) =>
            pt[p][v] = pageTable[p][v] /\ disk[p][v] = SWAP_DISK[p][v]
  BY <1>2 DEF VictimGone, IPTE, Valid, FrameOf
<1>4. ~pt[pid][VPN].valid
  BY <1>2, <1>3
<1>5. \A p \in Pids, v \in Pages : pt[p][v].valid => pt[p][v].PFN \in Frames \ {PFN}
  BY <1>1, <1>2, EvictKeeps DEF InverseBut
<1>6. \A p \in Pids, v \in Pages : ContentsOf(pt, disk, p, v) = PageContents[p][v]
  BY <1>3, ContentsAt DEF ContentsOf
<1>7. QED
  BY ONLY <1>1, <1>2, <1>3, <1>4, <1>5, <1>6, LoadedServes,
          pid \in Pids, VPN \in Pages, type \in Types, byte \in Byte

-----------------------------------------------------------------------------
(* The refinement. *)

LEMMA InitIsFlat == Init => Flat!Init
<1> SUFFICES ASSUME Init PROVE Flat!Init
  OBVIOUS
<1>1. PageContents = [p \in Pids |-> [v \in Pages |-> InitByte]]
  BY DEF Init, init_pagetable, init_swap_disk, PageContents, Valid
<1>2. PageLine = [type |-> "none"]
  BY DEF Init, PageLine
<1>3. QED
  BY <1>1, <1>2 DEF Flat!Init, Flat!Pids, Flat!Pages, Pids, Pages

LEMMA QuietIsFlat ==
  ASSUME reply' \in NoReply, UNCHANGED <<tables, PHYSICAL_MEM, SWAP_DISK>>
  PROVE  Flat!Next
<1>1. PageContents' = PageContents
  BY DEF tables, PageContents, Valid, FrameOf
<1>2. QED
  BY <1>1, SilentStep

LEMMA NextIsFlat == IInv /\ [Next]_vars => [Flat!Next]_(Flat!vars)
<1> SUFFICES ASSUME IInv, [Next]_vars PROVE [Flat!Next]_(Flat!vars)
  OBVIOUS
<1>1. ASSUME NEW pid \in Pids, NEW VPN \in Pages, NEW type \in {"R", "W", "X"}, NEW byte \in Byte,
             Serve(pid, VPN, type, byte)
      PROVE  Flat!Next
  <2>1. CASE PageHit(pid, VPN, type, byte)
    BY <2>1, PageHitServes, ServesIsFlat DEF Types
  <2>2. CASE FaultFree(pid, VPN, type, byte)
    BY <2>2, FaultFreeServes, ServesIsFlat DEF Types
  <2>3. CASE WildRead(pid, VPN)
    BY <2>3, QuietIsFlat DEF WildRead, NoReply
  <2>4. CASE FaultEvict(pid, VPN, type, byte)
    BY <2>4, FaultEvictServes, ServesIsFlat DEF Types
  <2>5. QED
    BY <1>1, <2>1, <2>2, <2>3, <2>4 DEF Serve
<1>2. CASE Skip
  BY <1>2, QuietIsFlat DEF Skip, NoReply
<1>3. CASE pt_print_stats
  BY <1>3, QuietIsFlat DEF pt_print_stats, NoReply
<1>4. CASE UNCHANGED vars
  BY <1>4 DEF vars, tables, Flat!vars, PageContents, PageLine, Valid, FrameOf
<1>5. QED
  BY <1>1, <1>2, <1>3, <1>4 DEF Next

(* The simulator implements a flat memory: whatever is swapped in and out  *)
(* and whichever policy picks the frames, a read prints the byte last      *)
(* written to that page of that process (vm.c:96-151, pagetable.c:73-182). *)
THEOREM Refinement == Spec => FlatSpec
<1>1. Spec => []IInv
  BY Invariance
<1>2. QED
  BY <1>1, InitIsFlat, NextIsFlat, PTL DEF Spec, FlatSpec, Flat!Spec
=============================================================================
