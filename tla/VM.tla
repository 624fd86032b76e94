--------------------------------- MODULE VM ---------------------------------
(***************************************************************************)
(* The virtual memory simulator of p3: vm.c (request loop and physical     *)
(* memory), pagetable.c (MMU, page fault handler, replacement policies),   *)
(* pt_core.c (page tables, free frames), disk.c (swap disk).               *)
(*                                                                         *)
(* The program is sequential, so one action is one line of the input file, *)
(* served from the parse to the printed reply.  A page and a frame hold    *)
(* one byte, as in the code, so the offset of an address is left out.  The *)
(* two linked lists are sequences here, changed by the operators of        *)
(* QueueOps.tla; LinkedList.tla models their pointers.                     *)
(***************************************************************************)
EXTENDS Integers, Sequences, SequencesExt, QueueOps

CONSTANTS
  MAX_PID,      \* number of processes
  MAX_VPN,      \* number of virtual pages of a process
  MAX_PFN,      \* number of physical frames
  Policy,       \* the replacement policies the command line may choose
  Byte,         \* bytes a request writes, and a fresh heap may hold
  InitByte,     \* 'A': what every page of the swap disk starts with
  UninitIPTE,   \* what an inverted table entry may hold before it is written
  UninitPFN,    \* what the PFN of an entry may hold before it is written
  MaxRequests   \* bound: number of requests served

ZERO  == 0
FIFO  == 1
LRU   == 2
CLOCK == 3

Pids   == 0 .. MAX_PID - 1
Pages  == 0 .. MAX_VPN - 1
Frames == 0 .. MAX_PFN - 1

(* vm.c:87 refuses to start outside 1..256.  The inverted page table and   *)
(* the PFNs of the page tables come from malloc and are not cleared, so    *)
(* they may hold any numbers, page numbers or not.                         *)
ASSUME VMAssumption ==
  /\ MAX_PID \in Nat \ {0}
  /\ MAX_VPN \in Nat \ {0}
  /\ MAX_PFN \in Nat \ {0}
  /\ Policy # {} /\ Policy \subseteq {ZERO, FIFO, LRU, CLOCK}
  /\ InitByte \in Byte
  /\ UninitIPTE # {} /\ UninitIPTE \subseteq [pid : Int, VPN : Int]
  /\ UninitPFN # {} /\ UninitPFN \subseteq Int
  /\ MaxRequests \in Nat

VARIABLES
  replacementPolicy,  \* argv[2], fixed for a run
  pageTable,          \* pageTable[pid][VPN]: a PTE
  invertedPageTable,  \* invertedPageTable[PFN]: the page that owns a frame
  nextFreeFrame,      \* frames below it have been handed out
  PHYSICAL_MEM,       \* the byte in each frame
  SWAP_DISK,          \* the byte of each page on the swap disk
  fifoIndex,          \* the global counter i of fifo(), from -1
  head,               \* the LRU list, least recently used frame first
  clockHead,          \* the CLOCK list of [data, ref], the hand first
  stats,              \* the four counters printed at the end
  reply,              \* the last line printed
  running             \* FALSE once main has returned

tables == <<pageTable, invertedPageTable, nextFreeFrame>>
queues == <<fifoIndex, head, clockHead>>
vars   == <<replacementPolicy, tables, PHYSICAL_MEM, SWAP_DISK, queues,
            stats, reply, running>>

PTE       == [PFN : Int, valid : BOOLEAN, dirty : BOOLEAN]
IPTE      == [pid : Pids, VPN : Pages]
ClockNode == [data : Frames, ref : {0, 1}]
STATS     == [hitCount : Nat, missCount : Nat, swapRead : Nat, swapWrite : Nat]

(* No entry is valid; the other fields of both tables are what malloc left. *)
init_pagetable ==
  /\ pageTable \in [Pids -> [Pages -> [PFN : UninitPFN, valid : {FALSE}, dirty : BOOLEAN]]]
  /\ invertedPageTable \in [Frames -> UninitIPTE]

init_swap_disk == SWAP_DISK = [pid \in Pids |-> [VPN \in Pages |-> InitByte]]

Init ==
  /\ replacementPolicy \in Policy
  /\ init_pagetable
  /\ nextFreeFrame = 0
  /\ PHYSICAL_MEM \in [Frames -> Byte]
  /\ init_swap_disk
  /\ fifoIndex = -1
  /\ head = << >>
  /\ clockHead = << >>
  /\ stats = [hitCount |-> 0, missCount |-> 0, swapRead |-> 0, swapWrite |-> 0]
  /\ reply = [type |-> "none"]
  /\ running = TRUE

-----------------------------------------------------------------------------
(* pagetable.c: the replacement policies and their queues. *)

(* Mutants: i starts at 0 instead of -1; the hand reads the wrong end. *)
FifoFromOne == (fifoIndex + 2) % MAX_PFN
ClockTail   == Sweep(clockHead)[Len(clockHead)].data

fifo  == (fifoIndex + 1) % MAX_PFN
lru   == head[1]
clock == Sweep(clockHead)[1].data

find_replacement ==
  CASE replacementPolicy = ZERO  -> 0
    [] replacementPolicy = FIFO  -> fifo
    [] replacementPolicy = LRU   -> lru
    [] replacementPolicy = CLOCK -> clock

(* What is left of the queues once a frame is chosen: the victim's node is *)
(* taken off the list.                                                     *)
QueuesAfterFault(evict, PFN) ==
  /\ fifoIndex' = IF replacementPolicy = FIFO /\ evict THEN fifoIndex + 1 ELSE fifoIndex
  /\ head' = IF replacementPolicy = LRU
             THEN Append(IF evict THEN Tail(head) ELSE head, PFN)
             ELSE head
  /\ clockHead' = IF replacementPolicy = CLOCK
                  THEN Append(IF evict THEN Tail(Sweep(clockHead)) ELSE clockHead,
                              [data |-> PFN, ref |-> 0])
                  ELSE clockHead

QueuesAfterHit(PFN) ==
  /\ head' = IF replacementPolicy = LRU THEN MoveToTail(head, PFN) ELSE head
  /\ clockHead' = IF replacementPolicy = CLOCK
                  THEN clock_list_update_ref(clockHead, PFN, 1)
                  ELSE clockHead
  /\ UNCHANGED fifoIndex

-----------------------------------------------------------------------------
(* The page fault handler, one part of it at a time. *)

(* Mutants: one frame too many, and one too few, is handed out. *)
FrameTooMany == IF nextFreeFrame > MAX_PFN THEN -1 ELSE nextFreeFrame
FrameTooFew  == IF nextFreeFrame >= MAX_PFN - 1 THEN -1 ELSE nextFreeFrame

(* The next frame that was never handed out, or -1. *)
get_freeframe == IF nextFreeFrame >= MAX_PFN THEN -1 ELSE nextFreeFrame

(* Mutant: the victim stays valid (pagetable.c:99-100 dropped). *)
TablesUntouched(PFN) == pageTable

(* The page tables once the page in frame PFN is marked as gone. *)
TablesWithout(PFN) ==
  LET ipte == invertedPageTable[PFN]
  IN  [pageTable EXCEPT ![ipte.pid][ipte.VPN].valid = FALSE]

(* Mutant: the victim is not written back (pagetable.c:93 dropped). *)
DiskUntouched(PFN) == SWAP_DISK

(* The swap disk once that page is written to it, from the frame its page  *)
(* table entry names.                                                      *)
DiskWith(PFN) ==
  LET ipte == invertedPageTable[PFN]
      pte  == pageTable[ipte.pid][ipte.VPN]
  IN  [SWAP_DISK EXCEPT ![ipte.pid][ipte.VPN] = PHYSICAL_MEM[pte.PFN]]

(* Mutant: a write that faults leaves the dirty bit as it was read. *)
DirtyAsRead(type, ipte, pt) ==
  CASE type = "R" -> {FALSE}
    [] OTHER      -> IF ipte \in IPTE THEN {pt[ipte.pid][ipte.VPN].dirty} ELSE BOOLEAN

(* The dirty bit of a page that is loaded, a set of possible values.  The  *)
(* entry that is completed and stored for the page is not its own: it is   *)
(* read from pt through the inverted table entry of the frame's last       *)
(* owner, so that bit survives when the request is neither R nor W.        *)
DirtyOnLoad(type, ipte, pt) ==
  CASE type = "W" -> {TRUE}
    [] type = "R" -> {FALSE}
    [] OTHER      -> IF ipte \in IPTE THEN {pt[ipte.pid][ipte.VPN].dirty} ELSE BOOLEAN

-----------------------------------------------------------------------------
(* vm.c: what main does with the frame the MMU returns.  mem is physical   *)
(* memory after the swapping of the fault handler.                         *)
Access(pid, VPN, type, byte, PFN, hit, mem) ==
  IF PFN \notin Frames THEN
    /\ reply' = [type |-> "fatal"]
    /\ running' = FALSE
    /\ PHYSICAL_MEM' = mem
  ELSE IF type \in {"R", "W"} THEN
    /\ PHYSICAL_MEM' = IF type = "W" THEN [mem EXCEPT ![PFN] = byte] ELSE mem
    /\ reply' = [type |-> type, pid |-> pid, VPN |-> VPN, PFN |-> PFN, hit |-> hit,
                 byte |-> PHYSICAL_MEM'[PFN]]
    /\ UNCHANGED running
  ELSE  \* "invalid request type", but only after the page was loaded
    /\ reply' = [type |-> "fatal"]
    /\ running' = FALSE
    /\ PHYSICAL_MEM' = mem

(* is_page_hit finds the page valid.  MMU takes a negative PFN for a miss; *)
(* a valid page never has one (MappingInv).                                *)
PageHit(pid, VPN, type, byte) ==
  LET PFN == pageTable[pid][VPN].PFN
  IN  /\ pageTable[pid][VPN].valid
      /\ pageTable' = IF type = "W" THEN [pageTable EXCEPT ![pid][VPN].dirty = TRUE]
                                    ELSE pageTable
      /\ QueuesAfterHit(PFN)
      /\ stats' = [stats EXCEPT !.hitCount = @ + 1]
      /\ Access(pid, VPN, type, byte, PFN, TRUE, PHYSICAL_MEM)
      /\ UNCHANGED <<replacementPolicy, invertedPageTable, nextFreeFrame, SWAP_DISK>>

(* The second half of pagefault_handler.  pt and disk are the page tables  *)
(* and the swap disk once the victim, if any, is written back.             *)
LoadPage(pid, VPN, type, byte, PFN, pt, disk) ==
  /\ SWAP_DISK' = disk
  /\ invertedPageTable' = [invertedPageTable EXCEPT ![PFN] = [pid |-> pid, VPN |-> VPN]]
  /\ \E d \in DirtyOnLoad(type, invertedPageTable[PFN], pt) :
        pageTable' = [pt EXCEPT ![pid][VPN] = [PFN |-> PFN, valid |-> TRUE, dirty |-> d]]
  /\ Access(pid, VPN, type, byte, PFN, FALSE, [PHYSICAL_MEM EXCEPT ![PFN] = disk[pid][VPN]])
  /\ UNCHANGED replacementPolicy

(* A page fault while get_freeframe still has a frame to give. *)
FaultFree(pid, VPN, type, byte) ==
  /\ ~pageTable[pid][VPN].valid
  /\ get_freeframe >= 0
  /\ nextFreeFrame' = nextFreeFrame + 1
  /\ QueuesAfterFault(FALSE, nextFreeFrame)
  /\ stats' = [stats EXCEPT !.missCount = @ + 1, !.swapRead = @ + 1]
  /\ LoadPage(pid, VPN, type, byte, nextFreeFrame, pageTable, SWAP_DISK)

(* The same fault when the uninitialised inverted table entry names no     *)
(* page: the read at pagetable.c:112 may end the process instead.          *)
WildRead(pid, VPN) ==
  /\ ~pageTable[pid][VPN].valid
  /\ get_freeframe >= 0
  /\ invertedPageTable[nextFreeFrame] \notin IPTE
  /\ running' = FALSE
  /\ reply' = [type |-> "fatal"]
  /\ UNCHANGED <<replacementPolicy, tables, PHYSICAL_MEM, SWAP_DISK, queues, stats>>

(* A page fault that must evict: the victim's page is written to the swap  *)
(* disk, dirty or not.                                                     *)
FaultEvict(pid, VPN, type, byte) ==
  LET PFN == find_replacement
  IN  /\ ~pageTable[pid][VPN].valid
      /\ get_freeframe < 0
      /\ QueuesAfterFault(TRUE, PFN)
      /\ stats' = [stats EXCEPT !.missCount = @ + 1, !.swapWrite = @ + 1, !.swapRead = @ + 1]
      /\ LoadPage(pid, VPN, type, byte, PFN, TablesWithout(PFN), DiskWith(PFN))
      /\ UNCHANGED nextFreeFrame

-----------------------------------------------------------------------------
(* The loop of main.  The parser takes any type letter; pid and VPN are    *)
(* taken to be at least 0 (see the README for what a negative one does).   *)

Serve(pid, VPN, type, byte) ==
  /\ running
  /\ stats.hitCount + stats.missCount < MaxRequests
  /\ \/ PageHit(pid, VPN, type, byte)
     \/ FaultFree(pid, VPN, type, byte)
     \/ WildRead(pid, VPN)
     \/ FaultEvict(pid, VPN, type, byte)

(* An incomplete line, a pid or a VPN too large: a message and no change. *)
Skip ==
  /\ running
  /\ reply' = [type |-> "skipped"]
  /\ UNCHANGED <<replacementPolicy, tables, PHYSICAL_MEM, SWAP_DISK, queues, stats, running>>

(* End of the input: the totals are printed and main returns. *)
pt_print_stats ==
  /\ running
  /\ reply' = [type |-> "stats"]
  /\ running' = FALSE
  /\ UNCHANGED <<replacementPolicy, tables, PHYSICAL_MEM, SWAP_DISK, queues, stats>>

Next ==
  \/ \E pid \in Pids, VPN \in Pages, type \in {"R", "W", "X"}, byte \in Byte :
        Serve(pid, VPN, type, byte)
  \/ Skip
  \/ pt_print_stats

Spec == Init /\ [][Next]_vars

-----------------------------------------------------------------------------
(* Properties. *)

Valid(pid, VPN)   == pageTable[pid][VPN].valid
FrameOf(pid, VPN) == pageTable[pid][VPN].PFN
Allocated         == 0 .. nextFreeFrame - 1

PageReply == [type : {"R", "W"}, pid : Pids, VPN : Pages, PFN : Frames,
              hit : BOOLEAN, byte : Byte]
NoReply   == [type : {"none", "skipped", "fatal", "stats"}]

(* Every variable has the type its declaration in the code gives it; the   *)
(* lists hold frame numbers and the frame counter never passes MAX_PFN.    *)
TypeOK ==
  /\ replacementPolicy \in Policy
  /\ pageTable \in [Pids -> [Pages -> PTE]]
  /\ invertedPageTable \in [Frames -> [pid : Int, VPN : Int]]
  /\ nextFreeFrame \in 0 .. MAX_PFN
  /\ PHYSICAL_MEM \in [Frames -> Byte]
  /\ SWAP_DISK \in [Pids -> [Pages -> Byte]]
  /\ fifoIndex \in Nat \cup {-1}
  /\ head \in Seq(Frames)
  /\ clockHead \in Seq(ClockNode)
  /\ stats \in STATS
  /\ reply \in PageReply \cup NoReply
  /\ running \in BOOLEAN

(* The two tables are inverse to each other: every frame handed out holds  *)
(* the valid page its inverted entry names, and every valid page is in a   *)
(* frame handed out whose inverted entry names it.  So no two pages share  *)
(* a frame, whichever frames the policies pick as victims and in whichever *)
(* order the handler rewrites the entries (pagetable.c:91-126).            *)
MappingInv ==
  /\ \A PFN \in Allocated :
        LET ipte == invertedPageTable[PFN]
        IN  /\ ipte \in IPTE
            /\ Valid(ipte.pid, ipte.VPN)
            /\ FrameOf(ipte.pid, ipte.VPN) = PFN
  /\ \A pid \in Pids, VPN \in Pages : Valid(pid, VPN) =>
        /\ FrameOf(pid, VPN) \in Allocated
        /\ invertedPageTable[FrameOf(pid, VPN)] = [pid |-> pid, VPN |-> VPN]

(* The dirty bit can be trusted: a resident page whose bit is clear is the *)
(* same in memory and on the swap disk.  The handler sets the bit on an    *)
(* entry it read for another page (pagetable.c:111-118), and the commented *)
(* out write-back at pagetable.c:94-97 relies on the bit.                  *)
CleanPageOnDisk ==
  \A pid \in Pids, VPN \in Pages :
    Valid(pid, VPN) /\ ~pageTable[pid][VPN].dirty =>
      PHYSICAL_MEM[FrameOf(pid, VPN)] = SWAP_DISK[pid][VPN]

(* The list of the policy in force holds every frame handed out exactly    *)
(* once, through hits, sweeps and faults: a frame that fell off the list   *)
(* could never be evicted again, and one listed twice would be evicted     *)
(* while its new page is in use (pagetable.c:29-38, 83-109, 148-155).      *)
QueueInv ==
  /\ replacementPolicy = LRU   => OneOfEach(head, Allocated)
  /\ replacementPolicy = CLOCK => OneOfEach(FramesIn(clockHead), Allocated)

(* A page leaves memory only when every frame is taken, and the frame it   *)
(* held passes in the same request to one page that was not resident.      *)
EvictionIsReplacement ==
  [][\A pid \in Pids, VPN \in Pages :
       Valid(pid, VPN) /\ ~Valid(pid, VPN)' =>
         /\ nextFreeFrame = MAX_PFN
         /\ \E p \in Pids, v \in Pages :
              ~Valid(p, v) /\ Valid(p, v)' /\ FrameOf(p, v)' = FrameOf(pid, VPN)]_vars

-----------------------------------------------------------------------------
(* What the processes see: a page is wherever its entry says. *)

PageContents ==
  [pid \in Pids |-> [VPN \in Pages |->
     IF Valid(pid, VPN) THEN PHYSICAL_MEM[FrameOf(pid, VPN)] ELSE SWAP_DISK[pid][VPN]]]

(* The printed line without the physical address and the [hit] mark. *)
PageLine ==
  IF reply.type \in {"R", "W"}
  THEN [type |-> reply.type, pid |-> reply.pid, VPN |-> reply.VPN, byte |-> reply.byte]
  ELSE reply

Flat == INSTANCE FlatMemory WITH mem <- PageContents, reply <- PageLine

(* The simulator implements a flat memory: whatever is swapped in and out, *)
(* a read prints the byte last written to that page of that process, and a *)
(* request that fails changes no page (vm.c:96-151 over pagetable.c).      *)
FlatSpec == Flat!Spec
=============================================================================
