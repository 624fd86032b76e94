--------------------------- MODULE PolicyHistory ---------------------------
(***************************************************************************)
(* The simulator of VM.tla with history variables: when each page was last *)
(* used and last loaded, whether it was hit since it was loaded, and       *)
(* whether it was hit since the last eviction.  They say what the three    *)
(* replacement policies promise in terms of the requests alone, with no    *)
(* mention of the counter and the lists that pagetable.c keeps.            *)
(***************************************************************************)
EXTENDS VM

VARIABLES
  lastUse,       \* lastUse[pid][VPN]: number of the page's last request
  lastLoad,      \* number of the request that last loaded the page
  hitSinceLoad,  \* the pages hit since they were loaded
  hitSinceEvict  \* the pages hit since the last eviction of any page

history == <<lastUse, lastLoad, hitSinceLoad, hitSinceEvict>>
hvars   == <<vars, history>>

AllPages == Pids \X Pages
Resident == {p \in AllPages : Valid(p[1], p[2])}

(* One more than the requests served so far. *)
Now == stats.hitCount + stats.missCount + 1

HInit ==
  /\ Init
  /\ lastUse = [p \in AllPages |-> 0]
  /\ lastLoad = [p \in AllPages |-> 0]
  /\ hitSinceLoad = {}
  /\ hitSinceEvict = {}

(* A request served, with the record of what it did to the pages. *)
HServe(pid, VPN, type, byte) ==
  LET p == <<pid, VPN>>
  IN  /\ Serve(pid, VPN, type, byte)
      /\ lastUse' = [lastUse EXCEPT ![p] = Now]
      /\ IF p \in Resident
         THEN /\ hitSinceLoad' = hitSinceLoad \cup {p}
              /\ hitSinceEvict' = hitSinceEvict \cup {p}
              /\ UNCHANGED lastLoad
         ELSE /\ hitSinceLoad' = hitSinceLoad \ {p}
              /\ hitSinceEvict' = IF Resident \subseteq Resident' THEN hitSinceEvict ELSE {}
              /\ lastLoad' = [lastLoad EXCEPT ![p] = Now]

HNext ==
  \/ \E pid \in Pids, VPN \in Pages, type \in {"R", "W", "X"}, byte \in Byte :
        HServe(pid, VPN, type, byte)
  \/ (Skip \/ pt_print_stats) /\ UNCHANGED history

HSpec == HInit /\ [][HNext]_hvars

-----------------------------------------------------------------------------
Evicted == Resident \ Resident'

(* LRU: the resident pages are the most recently used ones, as many as     *)
(* there are frames.  A use is a hit (pagetable.c:148-150) or the fault    *)
(* that loaded the page (pagetable.c:103-104).  So the victim is the least *)
(* recently used page, and more frames never mean more misses.             *)
LRUStack ==
  replacementPolicy = LRU /\ running =>
    /\ \A p \in Resident, q \in AllPages \ Resident : lastUse[q] < lastUse[p]
    /\ Cardinality(Resident) < MAX_PFN => \A p \in AllPages \ Resident : lastUse[p] = 0

(* FIFO: the page evicted is the resident page loaded first, although      *)
(* fifo() (pagetable.c:12-15) only counts frames and never sees a page.    *)
FIFOVictim ==
  [][replacementPolicy = FIFO =>
       \A p \in Evicted, q \in Resident : lastLoad[p] <= lastLoad[q]]_hvars

(* CLOCK, the second chance: a page hit since the last eviction is not     *)
(* evicted while some resident page was never hit since it was loaded      *)
(* (clock(), pagetable.c:29-38, clock_list_update_ref on a hit).           *)
ClockSecondChance ==
  [][replacementPolicy = CLOCK =>
       \A p \in Evicted, q \in Resident :
         p \in hitSinceEvict => q \in hitSinceLoad]_hvars

(* CLOCK without hits is FIFO: among resident pages never hit since they   *)
(* were loaded, the hand takes the one loaded first (the sweep moves       *)
(* referenced nodes behind them but keeps their own order).                *)
ClockKeepsLoadOrder ==
  [][replacementPolicy = CLOCK =>
       \A p \in Evicted \ hitSinceLoad, q \in Resident \ hitSinceLoad :
         lastLoad[p] <= lastLoad[q]]_hvars
=============================================================================
