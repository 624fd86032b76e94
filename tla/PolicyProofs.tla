---------------------------- MODULE PolicyProofs ----------------------------
(***************************************************************************)
(* What the replacement policies of pagetable.c promise, for any number of *)
(* processes, pages and frames and any sequence of requests: the theorems  *)
(* of PolicyHistory.tla.                                                   *)
(*                                                                         *)
(* Each policy keeps one order of the frames: LRU its list, by the last    *)
(* use of the pages in them; FIFO the frames from the one its counter is   *)
(* at, round to it, by their last load; CLOCK its list, but only for the   *)
(* pages that were not hit, by their last load.  The first frame in that   *)
(* order is the victim, and a request puts its frame at the end.           *)
(***************************************************************************)
EXTENDS PolicyHistory, VMProofs, FiniteSetTheorems

(* The page in a frame that was handed out. *)
Owner(f) == <<invertedPageTable[f].pid, invertedPageTable[f].VPN>>

UseOf  == [f \in Allocated |-> lastUse[Owner(f)]]
LoadOf == [f \in Allocated |-> lastLoad[Owner(f)]]

HitFrames    == {f \in Frames : Owner(f) \in hitSinceLoad}
RecentFrames == {f \in Frames : Owner(f) \in hitSinceEvict}

Past == \A p \in AllPages : lastUse[p] < Now /\ lastLoad[p] < Now

(* The list s is sorted by g. *)
Increasing(s, g) == \A j, k \in 1 .. Len(s) : j < k => g[s[j]] < g[s[k]]

LRUOrder ==
  /\ Increasing(head, UseOf)
  /\ \A q \in AllPages \ Resident, p \in Resident : lastUse[q] < lastUse[p]
  /\ nextFreeFrame < MAX_PFN => \A q \in AllPages \ Resident : lastUse[q] = 0

(* Frame f comes before g when the frames are taken from c on, round to c. *)
Before(c, f, g) == IF f >= c THEN g < c \/ f < g ELSE g < c /\ f < g

FIFOOrder ==
  /\ nextFreeFrame < MAX_PFN => fifoIndex = -1
  /\ \A f, g \in Allocated : Before(fifo, f, g) => LoadOf[f] < LoadOf[g]

(* A node has its bit only if its frame is in H, and has it if it is in E. *)
BitsRight(q, H, E) ==
  \A k \in 1 .. Len(q) : /\ q[k].ref = 1 => q[k].data \in H
                         /\ q[k].data \in E => q[k].ref = 1

(* The list q without the frames of H is sorted by g. *)
OthersIncrease(q, g, H) ==
  \A j, k \in 1 .. Len(q) :
    j < k /\ q[j].data \notin H /\ q[k].data \notin H => g[q[j].data] < g[q[k].data]

ClockOrder ==
  /\ hitSinceEvict \subseteq Resident
  /\ BitsRight(clockHead, HitFrames, RecentFrames)
  /\ OthersIncrease(clockHead, LoadOf, HitFrames)

(* Inductive together with IInv of VMProofs. *)
PolicyInv ==
  /\ lastUse \in [AllPages -> Nat]
  /\ lastLoad \in [AllPages -> Nat]
  /\ running => /\ Past
                /\ replacementPolicy = LRU   => LRUOrder
                /\ replacementPolicy = FIFO  => FIFOOrder
                /\ replacementPolicy = CLOCK => ClockOrder

-----------------------------------------------------------------------------
(* Sorted lists. *)

(* Something greater than all of a sorted list may follow it. *)
LEMMA IncreasingAppend ==
  ASSUME NEW S, NEW s \in Seq(S), NEW e \in S, NEW g, NEW h, Increasing(s, g),
         \A k \in 1 .. Len(s) : h[s[k]] = g[s[k]] /\ g[s[k]] < h[e]
  PROVE  Increasing(Append(s, e), h)
<1> DEFINE t == Append(s, e)
<1>1. /\ Len(t) = Len(s) + 1 /\ Len(s) \in Nat
      /\ \A k \in 1 .. Len(s) : t[k] = s[k]
      /\ t[Len(s) + 1] = e
  BY AppendProperties, LenProperties
<1> HIDE DEF t
<1>2. ASSUME NEW j \in 1 .. Len(t), NEW k \in 1 .. Len(t), j < k
      PROVE  h[t[j]] < h[t[k]]
  <2>1. j \in 1 .. Len(s)
    BY <1>1, <1>2
  <2>2. CASE k = Len(s) + 1
    BY <1>1, <2>1, <2>2
  <2>3. CASE k \in 1 .. Len(s)
    BY <1>1, <1>2, <2>1, <2>3 DEF Increasing
  <2> QED BY <1>1, <2>2, <2>3
<1> QED BY <1>2 DEF Increasing, t

(* A hit moves its frame to the end, where its use puts it. *)
LEMMA IncreasingMoveToTail ==
  ASSUME NEW S, NEW s \in Seq(S), NEW X, OneOfEach(s, X), NEW e \in X, NEW g, NEW h,
         Increasing(s, g),
         \A f \in X \ {e} : h[f] = g[f] /\ g[f] < h[e]
  PROVE  Increasing(MoveToTail(s, e), h)
<1> DEFINE n == Len(s)
           t == MoveToTail(s, e)
<1>1. /\ \A a \in 1 .. n, b \in 1 .. n : s[a] = s[b] => a = b
      /\ \A a \in 1 .. n : s[a] \in X
      /\ \E a \in 1 .. n : s[a] = e
      /\ n \in Nat
  BY OneOfEachByIndex, LenProperties
<1>2. PICK i \in 1 .. n :
        /\ s[i] = e
        /\ Len(t) = n
        /\ \A k \in 1 .. n - 1 : t[k] = IF k < i THEN s[k] ELSE s[k + 1]
        /\ t[n] = e
  BY <1>1, MoveToTailAt
<1> HIDE DEF t
<1>3. ASSUME NEW k \in 1 .. n - 1
      PROVE  \E a \in 1 .. n : /\ t[k] = s[a] /\ a = (IF k < i THEN k ELSE k + 1)
                               /\ h[t[k]] = g[t[k]] /\ g[t[k]] < h[e]
  <2> DEFINE a == IF k < i THEN k ELSE k + 1
  <2>1. a \in 1 .. n /\ a # i /\ t[k] = s[a]
    BY <1>1, <1>2
  <2>2. s[a] \in X \ {e}
    BY <1>1, <1>2, <2>1
  <2> QED BY <2>1, <2>2
<1>4. ASSUME NEW j \in 1 .. n, NEW k \in 1 .. n, j < k
      PROVE  h[t[j]] < h[t[k]]
  <2>1. j \in 1 .. n - 1
    BY <1>1, <1>4
  <2>2. CASE k = n
    BY <1>2, <1>3, <2>1, <2>2
  <2>3. CASE k \in 1 .. n - 1
    <3>1. PICK a \in 1 .. n : /\ t[j] = s[a] /\ a = (IF j < i THEN j ELSE j + 1)
                              /\ h[t[j]] = g[t[j]]
      BY <1>3, <2>1
    <3>2. PICK b \in 1 .. n : /\ t[k] = s[b] /\ b = (IF k < i THEN k ELSE k + 1)
                              /\ h[t[k]] = g[t[k]]
      BY <1>3, <2>3
    <3>3. a < b
      BY <1>4, <3>1, <3>2
    <3>4. g[s[a]] < g[s[b]]
      BY <3>3 DEF Increasing
    <3> QED BY <3>1, <3>2, <3>4
  <2> QED BY <1>1, <2>2, <2>3
<1> QED BY <1>2, <1>4 DEF Increasing, t

(* An eviction takes the first frame and puts it at the end. *)
LEMMA IncreasingHeadToTail ==
  ASSUME NEW S, NEW s \in Seq(S), NEW X, OneOfEach(s, X), s # << >>, NEW g, NEW h,
         Increasing(s, g),
         \A f \in X \ {s[1]} : h[f] = g[f] /\ g[f] < h[s[1]]
  PROVE  Increasing(Append(Tail(s), s[1]), h)
<1> DEFINE n == Len(s)
           t == Append(Tail(s), s[1])
<1>1. /\ \A a \in 1 .. n, b \in 1 .. n : s[a] = s[b] => a = b
      /\ \A a \in 1 .. n : s[a] \in X
      /\ n \in Nat \ {0} /\ s[1] \in S
  BY OneOfEachByIndex, EmptySeq, LenProperties, ElementOfSeq
<1>2. /\ Len(t) = n
      /\ \A k \in 1 .. n - 1 : t[k] = s[k + 1]
      /\ t[n] = s[1]
  BY <1>1, HeadToTailAt
<1> HIDE DEF t
<1>3. ASSUME NEW k \in 1 .. n - 1
      PROVE  t[k] = s[k + 1] /\ k + 1 \in 1 .. n /\ h[t[k]] = g[t[k]] /\ g[t[k]] < h[s[1]]
  <2>1. k + 1 \in 1 .. n /\ k + 1 # 1 /\ 1 \in 1 .. n
    BY <1>1
  <2>2. s[k + 1] \in X \ {s[1]}
    BY <1>1, <2>1
  <2> QED BY <1>2, <2>1, <2>2
<1>4. ASSUME NEW j \in 1 .. n, NEW k \in 1 .. n, j < k
      PROVE  h[t[j]] < h[t[k]]
  <2>1. j \in 1 .. n - 1
    BY <1>1, <1>4
  <2>2. CASE k = n
    BY <1>2, <1>3, <2>1, <2>2
  <2>3. CASE k \in 1 .. n - 1
    <3>1. j + 1 < k + 1
      BY <1>4
    <3>2. g[s[j + 1]] < g[s[k + 1]]
      BY <1>3, <2>1, <2>3, <3>1 DEF Increasing
    <3> QED BY <1>3, <2>1, <2>3, <3>2
  <2> QED BY <1>1, <2>2, <2>3
<1> QED BY <1>2, <1>4 DEF Increasing, t

-----------------------------------------------------------------------------
(* The list of CLOCK. *)

(* How the times g and the set H of frames compare, for the frames of X,    *)
(* with the times h and the set H1 of the next state.                      *)
SameTimes(X, g, h)   == \A f \in X : h[f] = g[f]
Later(X, g, h, e)    == \A f \in X : h[f] = g[f] /\ g[f] < h[e]
SameSet(X, H, H1)    == \A f \in X : f \in H1 <=> f \in H
Joined(X, H, H1, e)  == \A f \in X : f \in H1 <=> f \in H \/ f = e

(* A hit gives its frame the bit. *)
LEMMA ClockHit ==
  ASSUME NEW S, NEW q \in Seq(Nodes(S)), NEW X, OneOfEach(FramesIn(q), X), NEW e \in X,
         NEW g, NEW h, NEW H, NEW E, NEW H1, NEW E1,
         BitsRight(q, H, E), OthersIncrease(q, g, H),
         SameTimes(X, g, h), Joined(X, H, H1, e), Joined(X, E, E1, e)
  PROVE  LET u == clock_list_update_ref(q, e, 1)
         IN  BitsRight(u, H1, E1) /\ OthersIncrease(u, h, H1)
<1> DEFINE u == clock_list_update_ref(q, e, 1)
<1>1. /\ FramesIn(q) \in Seq(S) /\ Len(FramesIn(q)) = Len(q)
      /\ \A k \in 1 .. Len(q) : FramesIn(q)[k] = q[k].data
  BY FramesInSeq
<1>2. /\ \A a \in 1 .. Len(q), b \in 1 .. Len(q) : q[a].data = q[b].data => a = b
      /\ \A a \in 1 .. Len(q) : q[a].data \in X
      /\ \E a \in 1 .. Len(q) : q[a].data = e
  BY <1>1, OneOfEachByIndex
<1>3. Len(u) = Len(q) /\ RefSet(q, e, 1, u)
  BY <1>2, UpdateRefAt
<1> HIDE DEF u
<1>4. PICK n \in 1 .. Len(q) :
        /\ q[n].data = e
        /\ \A k \in 1 .. Len(q) : u[k] = IF k = n THEN [data |-> e, ref |-> 1] ELSE q[k]
  BY <1>3 DEF RefSet
<1>5. \A k \in 1 .. Len(q) : /\ u[k].data = q[k].data
                            /\ u[k].ref = IF q[k].data = e THEN 1 ELSE q[k].ref
  BY <1>2, <1>4
<1>6. BitsRight(u, H1, E1)
  BY <1>2, <1>3, <1>5 DEF BitsRight, Joined
<1>7. OthersIncrease(u, h, H1)
  BY <1>2, <1>3, <1>5 DEF OthersIncrease, SameTimes, Joined
<1> QED BY <1>6, <1>7 DEF u

(* A free frame joins the list, unreferenced. *)
LEMMA ClockAppend ==
  ASSUME NEW S, NEW q \in Seq(Nodes(S)), NEW X, OneOfEach(FramesIn(q), X), NEW e \in S,
         NEW g, NEW h, NEW H, NEW E, NEW H1, NEW E1,
         BitsRight(q, H, E), OthersIncrease(q, g, H), e \notin E1,
         Later(X, g, h, e), SameSet(X, H, H1), SameSet(X, E, E1)
  PROVE  LET u == Append(q, [data |-> e, ref |-> 0])
         IN  BitsRight(u, H1, E1) /\ OthersIncrease(u, h, H1)
<1> DEFINE node == [data |-> e, ref |-> 0]
           u == Append(q, node)
<1>1. /\ FramesIn(q) \in Seq(S) /\ Len(FramesIn(q)) = Len(q)
      /\ \A k \in 1 .. Len(q) : FramesIn(q)[k] = q[k].data
  BY FramesInSeq
<1>2. \A a \in 1 .. Len(q) : q[a].data \in X
  BY <1>1, OneOfEachByIndex
<1>3. node \in Nodes(S) /\ node.data = e /\ node.ref = 0
  BY DEF Nodes
<1> HIDE DEF node
<1>4. /\ Len(u) = Len(q) + 1 /\ Len(q) \in Nat
      /\ \A k \in 1 .. Len(q) : u[k] = q[k]
      /\ u[Len(q) + 1] = node
  BY <1>3, AppendProperties, LenProperties
<1> HIDE DEF u
<1>5. BitsRight(u, H1, E1)
  <2> SUFFICES ASSUME NEW k \in 1 .. Len(u)
               PROVE  /\ u[k].ref = 1 => u[k].data \in H1
                      /\ u[k].data \in E1 => u[k].ref = 1
    BY DEF BitsRight
  <2>1. CASE k = Len(q) + 1
    BY <1>3, <1>4, <2>1
  <2>2. CASE k \in 1 .. Len(q)
    BY <1>2, <1>4, <2>2 DEF BitsRight, SameSet
  <2> QED BY <1>4, <2>1, <2>2
<1>6. OthersIncrease(u, h, H1)
  <2> SUFFICES ASSUME NEW j \in 1 .. Len(u), NEW k \in 1 .. Len(u), j < k,
                      u[j].data \notin H1, u[k].data \notin H1
               PROVE  h[u[j].data] < h[u[k].data]
    BY DEF OthersIncrease
  <2>1. j \in 1 .. Len(q)
    BY <1>4
  <2>2. CASE k = Len(q) + 1
    BY <1>2, <1>3, <1>4, <2>1, <2>2 DEF Later
  <2>3. CASE k \in 1 .. Len(q)
    BY <1>2, <1>4, <2>1, <2>3 DEF OthersIncrease, Later, SameSet
  <2> QED BY <1>4, <2>2, <2>3
<1> QED BY <1>5, <1>6 DEF u, node

(* The sweep passes only frames of H, so it moves no other, and whom it    *)
(* stops at is the first of the others if there is one.                    *)
LEMMA SweepKeeps ==
  ASSUME NEW S, NEW q \in Seq(Nodes(S)), NEW g, NEW H, NEW E,
         BitsRight(q, H, E), OthersIncrease(q, g, H)
  PROVE  LET s == Sweep(q)
         IN  /\ BitsRight(s, H, {}) /\ OthersIncrease(s, g, H)
             /\ Len(q) > 0 => 
                  /\ s[1].data \in E => \A k \in 1 .. Len(q) : q[k].data \in H
                  /\ s[1].data \notin H => \A k \in 1 .. Len(q) :
                       q[k].data \notin H => q[k].data = s[1].data \/ g[s[1].data] < g[q[k].data]
<1> DEFINE L == Len(q)
           s == Sweep(q)
<1>1. Len(s) = L /\ L \in Nat
  BY SweepAt
<1>2. PICK n \in 0 .. L :
        /\ \A k \in 1 .. n : q[k].ref = 1
        /\ n < L => q[n + 1].ref = 0
        /\ \A k \in 1 .. L :
             s[k] = IF k <= L - n THEN q[k + n] ELSE [data |-> q[k - (L - n)].data, ref |-> 0]
  BY SweepAt
<1> HIDE DEF s
<1>3. ASSUME NEW k \in 1 .. n
      PROVE  q[k].data \in H
  BY <1>1, <1>2 DEF BitsRight
<1>4. ASSUME NEW k \in 1 .. L
      PROVE  \/ k <= L - n /\ k + n \in 1 .. L /\ s[k] = q[k + n]
             \/ ~(k <= L - n) /\ s[k].data \in H /\ s[k].ref = 0
  <2>1. CASE k <= L - n
    <3>1. k + n \in 1 .. L
      BY <1>1, <2>1
    <3>2. s[k] = q[k + n]
      BY <1>2, <2>1
    <3> QED BY <2>1, <3>1, <3>2
  <2>2. CASE ~(k <= L - n)
    <3>1. k - (L - n) \in 1 .. n
      BY <1>1, <2>2
    <3>2. s[k] = [data |-> q[k - (L - n)].data, ref |-> 0]
      BY <1>2, <2>2
    <3>3. s[k].data = q[k - (L - n)].data /\ s[k].ref = 0
      BY <3>2
    <3> QED BY <1>3, <2>2, <3>1, <3>3
  <2> QED BY <2>1, <2>2
<1>5. BitsRight(s, H, {})
  BY <1>1, <1>4 DEF BitsRight
<1>6. OthersIncrease(s, g, H)
  <2> SUFFICES ASSUME NEW j \in 1 .. L, NEW k \in 1 .. L, j < k,
                      s[j].data \notin H, s[k].data \notin H
               PROVE  g[s[j].data] < g[s[k].data]
    BY <1>1 DEF OthersIncrease
  <2>1. /\ j + n \in 1 .. L /\ s[j] = q[j + n]
        /\ k + n \in 1 .. L /\ s[k] = q[k + n]
    BY <1>4
  <2>2. j + n < k + n
    BY <1>1
  <2> QED BY <2>1, <2>2 DEF OthersIncrease
<1>7. CASE L > 0 /\ n < L
  <2>0. n + 1 \in 1 .. L /\ 1 \in 1 .. L /\ 1 <= L - n
    BY <1>1, <1>7
  <2>1. n + 1 \in 1 .. L /\ s[1] = q[n + 1] /\ q[n + 1].ref = 0
    BY <1>2, <1>4, <1>7, <2>0
  <2>2. s[1].data \notin E
    BY <2>1 DEF BitsRight
  <2>3. ASSUME s[1].data \notin H, NEW k \in 1 .. L, q[k].data \notin H
        PROVE  q[k].data = s[1].data \/ g[s[1].data] < g[q[k].data]
    <3>1. k = n + 1 \/ n + 1 < k
      BY <1>1, <1>3, <2>3
    <3> QED BY <2>1, <2>3, <3>1 DEF OthersIncrease
  <2> QED BY <1>5, <1>6, <2>2, <2>3 DEF s
<1>8. CASE L > 0 /\ n = L
  <2>1. \A k \in 1 .. L : q[k].data \in H
    BY <1>3, <1>8
  <2>2. s[1].data \in H
    BY <1>1, <1>4, <1>8
  <2> QED BY <1>5, <1>6, <2>1, <2>2 DEF s
<1>9. CASE ~(L > 0)
  BY <1>5, <1>6, <1>9 DEF s
<1> QED BY <1>1, <1>7, <1>8, <1>9

(* An eviction takes the frame the sweep stops at and puts it at the end. *)
LEMMA ClockEvict ==
  ASSUME NEW S, NEW s \in Seq(Nodes(S)), NEW X, OneOfEach(FramesIn(s), X), s # << >>,
         NEW g, NEW h, NEW H, NEW H1,
         BitsRight(s, H, {}), OthersIncrease(s, g, H),
         Later(X \ {s[1].data}, g, h, s[1].data), SameSet(X \ {s[1].data}, H, H1)
  PROVE  LET u == Append(Tail(s), [data |-> s[1].data, ref |-> 0])
         IN  BitsRight(u, H1, {}) /\ OthersIncrease(u, h, H1)
<1> DEFINE n == Len(s)
           v == s[1].data
           node == [data |-> v, ref |-> 0]
           u == Append(Tail(s), node)
<1>1. /\ FramesIn(s) \in Seq(S) /\ Len(FramesIn(s)) = n
      /\ \A k \in 1 .. n : FramesIn(s)[k] = s[k].data
  BY FramesInSeq
<1>2. /\ \A a \in 1 .. n, b \in 1 .. n : s[a].data = s[b].data => a = b
      /\ \A a \in 1 .. n : s[a].data \in X
  BY <1>1, OneOfEachByIndex
<1>3. s[1] \in Nodes(S)
  BY EmptySeq, LenProperties, ElementOfSeq
<1>4. node \in Nodes(S) /\ node.data = v /\ node.ref = 0
  BY <1>3 DEF Nodes
<1> HIDE DEF node
<1>5. /\ n \in Nat \ {0} /\ Len(u) = n
      /\ \A k \in 1 .. n - 1 : u[k] = s[k + 1]
      /\ u[n] = node
  BY <1>4, HeadToTailAt
<1> HIDE DEF u
<1>6. ASSUME NEW k \in 1 .. n - 1
      PROVE  k + 1 \in 1 .. n /\ u[k] = s[k + 1] /\ s[k + 1].data \in X \ {v}
  <2>1. k + 1 \in 1 .. n /\ 1 \in 1 .. n /\ k + 1 # 1
    BY <1>5
  <2>2. s[k + 1].data # v /\ s[k + 1].data \in X
    BY <1>2, <2>1
  <2> QED BY <1>5, <2>1, <2>2
<1>7. BitsRight(u, H1, {})
  <2> SUFFICES ASSUME NEW k \in 1 .. n, u[k].ref = 1
               PROVE  u[k].data \in H1
    BY <1>5 DEF BitsRight
  <2>1. k \in 1 .. n - 1
    BY <1>4, <1>5
  <2> QED BY <1>6, <2>1 DEF BitsRight, SameSet
<1>8. OthersIncrease(u, h, H1)
  <2> SUFFICES ASSUME NEW j \in 1 .. n, NEW k \in 1 .. n, j < k,
                      u[j].data \notin H1, u[k].data \notin H1
               PROVE  h[u[j].data] < h[u[k].data]
    BY <1>5 DEF OthersIncrease
  <2>1. j \in 1 .. n - 1
    BY <1>5
  <2>2. CASE k = n
    BY <1>4, <1>5, <1>6, <2>1, <2>2 DEF Later
  <2>3. CASE k \in 1 .. n - 1
    <3>1. j + 1 < k + 1
      BY <1>5
    <3>2. s[j + 1].data \notin H /\ s[k + 1].data \notin H
      BY <1>6, <2>1, <2>3 DEF SameSet
    <3>3. g[s[j + 1].data] < g[s[k + 1].data]
      BY <1>6, <2>1, <2>3, <3>1, <3>2 DEF OthersIncrease
    <3> QED BY <1>6, <2>1, <2>3, <3>3 DEF Later
  <2> QED BY <1>5, <2>2, <2>3
<1> QED BY <1>7, <1>8 DEF u, node

-----------------------------------------------------------------------------
(* What a request does, as far as the policies are concerned. *)

(* Each frame handed out has one resident page, and each resident page is  *)
(* in one such frame.                                                      *)
LEMMA OwnerFacts ==
  ASSUME IInv
  PROVE  /\ \A f \in Allocated : Owner(f) \in Resident /\ FrameOf(Owner(f)[1], Owner(f)[2]) = f
         /\ \A p \in Resident : FrameOf(p[1], p[2]) \in Allocated /\ Owner(FrameOf(p[1], p[2])) = p
         /\ Allocated \subseteq Frames
         /\ Resident \subseteq AllPages
<1>1. MappingInv /\ TypeOK
  BY DEF IInv
<1>2. ASSUME NEW f \in Allocated
      PROVE  Owner(f) \in Resident /\ FrameOf(Owner(f)[1], Owner(f)[2]) = f
  <2>1. /\ invertedPageTable[f].pid \in Pids /\ invertedPageTable[f].VPN \in Pages
        /\ Valid(invertedPageTable[f].pid, invertedPageTable[f].VPN)
        /\ FrameOf(invertedPageTable[f].pid, invertedPageTable[f].VPN) = f
    BY <1>1 DEF MappingInv, IPTE
  <2> QED BY <2>1 DEF Owner, Resident, AllPages
<1>3. ASSUME NEW p \in Resident
      PROVE  FrameOf(p[1], p[2]) \in Allocated /\ Owner(FrameOf(p[1], p[2])) = p
  <2>1. p[1] \in Pids /\ p[2] \in Pages /\ Valid(p[1], p[2]) /\ p = <<p[1], p[2]>>
    BY DEF Resident, AllPages
  <2>2. /\ FrameOf(p[1], p[2]) \in Allocated
        /\ invertedPageTable[FrameOf(p[1], p[2])] = [pid |-> p[1], VPN |-> p[2]]
    BY <1>1, <2>1 DEF MappingInv
  <2> QED BY <2>1, <2>2 DEF Owner
<1> QED BY <1>1, <1>2, <1>3, AllocatedAreFrames DEF Resident

(* The request for page p is served from frame e. *)
Touched(e, p) ==
  /\ e \in Allocated' /\ p \in AllPages
  /\ \A f \in Allocated' :
       /\ f = e => Owner(f)' = p
       /\ f # e => f \in Allocated /\ Owner(f)' = Owner(f) /\ Owner(f) \in Resident /\ Owner(f) # p
  /\ replacementPolicy' = replacementPolicy

LEMMA HitFacts ==
  ASSUME IInv, NEW pid \in Pids, NEW VPN \in Pages, NEW type \in Types, NEW byte \in Byte,
         PageHit(pid, VPN, type, byte)
  PROVE  /\ Touched(FrameOf(pid, VPN), <<pid, VPN>>)
         /\ FrameOf(pid, VPN) \in Allocated /\ Owner(FrameOf(pid, VPN)) = <<pid, VPN>>
         /\ Allocated' = Allocated /\ nextFreeFrame' = nextFreeFrame
         /\ <<pid, VPN>> \in Resident /\ Resident' = Resident
         /\ QueuesAfterHit(FrameOf(pid, VPN))
         /\ Now' = Now + 1
<1> DEFINE e == FrameOf(pid, VPN)
           p == <<pid, VPN>>
<1>1. TablesHit(pid, VPN, type)
  BY HitTables DEF PageHit, IInv
<1>2. /\ UNCHANGED <<replacementPolicy, invertedPageTable, nextFreeFrame>>
      /\ stats' = [stats EXCEPT !.hitCount = @ + 1] /\ stats \in STATS
      /\ QueuesAfterHit(e) /\ pageTable[pid][VPN].valid
  BY DEF PageHit, FrameOf, IInv, TypeOK
<1>3. p \in Resident /\ p \in AllPages
  BY <1>2 DEF Resident, AllPages, Valid
<1>4. e \in Allocated /\ Owner(e) = p
  BY <1>3, OwnerFacts
<1>5. Resident' = Resident
  BY <1>1 DEF Resident, AllPages, Valid, TablesHit
<1>6. \A f : Owner(f)' = Owner(f)
  BY <1>2 DEF Owner
<1>7. Allocated' = Allocated
  BY <1>2 DEF Allocated
<1>8. \A f \in Allocated \ {e} : Owner(f) \in Resident /\ Owner(f) # p
  BY <1>3, OwnerFacts
<1>9. Now' = Now + 1
  BY <1>2 DEF Now, STATS
<1> QED BY <1>2, <1>3, <1>4, <1>5, <1>6, <1>7, <1>8, <1>9 DEF Touched

LEMMA FreeFacts ==
  ASSUME IInv, NEW pid \in Pids, NEW VPN \in Pages, NEW type \in Types, NEW byte \in Byte,
         FaultFree(pid, VPN, type, byte)
  PROVE  /\ Touched(nextFreeFrame, <<pid, VPN>>)
         /\ nextFreeFrame \in Frames \ Allocated /\ nextFreeFrame < MAX_PFN
         /\ nextFreeFrame' = nextFreeFrame + 1 /\ Allocated' = Allocated \cup {nextFreeFrame}
         /\ <<pid, VPN>> \notin Resident /\ Resident' = Resident \cup {<<pid, VPN>>}
         /\ QueuesAfterFault(FALSE, nextFreeFrame)
         /\ Now' = Now + 1
<1> DEFINE e == nextFreeFrame
           p == <<pid, VPN>>
<1>1. TypeOK
  BY DEF IInv
<1>2. /\ e < MAX_PFN /\ e' = e + 1 /\ QueuesAfterFault(FALSE, e)
      /\ stats' = [stats EXCEPT !.missCount = @ + 1, !.swapRead = @ + 1] /\ stats \in STATS
      /\ LoadPage(pid, VPN, type, byte, e, pageTable, SWAP_DISK)
      /\ ~pageTable[pid][VPN].valid
  BY <1>1, FreeFrames DEF FaultFree, TypeOK
<1>3. e \in Frames \ Allocated /\ Allocated' = Allocated \cup {e}
  <2>1. e \in 0 .. MAX_PFN /\ MAX_PFN \in Nat
    BY <1>1, VMAssumption DEF TypeOK
  <2> QED BY ONLY <1>2, <2>1 DEF Frames, Allocated
<1>4. Loaded(pid, VPN, type, byte, e, pageTable, SWAP_DISK)
  <2>1. pageTable \in [Pids -> [Pages -> PTE]] /\ SWAP_DISK \in [Pids -> [Pages -> Byte]]
    BY <1>1 DEF TypeOK
  <2> QED BY ONLY <1>1, <1>2, <1>3, <2>1, LoadPageEffect,
                  pid \in Pids, VPN \in Pages, type \in Types, byte \in Byte
<1>5. p \in AllPages /\ p \notin Resident
  BY <1>2 DEF Resident, AllPages, Valid
<1>6. Resident' = Resident \cup {p}
  <2>1. \A q \in AllPages : Valid(q[1], q[2])' <=> Valid(q[1], q[2]) \/ q = p
    BY <1>4 DEF Loaded, Valid, AllPages
  <2> QED BY <1>5, <2>1 DEF Resident
<1>7. \A f \in Frames : Owner(f)' = IF f = e THEN p ELSE Owner(f)
  BY <1>4 DEF Loaded, Owner
<1>8. \A f \in Allocated : Owner(f) \in Resident /\ Owner(f) # p /\ f \in Frames
  BY <1>5, OwnerFacts
<1>9. Now' = Now + 1
  BY <1>2 DEF Now, STATS
<1>10. replacementPolicy' = replacementPolicy
  BY <1>4 DEF Loaded
<1>11. Touched(e, p)
  BY <1>3, <1>5, <1>7, <1>8, <1>10 DEF Touched
<1> QED BY <1>2, <1>3, <1>5, <1>6, <1>9, <1>11

LEMMA EvictFacts ==
  ASSUME IInv, NEW pid \in Pids, NEW VPN \in Pages, NEW type \in Types, NEW byte \in Byte,
         FaultEvict(pid, VPN, type, byte)
  PROVE  LET e == find_replacement
         IN  /\ Touched(e, <<pid, VPN>>)
             /\ e \in Frames /\ Allocated = Frames /\ Allocated' = Frames
             /\ nextFreeFrame = MAX_PFN /\ nextFreeFrame' = nextFreeFrame
             /\ <<pid, VPN>> \notin Resident /\ Owner(e) \in Resident
             /\ Resident' = (Resident \ {Owner(e)}) \cup {<<pid, VPN>>}
             /\ QueuesAfterFault(TRUE, e)
             /\ Now' = Now + 1
<1> DEFINE e == find_replacement
           p == <<pid, VPN>>
           pt == TablesWithout(e)
           disk == DiskWith(e)
<1>1. TypeOK
  BY DEF IInv
<1>2. /\ ~pageTable[pid][VPN].valid
      /\ nextFreeFrame' = nextFreeFrame
      /\ Allocated = Frames /\ Allocated' = Frames /\ e \in Frames
      /\ VictimGone(e, pt, disk)
      /\ Loaded(pid, VPN, type, byte, e, pt, disk)
  BY FaultEvictEffect
<1>3. QueuesAfterFault(TRUE, e) /\ nextFreeFrame >= MAX_PFN
  BY <1>1, FreeFrames DEF FaultEvict
<1>4. nextFreeFrame = MAX_PFN
  <2>1. nextFreeFrame \in 0 .. MAX_PFN /\ MAX_PFN \in Nat
    BY <1>1, VMAssumption DEF TypeOK
  <2> QED BY ONLY <1>3, <2>1
<1>5. stats' = [stats EXCEPT !.missCount = @ + 1, !.swapWrite = @ + 1, !.swapRead = @ + 1]
      /\ stats \in STATS
  BY <1>1 DEF FaultEvict, TypeOK
<1>6. Now' = Now + 1
  BY <1>5 DEF Now, STATS
<1> HIDE DEF e, pt, disk
<1>7. p \in AllPages /\ p \notin Resident /\ Owner(e) \in Resident /\ Owner(e) # p
  BY <1>2, OwnerFacts DEF Resident, AllPages, Valid
<1>8. Resident' = (Resident \ {Owner(e)}) \cup {p}
  <2>1. \A q \in AllPages : pt[q[1]][q[2]].valid <=> Valid(q[1], q[2]) /\ q # Owner(e)
    BY <1>2 DEF VictimGone, Valid, AllPages, Owner
  <2>2. \A q \in AllPages : Valid(q[1], q[2])' <=> pt[q[1]][q[2]].valid \/ q = p
    BY <1>2 DEF Loaded, Valid, AllPages
  <2> QED BY <1>7, <2>1, <2>2 DEF Resident
<1>9. \A f \in Frames : Owner(f)' = IF f = e THEN p ELSE Owner(f)
  BY <1>2 DEF Loaded, Owner
<1>10. \A f \in Frames : Owner(f) \in Resident /\ Owner(f) # p
  BY <1>2, <1>7, OwnerFacts
<1>11. Touched(e, p)
  BY <1>2, <1>7, <1>9, <1>10 DEF Touched, Loaded
<1> QED BY <1>2, <1>3, <1>4, <1>6, <1>7, <1>8, <1>11 DEF e

-----------------------------------------------------------------------------
(* What a request does to the history. *)

Recorded(p) ==
  /\ lastUse' = [lastUse EXCEPT ![p] = Now]
  /\ IF p \in Resident
     THEN /\ hitSinceLoad' = hitSinceLoad \cup {p}
          /\ hitSinceEvict' = hitSinceEvict \cup {p}
          /\ UNCHANGED lastLoad
     ELSE /\ hitSinceLoad' = hitSinceLoad \ {p}
          /\ hitSinceEvict' = IF Resident \subseteq Resident' THEN hitSinceEvict ELSE {}
          /\ lastLoad' = [lastLoad EXCEPT ![p] = Now]

HistoryTypes == lastUse \in [AllPages -> Nat] /\ lastLoad \in [AllPages -> Nat]

(* The numbers recorded stay below that of the next request. *)
LEMMA RecordedInThePast ==
  ASSUME TypeOK, HistoryTypes, NEW p \in AllPages, Recorded(p)
  PROVE  HistoryTypes' /\ (Past /\ Now' = Now + 1 => Past')
<1>1. Now \in Nat
  BY DEF TypeOK, STATS, Now
<1>2. AllPages' = AllPages
  BY DEF AllPages
<1>3. \A q \in AllPages : lastUse'[q] = IF q = p THEN Now ELSE lastUse[q]
  BY DEF Recorded, HistoryTypes
<1>4. \A q \in AllPages : lastLoad'[q] = lastLoad[q] \/ lastLoad'[q] = Now
  BY DEF Recorded, HistoryTypes
<1>5. HistoryTypes'
  BY <1>1, <1>2 DEF Recorded, HistoryTypes
<1>6. ASSUME Past, Now' = Now + 1, NEW q \in AllPages
      PROVE  lastUse'[q] < Now' /\ lastLoad'[q] < Now'
  <2>1. /\ lastUse[q] \in Nat /\ lastUse[q] < Now /\ lastLoad[q] \in Nat /\ lastLoad[q] < Now
        /\ lastUse'[q] \in {Now, lastUse[q]} /\ lastLoad'[q] \in {Now, lastLoad[q]}
    BY <1>3, <1>4, <1>6 DEF Past, HistoryTypes
  <2> QED BY ONLY <1>1, <1>6, <2>1
<1> QED BY <1>2, <1>5, <1>6 DEF Past

(* The frame that serves the request holds the page used last, and on a    *)
(* fault the page loaded last; no other frame's page changes.              *)
LEMMA TimesAfter ==
  ASSUME HistoryTypes, Past, NEW STATE e, NEW p, Touched(e, p), Recorded(p)
  PROVE  \A f \in Allocated' :
           /\ f = e => /\ UseOf'[f] = Now
                       /\ p \notin Resident => LoadOf'[f] = Now
           /\ f # e => /\ f \in Allocated
                       /\ UseOf'[f] = UseOf[f] /\ UseOf[f] < Now
                       /\ LoadOf'[f] = LoadOf[f] /\ LoadOf[f] < Now
<1>1. \A q \in AllPages : lastUse'[q] = IF q = p THEN Now ELSE lastUse[q]
  BY DEF Recorded, HistoryTypes, Touched
<1>2. \A q \in AllPages : q # p => lastLoad'[q] = lastLoad[q]
  BY DEF Recorded, HistoryTypes, Touched
<1>3. p \in AllPages /\ (p \notin Resident => lastLoad'[p] = Now)
  BY DEF Recorded, HistoryTypes, Touched
<1>4. \A f \in Allocated' : UseOf'[f] = lastUse'[Owner(f)'] /\ LoadOf'[f] = lastLoad'[Owner(f)']
  BY DEF UseOf, LoadOf
<1>5. \A f \in Allocated : UseOf[f] = lastUse[Owner(f)] /\ LoadOf[f] = lastLoad[Owner(f)]
  BY DEF UseOf, LoadOf
<1>6. ASSUME NEW f \in Allocated', f = e
      PROVE  UseOf'[f] = Now /\ (p \notin Resident => LoadOf'[f] = Now)
  <2>1. Owner(f)' = p
    BY <1>6 DEF Touched
  <2> QED BY <1>1, <1>3, <1>4, <2>1
<1>7. ASSUME NEW f \in Allocated', f # e
      PROVE  /\ f \in Allocated
             /\ UseOf'[f] = UseOf[f] /\ UseOf[f] < Now
             /\ LoadOf'[f] = LoadOf[f] /\ LoadOf[f] < Now
  <2>1. f \in Allocated /\ Owner(f)' = Owner(f) /\ Owner(f) \in AllPages /\ Owner(f) # p
    BY <1>7 DEF Touched, Resident
  <2>2. lastUse[Owner(f)] < Now /\ lastLoad[Owner(f)] < Now
    BY <2>1 DEF Past
  <2> QED BY <1>1, <1>2, <1>4, <1>5, <2>1, <2>2
<1> QED BY <1>6, <1>7

-----------------------------------------------------------------------------
(* LRU: the list and the set of resident pages. *)

(* The frames in the list of LRU are those handed out. *)
LEMMA HeadFrames ==
  ASSUME TypeOK, QueueInv, replacementPolicy = LRU
  PROVE  /\ head \in Seq(Frames) /\ OneOfEach(head, Allocated)
         /\ \A k \in 1 .. Len(head) : head[k] \in Allocated
         /\ \A f \in Allocated : \E k \in 1 .. Len(head) : head[k] = f
<1>1. head \in Seq(Frames) /\ OneOfEach(head, Allocated)
  BY DEF TypeOK, QueueInv
<1> QED BY <1>1, OneOfEachByIndex

LEMMA LRUHit ==
  ASSUME IInv, HistoryTypes, Past, replacementPolicy = LRU, LRUOrder,
         NEW STATE e, e \in Allocated, NEW p \in Resident, Touched(e, p), Recorded(p),
         Allocated' = Allocated, nextFreeFrame' = nextFreeFrame, Resident' = Resident,
         QueuesAfterHit(e)
  PROVE  LRUOrder'
<1>1. head' = MoveToTail(head, e)
  BY DEF QueuesAfterHit
<1>2. head \in Seq(Frames) /\ OneOfEach(head, Allocated)
  BY HeadFrames DEF IInv
<1>3. \A f \in Allocated \ {e} : UseOf'[f] = UseOf[f] /\ UseOf[f] < UseOf'[e]
  BY TimesAfter
<1>4. Increasing(head', UseOf')
  <2> DEFINE g == UseOf
             h == UseOf'
  <2>1. Increasing(head, g) /\ \A f \in Allocated \ {e} : h[f] = g[f] /\ g[f] < h[e]
    BY <1>3 DEF LRUOrder
  <2> HIDE DEF g, h
  <2>2. Increasing(MoveToTail(head, e), h)
    BY ONLY <1>2, <2>1, e \in Allocated, IncreasingMoveToTail
  <2> QED BY <1>1, <2>2 DEF h
<1>5. AllPages' = AllPages /\ p \in AllPages /\ Resident \subseteq AllPages
  BY DEF AllPages, Resident
<1>6. \A q \in AllPages : lastUse'[q] = IF q = p THEN Now ELSE lastUse[q]
  BY DEF Recorded, HistoryTypes
<1>7. \A q \in AllPages \ Resident : lastUse'[q] = lastUse[q] /\ lastUse[q] < Now
  BY <1>6 DEF Past
<1>8. \A q \in AllPages \ Resident, r \in Resident : lastUse'[q] < lastUse'[r]
  BY <1>5, <1>6, <1>7 DEF LRUOrder
<1>9. nextFreeFrame' < MAX_PFN => \A q \in AllPages \ Resident : lastUse'[q] = 0
  BY <1>7 DEF LRUOrder
<1> QED BY <1>4, <1>5, <1>8, <1>9 DEF LRUOrder

LEMMA LRUFree ==
  ASSUME IInv, HistoryTypes, Past, replacementPolicy = LRU, LRUOrder,
         NEW STATE e, e \in Frames \ Allocated, NEW p, p \notin Resident,
         Touched(e, p), Recorded(p),
         nextFreeFrame < MAX_PFN, Allocated' = Allocated \cup {e}, Resident' = Resident \cup {p},
         QueuesAfterFault(FALSE, e)
  PROVE  LRUOrder'
<1>1. head' = Append(head, e)
  BY DEF QueuesAfterFault
<1>2. head \in Seq(Frames) /\ \A k \in 1 .. Len(head) : head[k] \in Allocated
  BY HeadFrames DEF IInv
<1>3. \A f \in Allocated : UseOf'[f] = UseOf[f] /\ UseOf[f] < UseOf'[e]
  BY TimesAfter
<1>4. Increasing(head', UseOf')
  <2> DEFINE g == UseOf
             h == UseOf'
  <2>1. Increasing(head, g) /\ \A k \in 1 .. Len(head) : h[head[k]] = g[head[k]] /\ g[head[k]] < h[e]
    BY <1>2, <1>3 DEF LRUOrder
  <2> HIDE DEF g, h
  <2>2. Increasing(Append(head, e), h)
    BY ONLY <1>2, <2>1, e \in Frames, IncreasingAppend
  <2> QED BY <1>1, <2>2 DEF h
<1>5. AllPages' = AllPages /\ p \in AllPages /\ Resident \subseteq AllPages
  BY DEF AllPages, Resident, Touched
<1>6. \A q \in AllPages : lastUse'[q] = IF q = p THEN Now ELSE lastUse[q]
  BY <1>5 DEF Recorded, HistoryTypes
<1>7. \A q \in AllPages \ Resident' : lastUse'[q] = lastUse[q] /\ lastUse[q] < Now /\ q \notin Resident
  BY <1>6 DEF Past
<1>8. \A q \in AllPages \ Resident', r \in Resident' : lastUse'[q] < lastUse'[r]
  BY <1>5, <1>6, <1>7 DEF LRUOrder
<1>9. \A q \in AllPages \ Resident' : lastUse'[q] = 0
  BY <1>7 DEF LRUOrder
<1> QED BY <1>4, <1>5, <1>8, <1>9 DEF LRUOrder

(* The victim of LRU is the page used least recently. *)
LEMMA LRUVictim ==
  ASSUME IInv, replacementPolicy = LRU, LRUOrder, Allocated = Frames
  PROVE  /\ head # << >> /\ head[1] \in Frames
         /\ \A r \in Resident \ {Owner(head[1])} : lastUse[Owner(head[1])] < lastUse[r]
<1>1. /\ head \in Seq(Frames) /\ OneOfEach(head, Frames)
      /\ \A f \in Allocated : \E k \in 1 .. Len(head) : head[k] = f
  BY HeadFrames DEF IInv
<1>2. 0 \in Frames
  BY VMAssumption DEF Frames
<1>3. head # << >> /\ head[1] \in Frames
  BY <1>1, <1>2, OneOfEachNonempty
<1>4. ASSUME NEW r \in Resident \ {Owner(head[1])}
      PROVE  lastUse[Owner(head[1])] < lastUse[r]
  <2>1. PICK f \in Allocated : Owner(f) = r
    BY OwnerFacts
  <2>2. PICK k \in 1 .. Len(head) : head[k] = f
    BY <1>1
  <2>3. k # 1
    BY <2>1, <2>2
  <2>4. 1 \in 1 .. Len(head) /\ 1 < k
    BY <2>3
  <2>5. UseOf[head[1]] < UseOf[head[k]]
    BY <2>4 DEF LRUOrder, Increasing
  <2> QED BY <1>3, <2>1, <2>2, <2>5 DEF UseOf
<1> QED BY <1>3, <1>4

LEMMA LRUEvict ==
  ASSUME IInv, HistoryTypes, Past, replacementPolicy = LRU, LRUOrder,
         NEW STATE e, e = find_replacement, NEW p, p \notin Resident,
         Touched(e, p), Recorded(p),
         Allocated = Frames, Allocated' = Frames, nextFreeFrame = MAX_PFN,
         nextFreeFrame' = nextFreeFrame,
         Resident' = (Resident \ {Owner(e)}) \cup {p},
         QueuesAfterFault(TRUE, e)
  PROVE  LRUOrder'
<1>1. e = head[1]
  BY DEF find_replacement, fifo, lru, clock, ZERO, FIFO, LRU, CLOCK
<1>2. head' = Append(Tail(head), e)
  BY DEF QueuesAfterFault
<1>3. /\ head \in Seq(Frames) /\ OneOfEach(head, Frames) /\ head # << >>
      /\ \A r \in Resident \ {Owner(e)} : lastUse[Owner(e)] < lastUse[r]
  BY <1>1, HeadFrames, LRUVictim DEF IInv
<1>4. \A f \in Frames \ {e} : UseOf'[f] = UseOf[f] /\ UseOf[f] < UseOf'[e]
  BY TimesAfter DEF Touched
<1>5. Increasing(head', UseOf')
  <2> DEFINE g == UseOf
             h == UseOf'
  <2>1. Increasing(head, g) /\ \A f \in Frames \ {head[1]} : h[f] = g[f] /\ g[f] < h[head[1]]
    BY <1>1, <1>4 DEF LRUOrder
  <2> HIDE DEF g, h
  <2>2. Increasing(Append(Tail(head), head[1]), h)
    BY ONLY <1>3, <2>1, IncreasingHeadToTail
  <2> QED BY <1>1, <1>2, <2>2 DEF h
<1>6. AllPages' = AllPages /\ p \in AllPages /\ Resident \subseteq AllPages
  BY DEF AllPages, Resident, Touched
<1>7. \A q \in AllPages : lastUse'[q] = IF q = p THEN Now ELSE lastUse[q]
  BY <1>6 DEF Recorded, HistoryTypes
<1>8. ASSUME NEW q \in AllPages \ Resident', NEW r \in Resident'
      PROVE  lastUse'[q] < lastUse'[r]
  <2>1. lastUse'[q] = lastUse[q] /\ lastUse[q] < Now /\ (q \notin Resident \/ q = Owner(e))
    BY <1>7 DEF Past
  <2>2. CASE r = p
    BY <1>6, <1>7, <2>1, <2>2
  <2>3. CASE r # p
    <3>1. r \in Resident \ {Owner(e)} /\ lastUse'[r] = lastUse[r]
      BY <1>6, <1>7, <2>3
    <3> QED BY <1>3, <2>1, <3>1 DEF LRUOrder
  <2> QED BY <2>2, <2>3
<1>9. ~(nextFreeFrame' < MAX_PFN)
  BY VMAssumption
<1> QED BY <1>5, <1>6, <1>8, <1>9 DEF LRUOrder

-----------------------------------------------------------------------------
(* FIFO: the counter and the loads. *)

(* A number is the remainder of another if the two differ by a multiple. *)
LEMMA Remainder ==
  ASSUME NEW j \in Nat, NEW N \in Nat \ {0}, NEW k \in Int, NEW r \in 0 .. N - 1, j = k * N + r
  PROVE  j % N = r
OBVIOUS

(* The remainders go round. *)
LEMMA NextRemainder ==
  ASSUME NEW j \in Nat, NEW N \in Nat \ {0}
  PROVE  /\ j % N \in 0 .. N - 1
         /\ (j + 1) % N = IF j % N = N - 1 THEN 0 ELSE (j % N) + 1
<1> DEFINE k == j \div N
<1>1. k \in Int /\ j = k * N + (j % N) /\ j % N \in 0 .. N - 1
  OBVIOUS
<1> HIDE DEF k
<1>2. CASE j % N = N - 1
  <2>1. j + 1 = (k + 1) * N + 0 /\ 0 \in 0 .. N - 1 /\ k + 1 \in Int /\ j + 1 \in Nat
    BY <1>1, <1>2
  <2>2. (j + 1) % N = 0
    BY ONLY <2>1, Remainder, N \in Nat \ {0}
  <2> QED BY ONLY <1>1, <1>2, <2>2
<1>3. CASE j % N # N - 1
  <2>1. j + 1 = k * N + ((j % N) + 1) /\ (j % N) + 1 \in 0 .. N - 1
    BY <1>1, <1>3
  <2>2. (j + 1) % N = (j % N) + 1
    BY ONLY <1>1, <2>1, Remainder, j + 1 \in Nat, N \in Nat \ {0}
  <2> QED BY ONLY <1>1, <1>3, <2>2
<1> QED BY <1>2, <1>3

(* The frame after the counter: the next one, or 0 after the last. *)
LEMMA NextFifo ==
  ASSUME NEW i \in Nat \cup {-1}
  PROVE  /\ (i + 1) % MAX_PFN \in Frames
         /\ (i + 2) % MAX_PFN = IF (i + 1) % MAX_PFN = MAX_PFN - 1
                                THEN 0 ELSE ((i + 1) % MAX_PFN) + 1
<1>1. i + 1 \in Nat /\ MAX_PFN \in Nat \ {0} /\ i + 2 = (i + 1) + 1
  BY VMAssumption
<1> QED BY <1>1, NextRemainder DEF Frames

LEMMA FIFOHit ==
  ASSUME IInv, HistoryTypes, Past, FIFOOrder,
         NEW STATE e, e \in Allocated, NEW p \in Resident, Touched(e, p), Recorded(p),
         Owner(e) = p,
         Allocated' = Allocated, nextFreeFrame' = nextFreeFrame, QueuesAfterHit(e)
  PROVE  FIFOOrder'
<1>1. fifoIndex' = fifoIndex
  BY DEF QueuesAfterHit
<1>2. fifo' = fifo
  BY <1>1 DEF fifo
<1>3. lastLoad' = lastLoad
  BY DEF Recorded
<1>4. \A f \in Allocated : Owner(f)' = Owner(f)
  BY DEF Touched
<1>5. \A f \in Allocated : LoadOf'[f] = LoadOf[f]
  BY <1>3, <1>4 DEF LoadOf
<1> QED BY <1>1, <1>2, <1>5 DEF FIFOOrder

LEMMA FIFOFree ==
  ASSUME IInv, HistoryTypes, Past, FIFOOrder,
         NEW STATE e, e = nextFreeFrame, NEW p, p \notin Resident, Touched(e, p), Recorded(p),
         nextFreeFrame < MAX_PFN, nextFreeFrame' = nextFreeFrame + 1,
         Allocated' = Allocated \cup {e}, QueuesAfterFault(FALSE, e)
  PROVE  FIFOOrder'
<1>1. fifoIndex = -1 /\ fifoIndex' = -1
  BY DEF QueuesAfterFault, FIFOOrder
<1>2. fifo = 0 /\ fifo' = 0
  <2>1. MAX_PFN \in Nat \ {0}
    BY VMAssumption
  <2>2. 0 % MAX_PFN = 0
    BY ONLY <2>1
  <2> QED BY <1>1, <2>2 DEF fifo
<1>3. e \in Nat /\ \A f \in Allocated : f \in Nat /\ f < e
  BY DEF IInv, TypeOK, Allocated
<1>4. ASSUME NEW f \in Allocated', NEW g \in Allocated', Before(0, f, g)
      PROVE  LoadOf'[f] < LoadOf'[g]
  <2>1. f < g /\ f \in Allocated
    BY <1>3, <1>4 DEF Before
  <2>2. LoadOf'[f] = LoadOf[f] /\ LoadOf[f] < Now
    BY <1>3, <2>1, TimesAfter
  <2>3. CASE g = e
    BY <2>2, <2>3, TimesAfter
  <2>4. CASE g # e
    <3>1. g \in Allocated /\ LoadOf'[g] = LoadOf[g]
      BY <2>4, TimesAfter
    <3> QED BY <1>2, <1>4, <2>1, <2>2, <3>1 DEF FIFOOrder
  <2> QED BY <2>3, <2>4
<1> QED BY <1>1, <1>2, <1>4 DEF FIFOOrder

LEMMA FIFOEvict ==
  ASSUME IInv, HistoryTypes, Past, FIFOOrder, replacementPolicy = FIFO,
         NEW STATE e, e = find_replacement, NEW p, p \notin Resident, Touched(e, p), Recorded(p),
         Allocated = Frames, Allocated' = Frames, nextFreeFrame = MAX_PFN,
         nextFreeFrame' = nextFreeFrame, QueuesAfterFault(TRUE, e)
  PROVE  FIFOOrder'
<1>1. fifoIndex' = fifoIndex + 1 /\ fifoIndex \in Nat \cup {-1}
  BY DEF QueuesAfterFault, IInv, TypeOK
<1>2. e = fifo
  BY DEF find_replacement, fifo, lru, clock, ZERO, FIFO, LRU, CLOCK
<1>3. e \in Frames /\ fifo' = IF e = MAX_PFN - 1 THEN 0 ELSE e + 1
  <2>1. fifo = (fifoIndex + 1) % MAX_PFN /\ fifo' = (fifoIndex + 2) % MAX_PFN
    BY <1>1 DEF fifo
  <2> QED BY <1>1, <1>2, <2>1, NextFifo
<1> DEFINE c == fifo'
<1>4. ASSUME NEW f \in Frames, NEW g \in Frames, Before(c, f, g)
      PROVE  f # e /\ (g # e => Before(e, f, g))
  <2>1. MAX_PFN \in Nat /\ Frames = 0 .. MAX_PFN - 1
    BY VMAssumption DEF Frames
  <2>2. CASE e = MAX_PFN - 1
    BY ONLY <1>3, <1>4, <2>1, <2>2 DEF Before
  <2>3. CASE e # MAX_PFN - 1
    BY ONLY <1>3, <1>4, <2>1, <2>3 DEF Before
  <2> QED BY <2>2, <2>3
<1>5. ASSUME NEW f \in Frames, NEW g \in Frames, Before(c, f, g)
      PROVE  LoadOf'[f] < LoadOf'[g]
  <2>1. f # e /\ LoadOf'[f] = LoadOf[f] /\ LoadOf[f] < Now
    BY <1>4, <1>5, TimesAfter
  <2>2. CASE g = e
    BY <2>1, <2>2, TimesAfter
  <2>3. CASE g # e
    <3>1. LoadOf'[g] = LoadOf[g]
      BY <2>3, TimesAfter
    <3>2. LoadOf[f] < LoadOf[g]
      BY <1>2, <1>4, <1>5, <2>3 DEF FIFOOrder
    <3> QED BY <2>1, <3>1, <3>2
  <2> QED BY <2>2, <2>3
<1>6. ~(nextFreeFrame' < MAX_PFN)
  BY VMAssumption
<1> QED BY <1>5, <1>6 DEF FIFOOrder

(* The victim of FIFO is the page loaded first. *)
LEMMA FIFOVictimLoadedFirst ==
  ASSUME IInv, HistoryTypes, FIFOOrder, replacementPolicy = FIFO, Allocated = Frames
  PROVE  \A r \in Resident : lastLoad[Owner(find_replacement)] <= lastLoad[r]
<1>1. find_replacement = fifo
  BY DEF find_replacement, fifo, lru, clock, ZERO, FIFO, LRU, CLOCK
<1>2. fifo \in Frames
  BY NextFifo DEF fifo, IInv, TypeOK
<1> SUFFICES ASSUME NEW r \in Resident
             PROVE  lastLoad[Owner(fifo)] <= lastLoad[r]
  BY <1>1
<1>3. PICK f \in Allocated : Owner(f) = r
  BY OwnerFacts
<1>4. CASE f = fifo
  <2>1. lastLoad[r] \in Nat
    BY DEF HistoryTypes, Resident
  <2> QED BY <1>3, <1>4, <2>1
<1>5. CASE f # fifo
  <2>1. Before(fifo, fifo, f)
    <3>1. fifo \in Int /\ f \in Int
      BY <1>2 DEF Frames
    <3> QED BY ONLY <1>5, <3>1 DEF Before
  <2>2. LoadOf[fifo] < LoadOf[f]
    BY <1>2, <2>1 DEF FIFOOrder
  <2>3. LoadOf[fifo] = lastLoad[Owner(fifo)] /\ LoadOf[f] = lastLoad[r]
    BY <1>2, <1>3 DEF LoadOf
  <2>4. lastLoad[Owner(fifo)] \in Nat /\ lastLoad[r] \in Nat
    BY <1>2, OwnerFacts DEF HistoryTypes, Resident
  <2> QED BY ONLY <2>2, <2>3, <2>4
<1> QED BY <1>4, <1>5

-----------------------------------------------------------------------------
(* CLOCK: the list, the bits and the hits. *)

(* The frames in the list of CLOCK are those handed out. *)
LEMMA ClockFrames ==
  ASSUME TypeOK, QueueInv, replacementPolicy = CLOCK
  PROVE  clockHead \in Seq(Nodes(Frames)) /\ OneOfEach(FramesIn(clockHead), Allocated)
BY DEF TypeOK, QueueInv, ClockNode, Nodes

LEMMA ClockOrderHit ==
  ASSUME IInv, HistoryTypes, Past, replacementPolicy = CLOCK, ClockOrder,
         NEW STATE e, e \in Allocated, NEW p \in Resident, Touched(e, p), Recorded(p),
         Owner(e) = p, Allocated' = Allocated, Resident' = Resident, QueuesAfterHit(e)
  PROVE  ClockOrder'
<1> DEFINE g == LoadOf
           h == LoadOf'
           H == HitFrames
           E == RecentFrames
           H1 == HitFrames'
           E1 == RecentFrames'
<1>1. clockHead' = clock_list_update_ref(clockHead, e, 1)
  BY DEF QueuesAfterHit
<1>2. clockHead \in Seq(Nodes(Frames)) /\ OneOfEach(FramesIn(clockHead), Allocated)
  BY ClockFrames DEF IInv
<1>3. /\ lastLoad' = lastLoad
      /\ hitSinceLoad' = hitSinceLoad \cup {p} /\ hitSinceEvict' = hitSinceEvict \cup {p}
  BY DEF Recorded
<1>4. \A f \in Allocated : f \in Frames /\ Owner(f)' = Owner(f) /\ (f # e => Owner(f) # p)
  BY AllocatedAreFrames DEF Touched, IInv
<1>5. SameTimes(Allocated, g, h)
  BY <1>3, <1>4 DEF LoadOf, SameTimes
<1>6. Joined(Allocated, H, H1, e) /\ Joined(Allocated, E, E1, e)
  BY <1>3, <1>4 DEF HitFrames, RecentFrames, Frames, Joined
<1>7. BitsRight(clockHead, H, E) /\ OthersIncrease(clockHead, g, H)
  BY DEF ClockOrder
<1> HIDE DEF g, h, H, E, H1, E1
<1>8. LET u == clock_list_update_ref(clockHead, e, 1)
      IN  BitsRight(u, H1, E1) /\ OthersIncrease(u, h, H1)
  BY ONLY <1>2, <1>5, <1>6, <1>7, e \in Allocated, ClockHit
<1>9. hitSinceEvict' \subseteq Resident'
  BY <1>3 DEF ClockOrder
<1> QED BY <1>1, <1>8, <1>9 DEF ClockOrder, h, H1, E1

LEMMA ClockOrderFree ==
  ASSUME IInv, HistoryTypes, Past, replacementPolicy = CLOCK, ClockOrder,
         NEW STATE e, e \in Frames \ Allocated, NEW p, p \notin Resident,
         Touched(e, p), Recorded(p),
         Allocated' = Allocated \cup {e}, Resident' = Resident \cup {p},
         QueuesAfterFault(FALSE, e)
  PROVE  ClockOrder'
<1> DEFINE g == LoadOf
           h == LoadOf'
           H == HitFrames
           E == RecentFrames
           H1 == HitFrames'
           E1 == RecentFrames'
<1>1. clockHead' = Append(clockHead, [data |-> e, ref |-> 0])
  BY DEF QueuesAfterFault
<1>2. clockHead \in Seq(Nodes(Frames)) /\ OneOfEach(FramesIn(clockHead), Allocated)
  BY ClockFrames DEF IInv
<1>3. hitSinceLoad' = hitSinceLoad \ {p} /\ hitSinceEvict' = hitSinceEvict
  BY DEF Recorded
<1>4. /\ \A f \in Allocated : f \in Frames /\ Owner(f)' = Owner(f) /\ Owner(f) # p
      /\ \A f \in Allocated' : f = e => Owner(f)' = p
  BY AllocatedAreFrames DEF Touched, IInv
<1>5. Later(Allocated, g, h, e)
  BY TimesAfter DEF Later
<1>6. SameSet(Allocated, H, H1) /\ SameSet(Allocated, E, E1)
  BY <1>3, <1>4 DEF HitFrames, RecentFrames, Frames, SameSet
<1>7. e \notin E1
  BY <1>3, <1>4 DEF RecentFrames, ClockOrder
<1>8. BitsRight(clockHead, H, E) /\ OthersIncrease(clockHead, g, H)
  BY DEF ClockOrder
<1> HIDE DEF g, h, H, E, H1, E1
<1>9. LET u == Append(clockHead, [data |-> e, ref |-> 0])
      IN  BitsRight(u, H1, E1) /\ OthersIncrease(u, h, H1)
  BY ONLY <1>2, <1>5, <1>6, <1>7, <1>8, e \in Frames, ClockAppend
<1>10. hitSinceEvict' \subseteq Resident'
  BY <1>3 DEF ClockOrder
<1> QED BY <1>1, <1>9, <1>10 DEF ClockOrder, h, H1, E1

(* The sweep turns the list of CLOCK and finds the victim at its head. *)
LEMMA ClockSweep ==
  ASSUME IInv, replacementPolicy = CLOCK, ClockOrder, Allocated = Frames
  PROVE  LET s == Sweep(clockHead)
             e == find_replacement
         IN  /\ s \in Seq(Nodes(Frames)) /\ OneOfEach(FramesIn(s), Frames) /\ s # << >>
             /\ e = s[1].data /\ e \in Frames
             /\ BitsRight(s, HitFrames, {}) /\ OthersIncrease(s, LoadOf, HitFrames)
             /\ e \in RecentFrames => \A f \in Frames : f \in HitFrames
             /\ e \notin HitFrames =>
                  \A f \in Frames \ HitFrames : f = e \/ LoadOf[e] < LoadOf[f]
<1> DEFINE s == Sweep(clockHead)
<1>1. clockHead \in Seq(Nodes(Frames)) /\ OneOfEach(FramesIn(clockHead), Frames)
  BY ClockFrames DEF IInv
<1>2. /\ FramesIn(clockHead) \in Seq(Frames) /\ Len(FramesIn(clockHead)) = Len(clockHead)
      /\ \A k \in 1 .. Len(clockHead) : FramesIn(clockHead)[k] = clockHead[k].data
  BY <1>1, FramesInSeq
<1>3. PICK m \in 0 .. Len(clockHead) : FramesIn(s) = Rotation(FramesIn(clockHead), m)
  BY <1>1, SweepRotates
<1>4. s \in Seq(Nodes(Frames))
  BY <1>1, SweepRotates
<1>5. OneOfEach(FramesIn(s), Frames) /\ FramesIn(s) \in Seq(Frames)
  BY <1>1, <1>2, <1>3, Rotated
<1>6. find_replacement = s[1].data
  BY DEF find_replacement, fifo, lru, clock, ZERO, FIFO, LRU, CLOCK
<1>7. BitsRight(clockHead, HitFrames, RecentFrames) /\ OthersIncrease(clockHead, LoadOf, HitFrames)
  BY DEF ClockOrder
<1>8. /\ BitsRight(s, HitFrames, {}) /\ OthersIncrease(s, LoadOf, HitFrames)
      /\ Len(clockHead) > 0 =>
           /\ s[1].data \in RecentFrames => \A k \in 1 .. Len(clockHead) : clockHead[k].data \in HitFrames
           /\ s[1].data \notin HitFrames => \A k \in 1 .. Len(clockHead) :
                clockHead[k].data \notin HitFrames =>
                  clockHead[k].data = s[1].data \/ LoadOf[s[1].data] < LoadOf[clockHead[k].data]
  BY <1>1, <1>7, SweepKeeps
<1> HIDE DEF s
<1>9. 0 \in Frames
  BY VMAssumption DEF Frames
<1>10. FramesIn(s) # << >> /\ FramesIn(s)[1] \in Frames
  BY <1>5, <1>9, OneOfEachNonempty
<1>11. s # << >> /\ s[1].data \in Frames
  BY <1>4, <1>10, FramesInHead
<1>12. \A f \in Frames : \E k \in 1 .. Len(clockHead) : clockHead[k].data = f
  BY <1>1, <1>2, OneOfEachByIndex
<1>13. Len(clockHead) > 0
  BY <1>1, <1>9, <1>12
<1> QED BY <1>4, <1>5, <1>6, <1>8, <1>11, <1>12, <1>13 DEF s

LEMMA ClockOrderEvict ==
  ASSUME IInv, HistoryTypes, Past, replacementPolicy = CLOCK, ClockOrder,
         NEW STATE e, e = find_replacement, NEW p, p \notin Resident,
         Touched(e, p), Recorded(p),
         Allocated = Frames, Allocated' = Frames,
         Owner(e) \in Resident, Resident' = (Resident \ {Owner(e)}) \cup {p},
         QueuesAfterFault(TRUE, e)
  PROVE  ClockOrder'
<1> DEFINE s == Sweep(clockHead)
           g == LoadOf
           h == LoadOf'
           H == HitFrames
           H1 == HitFrames'
<1>1. clockHead' = Append(Tail(s), [data |-> e, ref |-> 0])
  BY DEF QueuesAfterFault
<1>2. /\ s \in Seq(Nodes(Frames)) /\ OneOfEach(FramesIn(s), Frames) /\ s # << >>
      /\ e = s[1].data
      /\ BitsRight(s, H, {}) /\ OthersIncrease(s, g, H)
  BY ClockSweep
<1>3. Owner(e) \notin Resident'
  OBVIOUS
<1>4. hitSinceLoad' = hitSinceLoad \ {p} /\ hitSinceEvict' = {}
  BY <1>3 DEF Recorded
<1>5. \A f \in Frames \ {e} : Owner(f)' = Owner(f) /\ Owner(f) # p
  BY DEF Touched
<1>6. e \in Frames
  BY DEF Touched
<1>7. Later(Frames \ {e}, g, h, e)
  BY <1>6, TimesAfter DEF Later
<1>8. SameSet(Frames \ {e}, H, H1)
  BY <1>4, <1>5 DEF HitFrames, Frames, SameSet
<1> HIDE DEF s, g, h, H, H1
<1>9. LET u == Append(Tail(s), [data |-> s[1].data, ref |-> 0])
      IN  BitsRight(u, H1, {}) /\ OthersIncrease(u, h, H1)
  BY ONLY <1>2, <1>7, <1>8, ClockEvict
<1>10. RecentFrames' = {}
  BY <1>4 DEF RecentFrames
<1>11. hitSinceEvict' \subseteq Resident'
  BY <1>4
<1> QED BY <1>1, <1>2, <1>9, <1>10, <1>11 DEF ClockOrder, h, H1

-----------------------------------------------------------------------------
(* The policies keep their order. *)

(* Holds in every reachable state. *)
HInv == IInv /\ PolicyInv

(* What PolicyInv says while the program runs. *)
Orders ==
  /\ Past
  /\ replacementPolicy = LRU   => LRUOrder
  /\ replacementPolicy = FIFO  => FIFOOrder
  /\ replacementPolicy = CLOCK => ClockOrder

LEMMA InitHInv == HInit => HInv
<1> SUFFICES ASSUME HInit PROVE HInv
  OBVIOUS
<1>1. Init /\ IInv
  BY InitIInv DEF HInit
<1>2. /\ Allocated = {} /\ head = << >> /\ clockHead = << >> /\ fifoIndex = -1 /\ Now = 1
  BY <1>1 DEF Init, Allocated, Now
<1>3. /\ lastUse = [p \in AllPages |-> 0] /\ lastLoad = [p \in AllPages |-> 0]
      /\ hitSinceEvict = {}
  BY DEF HInit
<1>4. HistoryTypes
  BY <1>3 DEF HistoryTypes
<1>5. Past
  BY <1>2, <1>3 DEF Past
<1>6. Resident = {}
  BY <1>1 DEF Resident, Valid, Init, init_pagetable, AllPages
<1>7. Len(head) = 0 /\ Len(clockHead) = 0
  BY <1>2
<1>8. LRUOrder
  BY <1>3, <1>6, <1>7 DEF LRUOrder, Increasing
<1>9. FIFOOrder
  BY <1>2 DEF FIFOOrder
<1>10. ClockOrder
  BY <1>3, <1>7 DEF ClockOrder, BitsRight, OthersIncrease
<1> QED BY <1>1, <1>4, <1>5, <1>8, <1>9, <1>10 DEF HInv, PolicyInv, HistoryTypes

LEMMA HitOrders ==
  ASSUME IInv, HistoryTypes, Orders, NEW pid \in Pids, NEW VPN \in Pages, NEW type \in Types,
         NEW byte \in Byte, PageHit(pid, VPN, type, byte), Recorded(<<pid, VPN>>)
  PROVE  Orders'
<1> DEFINE e == FrameOf(pid, VPN)
           p == <<pid, VPN>>
<1>1. /\ Touched(e, p) /\ e \in Allocated /\ Owner(e) = p
      /\ Allocated' = Allocated /\ nextFreeFrame' = nextFreeFrame
      /\ p \in Resident /\ Resident' = Resident
      /\ QueuesAfterHit(e) /\ Now' = Now + 1
  BY HitFacts
<1>2. replacementPolicy' = replacementPolicy /\ p \in AllPages /\ TypeOK
  BY <1>1 DEF Touched, IInv
<1> HIDE DEF e, p
<1>3. Recorded(p) /\ Past
  BY DEF p, Orders
<1>4. Past'
  BY <1>1, <1>2, <1>3, RecordedInThePast
<1>5. CASE replacementPolicy = LRU
  <2>1. LRUOrder'
    BY <1>1, <1>3, <1>5, LRUHit DEF Orders
  <2> QED BY <1>2, <1>4, <1>5, <2>1 DEF Orders, FIFO, LRU, CLOCK
<1>6. CASE replacementPolicy = FIFO
  <2>1. FIFOOrder'
    BY <1>1, <1>3, <1>6, FIFOHit DEF Orders
  <2> QED BY <1>2, <1>4, <1>6, <2>1 DEF Orders, FIFO, LRU, CLOCK
<1>7. CASE replacementPolicy = CLOCK
  <2>1. ClockOrder'
    BY <1>1, <1>3, <1>7, ClockOrderHit DEF Orders
  <2> QED BY <1>2, <1>4, <1>7, <2>1 DEF Orders, FIFO, LRU, CLOCK
<1>8. CASE replacementPolicy \notin {LRU, FIFO, CLOCK}
  BY <1>2, <1>4, <1>8 DEF Orders
<1> QED BY <1>5, <1>6, <1>7, <1>8

LEMMA FreeOrders ==
  ASSUME IInv, HistoryTypes, Orders, NEW pid \in Pids, NEW VPN \in Pages, NEW type \in Types,
         NEW byte \in Byte, FaultFree(pid, VPN, type, byte), Recorded(<<pid, VPN>>)
  PROVE  Orders'
<1> DEFINE e == nextFreeFrame
           p == <<pid, VPN>>
<1>1. /\ Touched(e, p) /\ e \in Frames \ Allocated /\ nextFreeFrame < MAX_PFN
      /\ nextFreeFrame' = nextFreeFrame + 1 /\ Allocated' = Allocated \cup {e}
      /\ p \notin Resident /\ Resident' = Resident \cup {p}
      /\ QueuesAfterFault(FALSE, e) /\ Now' = Now + 1
  BY FreeFacts
<1>2. replacementPolicy' = replacementPolicy /\ p \in AllPages /\ TypeOK
  BY <1>1 DEF Touched, IInv
<1> HIDE DEF p
<1>3. Recorded(p) /\ Past
  BY DEF p, Orders
<1>4. Past'
  BY <1>1, <1>2, <1>3, RecordedInThePast
<1>5. CASE replacementPolicy = LRU
  <2>1. LRUOrder'
    BY <1>1, <1>3, <1>5, LRUFree DEF Orders
  <2> QED BY <1>2, <1>4, <1>5, <2>1 DEF Orders, FIFO, LRU, CLOCK
<1>6. CASE replacementPolicy = FIFO
  <2>1. FIFOOrder'
    BY <1>1, <1>3, <1>6, FIFOFree DEF Orders
  <2> QED BY <1>2, <1>4, <1>6, <2>1 DEF Orders, FIFO, LRU, CLOCK
<1>7. CASE replacementPolicy = CLOCK
  <2>1. ClockOrder'
    BY <1>1, <1>3, <1>7, ClockOrderFree DEF Orders
  <2> QED BY <1>2, <1>4, <1>7, <2>1 DEF Orders, FIFO, LRU, CLOCK
<1>8. CASE replacementPolicy \notin {LRU, FIFO, CLOCK}
  BY <1>2, <1>4, <1>8 DEF Orders
<1> QED BY <1>5, <1>6, <1>7, <1>8

LEMMA EvictOrders ==
  ASSUME IInv, HistoryTypes, Orders, NEW pid \in Pids, NEW VPN \in Pages, NEW type \in Types,
         NEW byte \in Byte, FaultEvict(pid, VPN, type, byte), Recorded(<<pid, VPN>>)
  PROVE  Orders'
<1> DEFINE e == find_replacement
           p == <<pid, VPN>>
<1>1. /\ Touched(e, p) /\ e \in Frames /\ Allocated = Frames /\ Allocated' = Frames
      /\ nextFreeFrame = MAX_PFN /\ nextFreeFrame' = nextFreeFrame
      /\ p \notin Resident /\ Owner(e) \in Resident
      /\ Resident' = (Resident \ {Owner(e)}) \cup {p}
      /\ QueuesAfterFault(TRUE, e) /\ Now' = Now + 1
  BY EvictFacts
<1>2. replacementPolicy' = replacementPolicy /\ p \in AllPages /\ TypeOK
  BY <1>1 DEF Touched, IInv
<1> HIDE DEF e, p
<1>3. Recorded(p) /\ Past /\ e = find_replacement
  BY DEF p, e, Orders
<1>4. Past'
  BY <1>1, <1>2, <1>3, RecordedInThePast
<1>5. CASE replacementPolicy = LRU
  <2>1. LRUOrder'
    BY <1>1, <1>3, <1>5, LRUEvict DEF Orders
  <2> QED BY <1>2, <1>4, <1>5, <2>1 DEF Orders, FIFO, LRU, CLOCK
<1>6. CASE replacementPolicy = FIFO
  <2>1. FIFOOrder'
    BY <1>1, <1>3, <1>6, FIFOEvict DEF Orders
  <2> QED BY <1>2, <1>4, <1>6, <2>1 DEF Orders, FIFO, LRU, CLOCK
<1>7. CASE replacementPolicy = CLOCK
  <2>1. ClockOrder'
    BY <1>1, <1>3, <1>7, ClockOrderEvict DEF Orders
  <2> QED BY <1>2, <1>4, <1>7, <2>1 DEF Orders, FIFO, LRU, CLOCK
<1>8. CASE replacementPolicy \notin {LRU, FIFO, CLOCK}
  BY <1>2, <1>4, <1>8 DEF Orders
<1> QED BY <1>5, <1>6, <1>7, <1>8

(* A step of HNext is a step of Next. *)
LEMMA HNextIsNext == [HNext]_hvars => [Next]_vars
BY DEF HNext, HServe, Next, hvars

LEMMA NextHInv == HInv /\ [HNext]_hvars => HInv'
<1> SUFFICES ASSUME HInv, [HNext]_hvars PROVE HInv'
  OBVIOUS
<1>1. IInv /\ PolicyInv /\ HistoryTypes /\ (running => Orders)
  BY DEF HInv, PolicyInv, Orders, HistoryTypes
<1>2. IInv'
  BY <1>1, HNextIsNext, NextIInv
<1> SUFFICES HistoryTypes' /\ (running' => Orders')
  BY <1>2 DEF HInv, PolicyInv, Orders, HistoryTypes
<1>3. ASSUME NEW pid \in Pids, NEW VPN \in Pages, NEW type \in Types, NEW byte \in Byte,
             HServe(pid, VPN, type, byte)
      PROVE  HistoryTypes' /\ (running' => Orders')
  <2>1. /\ Recorded(<<pid, VPN>>) /\ <<pid, VPN>> \in AllPages
        /\ running /\ Serve(pid, VPN, type, byte)
    BY <1>3 DEF HServe, Recorded, AllPages, Serve
  <2>2. HistoryTypes'
    BY <1>1, <2>1, RecordedInThePast DEF IInv
  <2>3. CASE PageHit(pid, VPN, type, byte)
    BY <1>1, <2>1, <2>2, <2>3, HitOrders
  <2>4. CASE FaultFree(pid, VPN, type, byte)
    BY <1>1, <2>1, <2>2, <2>4, FreeOrders
  <2>5. CASE WildRead(pid, VPN)
    BY <2>2, <2>5 DEF WildRead
  <2>6. CASE FaultEvict(pid, VPN, type, byte)
    BY <1>1, <2>1, <2>2, <2>6, EvictOrders
  <2> QED BY <2>1, <2>3, <2>4, <2>5, <2>6 DEF Serve
<1>4. CASE (Skip /\ UNCHANGED history) \/ UNCHANGED hvars
  <2>1. /\ UNCHANGED <<replacementPolicy, pageTable, invertedPageTable, nextFreeFrame>>
        /\ UNCHANGED <<fifoIndex, head, clockHead, stats, running>>
        /\ UNCHANGED <<lastUse, lastLoad, hitSinceLoad, hitSinceEvict>>
    BY <1>4 DEF Skip, hvars, vars, tables, queues, history
  <2>2. /\ Allocated' = Allocated /\ Resident' = Resident /\ Now' = Now /\ fifo' = fifo
        /\ UseOf' = UseOf /\ LoadOf' = LoadOf
        /\ HitFrames' = HitFrames /\ RecentFrames' = RecentFrames
    BY <2>1 DEF Allocated, Resident, Valid, Now, fifo, UseOf, LoadOf, Owner, HitFrames, RecentFrames
  <2>3. Past' = Past /\ LRUOrder' = LRUOrder /\ FIFOOrder' = FIFOOrder /\ ClockOrder' = ClockOrder
    BY ONLY <2>1, <2>2 DEF Past, LRUOrder, FIFOOrder, ClockOrder
  <2> QED BY <1>1, <2>1, <2>3 DEF Orders, HistoryTypes
<1>5. CASE pt_print_stats /\ UNCHANGED history
  BY <1>1, <1>5 DEF pt_print_stats, history, HistoryTypes
<1> QED BY <1>3, <1>4, <1>5 DEF HNext, Types

THEOREM PolicyInvariance == HSpec => []HInv
BY InitHInv, NextHInv, PTL DEF HSpec

-----------------------------------------------------------------------------
(* The properties. *)

(* When the frames run out, there are as many resident pages as frames. *)
LEMMA FullMemory ==
  ASSUME IInv, nextFreeFrame = MAX_PFN
  PROVE  Cardinality(Resident) = MAX_PFN
<1> DEFINE own == [f \in Frames |-> Owner(f)]
<1>1. Allocated = Frames /\ MAX_PFN \in Nat \ {0}
  BY VMAssumption DEF Allocated, Frames
<1>2. own \in [Frames -> Resident]
  BY <1>1, OwnerFacts
<1>3. \A r \in Resident : \E f \in Frames : own[f] = r
  BY <1>1, OwnerFacts
<1>4. \A f, g \in Frames : own[f] = own[g] => f = g
  BY <1>1, OwnerFacts
<1>5. IsFiniteSet(Frames) /\ Cardinality(Frames) = MAX_PFN
  <2>1. 0 \in Int /\ MAX_PFN - 1 \in Int /\ ~(0 > MAX_PFN - 1) /\ MAX_PFN - 1 - 0 + 1 = MAX_PFN
    BY <1>1
  <2>2. /\ IsFiniteSet(0 .. MAX_PFN - 1)
        /\ Cardinality(0 .. MAX_PFN - 1) =
             IF 0 > MAX_PFN - 1 THEN 0 ELSE MAX_PFN - 1 - 0 + 1
    BY ONLY <2>1, FS_Interval
  <2> QED BY <2>1, <2>2 DEF Frames
<1> HIDE DEF own
<1>6. own \in Surjection(Frames, Resident)
  BY <1>2, <1>3 DEF Surjection
<1>7. own \in Injection(Frames, Resident)
  BY <1>2, <1>4 DEF Injection, IsInjective
<1> QED BY <1>5, <1>6, <1>7, FS_Surjection

(* LRU keeps the most recently used pages (pagetable.c:103-104, 148-150).  *)
THEOREM LRUKeepsRecent == HSpec => []LRUStack
<1>1. HInv => LRUStack
  <2> SUFFICES ASSUME HInv, replacementPolicy = LRU, running
               PROVE  /\ \A p \in Resident, q \in AllPages \ Resident : lastUse[q] < lastUse[p]
                      /\ Cardinality(Resident) < MAX_PFN =>
                           \A p \in AllPages \ Resident : lastUse[p] = 0
    BY DEF LRUStack
  <2>1. LRUOrder /\ IInv
    BY DEF HInv, PolicyInv
  <2>2. nextFreeFrame \in 0 .. MAX_PFN /\ MAX_PFN \in Nat
    BY <2>1, VMAssumption DEF IInv, TypeOK
  <2>3. CASE nextFreeFrame < MAX_PFN
    BY <2>1, <2>3 DEF LRUOrder
  <2>4. CASE nextFreeFrame = MAX_PFN
    BY <2>1, <2>2, <2>4, FullMemory DEF LRUOrder
  <2> QED BY <2>2, <2>3, <2>4
<1> QED BY <1>1, PolicyInvariance, PTL

(* Only a fault that finds no free frame evicts, and what it evicts is the *)
(* page in the frame the policy chose.                                     *)
LEMMA EvictedIsVictim ==
  ASSUME HInv, [HNext]_hvars, NEW p \in Evicted
  PROVE  Orders /\ Allocated = Frames /\ p = Owner(find_replacement)
<1>1. IInv /\ (running => Orders) /\ p \in Resident /\ p \notin Resident'
  BY DEF HInv, PolicyInv, Orders, Evicted
<1>2. ASSUME NEW pid \in Pids, NEW VPN \in Pages, NEW type \in Types, NEW byte \in Byte,
             HServe(pid, VPN, type, byte)
      PROVE  Orders /\ Allocated = Frames /\ p = Owner(find_replacement)
  <2>1. running /\ Serve(pid, VPN, type, byte)
    BY <1>2 DEF HServe, Serve
  <2>2. CASE PageHit(pid, VPN, type, byte)
    BY <1>1, <2>2, HitFacts
  <2>3. CASE FaultFree(pid, VPN, type, byte)
    BY <1>1, <2>3, FreeFacts
  <2>4. CASE WildRead(pid, VPN)
    BY <1>1, <2>4 DEF WildRead, tables, Resident, Valid
  <2>5. CASE FaultEvict(pid, VPN, type, byte)
    <3>1. Allocated = Frames /\ Resident' = (Resident \ {Owner(find_replacement)}) \cup {<<pid, VPN>>}
      BY <1>1, <2>5, EvictFacts
    <3> QED BY <1>1, <2>1, <3>1
  <2> QED BY <2>1, <2>2, <2>3, <2>4, <2>5 DEF Serve
<1>3. CASE Skip \/ pt_print_stats \/ UNCHANGED hvars
  <2>1. UNCHANGED pageTable
    BY <1>3 DEF Skip, pt_print_stats, tables, hvars, vars
  <2> QED BY <1>1, <2>1 DEF Resident, Valid
<1> QED BY <1>2, <1>3 DEF HNext, Types

(* FIFO evicts the resident page loaded first (pagetable.c:12-15, 73-133). *)
THEOREM FIFOEvictsOldest == HSpec => FIFOVictim
<1>1. HInv /\ [HNext]_hvars =>
        [replacementPolicy = FIFO =>
           \A p \in Evicted, q \in Resident : lastLoad[p] <= lastLoad[q]]_hvars
  <2> SUFFICES ASSUME HInv, [HNext]_hvars, replacementPolicy = FIFO,
                      NEW p \in Evicted, NEW q \in Resident
               PROVE  lastLoad[p] <= lastLoad[q]
    OBVIOUS
  <2>1. Orders /\ Allocated = Frames /\ p = Owner(find_replacement)
    BY EvictedIsVictim
  <2>2. IInv /\ HistoryTypes
    BY DEF HInv, PolicyInv, HistoryTypes
  <2> QED BY <2>1, <2>2, FIFOVictimLoadedFirst DEF Orders
<1> QED BY <1>1, PolicyInvariance, PTL DEF HSpec, FIFOVictim

(* CLOCK gives a page hit since the last eviction a second chance          *)
(* (pagetable.c:29-38, 152-155).                                           *)
THEOREM ClockGivesSecondChance == HSpec => ClockSecondChance
<1>1. HInv /\ [HNext]_hvars =>
        [replacementPolicy = CLOCK =>
           \A p \in Evicted, q \in Resident : p \in hitSinceEvict => q \in hitSinceLoad]_hvars
  <2> SUFFICES ASSUME HInv, [HNext]_hvars, replacementPolicy = CLOCK,
                      NEW p \in Evicted, NEW q \in Resident, p \in hitSinceEvict
               PROVE  q \in hitSinceLoad
    OBVIOUS
  <2>1. ClockOrder /\ Allocated = Frames /\ p = Owner(find_replacement)
    BY EvictedIsVictim DEF Orders
  <2>2. IInv
    BY DEF HInv
  <2>3. PICK f \in Frames : Owner(f) = q
    BY <2>1, <2>2, OwnerFacts
  <2>4. /\ find_replacement \in Frames
        /\ find_replacement \in RecentFrames => \A g \in Frames : g \in HitFrames
    BY <2>1, <2>2, ClockSweep
  <2> QED BY <2>1, <2>3, <2>4 DEF RecentFrames, HitFrames
<1> QED BY <1>1, PolicyInvariance, PTL DEF HSpec, ClockSecondChance

(* Among the pages never hit since they were loaded, CLOCK evicts the one  *)
(* loaded first (pagetable.c:29-38).                                       *)
THEOREM ClockEvictsOldestUnhit == HSpec => ClockKeepsLoadOrder
<1>1. HInv /\ [HNext]_hvars =>
        [replacementPolicy = CLOCK =>
           \A p \in Evicted \ hitSinceLoad, q \in Resident \ hitSinceLoad :
             lastLoad[p] <= lastLoad[q]]_hvars
  <2> SUFFICES ASSUME HInv, [HNext]_hvars, replacementPolicy = CLOCK,
                      NEW p \in Evicted, p \notin hitSinceLoad,
                      NEW q \in Resident, q \notin hitSinceLoad
               PROVE  lastLoad[p] <= lastLoad[q]
    OBVIOUS
  <2>1. ClockOrder /\ Allocated = Frames /\ p = Owner(find_replacement)
    BY EvictedIsVictim DEF Orders
  <2>2. IInv /\ lastLoad[p] \in Nat /\ lastLoad[q] \in Nat
    BY DEF HInv, PolicyInv, Resident, Evicted
  <2>3. PICK f \in Frames : Owner(f) = q
    BY <2>1, <2>2, OwnerFacts
  <2>4. find_replacement \in Frames \ HitFrames /\ f \in Frames \ HitFrames
    <3>1. find_replacement \in Frames
      BY <2>1, <2>2, ClockSweep
    <3> QED BY <2>1, <2>3, <3>1 DEF HitFrames
  <2>5. f = find_replacement \/ LoadOf[find_replacement] < LoadOf[f]
    BY <2>1, <2>2, <2>4, ClockSweep
  <2>6. LoadOf[find_replacement] = lastLoad[p] /\ LoadOf[f] = lastLoad[q]
    BY <2>1, <2>3, <2>4 DEF LoadOf
  <2> QED BY <2>2, <2>5, <2>6
<1> QED BY <1>1, PolicyInvariance, PTL DEF HSpec, ClockKeepsLoadOrder
=============================================================================
