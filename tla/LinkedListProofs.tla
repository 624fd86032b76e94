--------------------------- MODULE LinkedListProofs ---------------------------
(***************************************************************************)
(* The safety theorems of LinkedList.tla, for any finite set of frames.    *)
(*                                                                         *)
(* The heap holds no list, only pointers.  The invariant says that there   *)
(* is a sequence of addresses whose nodes point at one another in that     *)
(* order, forth and back; what a call does is then said of the sequence,   *)
(* at whatever node its loop stands.                                       *)
(***************************************************************************)
EXTENDS LinkedList, QueueProofs, FiniteSetTheorems

(* The address at the place k of the list q: there is none before the      *)
(* first and none after the last.                                          *)
At(q, k) == IF k \in 1 .. Len(q) THEN q[k] ELSE NULL

(* From h the nodes of hp form the list of the addresses q, each of which  *)
(* points to the one after it and to the one before it, and carries a      *)
(* frame no other carries.                                                 *)
Chain(hp, h, q) ==
  /\ q \in Seq(Node)
  /\ h = At(q, 1)
  /\ \A k \in 1 .. Len(q) :
       /\ hp[q[k]].next = At(q, k + 1)
       /\ hp[q[k]].prev = At(q, k - 1)
       /\ hp[q[k]].data \in Frame
  /\ \A j, k \in 1 .. Len(q) : hp[q[j]].data = hp[q[k]].data => j = k

(* What the nodes carry. *)
Item(cell) == [data |-> cell.data, ref |-> cell.ref]
Items(hp, q) == [k \in 1 .. Len(q) |-> Item(hp[q[k]])]

Pointer == Node \cup {NULL}
Cell == [next : Pointer, prev : Pointer, data : Frame \cup {0}, ref : {0, 1}]

(* A search for the frame x has come to the place i without finding it. *)
Seeking(q, x, i) == cur = At(q, i) /\ \A j \in 1 .. i - 1 : heap[q[j]].data # x

(* clock() has moved t nodes of b, all of them referenced, and made u of it. *)
Turned(b, u, t) ==
  /\ b \in Seq(Nodes(Frame)) /\ Len(u) = Len(b)
  /\ \A k \in 1 .. t : b[k].ref = 1
  /\ \A k \in 1 .. Len(b) :
       u[k] = IF k <= Len(b) - t THEN b[k + t]
              ELSE [data |-> b[k - (Len(b) - t)].data, ref |-> 0]

Turning(u) == call.op = "clock" /\ \E t \in 0 .. Len(before) : Turned(before, u, t)

(* The state of a call, by the loop it is in. *)
Idle(q) == pc = "idle" /\ Items(heap, q) = Promised

Inserting(q) ==
  /\ pc = "insert"
  /\ \E i \in 1 .. Len(q) : cur = q[i]
  /\ new \in Node /\ \A k \in 1 .. Len(q) : new # q[k] /\ heap[new].data # heap[q[k]].data
  /\ heap[new].next = NULL /\ heap[new].data \in Frame
  /\ LET u == Append(Items(heap, q), Item(heap[new]))
     IN  (call.op = "insert" /\ u = Promised) \/ Turning(u)

Removing(q) ==
  /\ pc = "remove" /\ call.op = "remove" /\ Items(heap, q) = before
  /\ \E i \in 1 .. Len(q) + 1 : Seeking(q, call.data, i)

RemovingTail(q) ==
  /\ pc = "removeTail" /\ call.op = "remove" /\ Items(heap, q) = before
  /\ Len(q) > 1 /\ heap[q[Len(q)]].data = call.data
  /\ \E i \in 1 .. Len(q) : cur = q[i]

Updating(q) ==
  /\ pc = "update" /\ call.op = "update" /\ call.ref \in {0, 1} /\ Items(heap, q) = before
  /\ \E i \in 1 .. Len(q) + 1 : Seeking(q, call.data, i)

Clocking(q) == pc = "clock" /\ q # << >> /\ Turning(Items(heap, q))

Shape(q) ==
  /\ Chain(heap, head, q)
  /\ Idle(q) \/ Inserting(q) \/ Removing(q) \/ RemovingTail(q) \/ Updating(q) \/ Clocking(q)

IInv ==
  /\ heap \in [Node -> Cell]
  /\ \E q \in Seq(Node) : Shape(q)

-----------------------------------------------------------------------------
(* The walk through next. *)

(* From h the nodes of the heap follow one another as in q. *)
Linked(h, q) ==
  /\ q \in Seq(Node)
  /\ h = At(q, 1)
  /\ \A k \in 1 .. Len(q) : heap[q[k]].next = At(q, k + 1)

LEMMA AtIs ==
  ASSUME ListAssumption, NEW q \in Seq(Node)
  PROVE  /\ Len(q) \in Nat
         /\ \A k \in 1 .. Len(q) : q[k] \in Node
         /\ \A k \in 1 .. Len(q) : At(q, k) = q[k] /\ At(q, k) # NULL
         /\ \A k : k \notin 1 .. Len(q) => At(q, k) = NULL
         /\ NULL \notin Node
<1>1. Len(q) \in Nat /\ \A k \in 1 .. Len(q) : q[k] \in Node
  BY LenProperties, ElementOfSeq
<1>2. NULL \notin Node
  BY DEF Node, NULL
<1> QED BY <1>1, <1>2 DEF At

LEMMA CountUpTo ==
  ASSUME NEW n \in Nat
  PROVE  IsFiniteSet(1 .. n) /\ Cardinality(1 .. n) = n
<1>1. IsFiniteSet(1 .. n) /\ Cardinality(1 .. n) = IF 1 > n THEN 0 ELSE n - 1 + 1
  <2>1. 1 \in Int /\ n \in Int
    OBVIOUS
  <2> QED BY ONLY <2>1, FS_Interval
<1> QED BY <1>1

(* A list is shorter than the memory: its frames differ. *)
LEMMA ChainShort ==
  ASSUME ListAssumption, NEW hp, NEW h, NEW q, Chain(hp, h, q)
  PROVE  /\ Len(q) \in Nat /\ Len(q) < MaxNodes
         /\ \A j, k \in 1 .. Len(q) : q[j] = q[k] => j = k
<1> DEFINE f == [k \in 1 .. Len(q) |-> hp[q[k]].data]
<1>1. Len(q) \in Nat /\ \A k \in 1 .. Len(q) : hp[q[k]].data \in Frame
  BY AtIs DEF Chain
<1>2. \A j, k \in 1 .. Len(q) : hp[q[j]].data = hp[q[k]].data => j = k
  BY DEF Chain
<1>3. f \in Injection(1 .. Len(q), Frame)
  BY <1>1, <1>2 DEF Injection, IsInjective
<1>4. Cardinality(1 .. Len(q)) <= Cardinality(Frame)
  <2> HIDE DEF f
  <2> QED BY <1>3, FS_Injection DEF ListAssumption
<1>5. Cardinality(1 .. Len(q)) = Len(q)
  BY <1>1, CountUpTo
<1>6. MaxNodes \in Nat /\ Cardinality(Frame) \in Nat /\ Cardinality(Frame) < MaxNodes
  BY FS_CardinalityType DEF ListAssumption
<1> QED BY <1>1, <1>2, <1>4, <1>5, <1>6

LEMMA ChainFacts ==
  ASSUME ListAssumption, NEW hp, NEW h, NEW q, Chain(hp, h, q)
  PROVE  /\ q \in Seq(Node) /\ Len(q) \in Nat
         /\ \A k \in 1 .. Len(q) : q[k] \in Node /\ At(q, k) = q[k] /\ q[k] # NULL
         /\ \A k : k \notin 1 .. Len(q) => At(q, k) = NULL
         /\ \A j, k \in 1 .. Len(q) : q[j] = q[k] => j = k
<1>1. q \in Seq(Node)
  BY DEF Chain
<1>2. /\ Len(q) \in Nat /\ \A k \in 1 .. Len(q) : q[k] \in Node /\ At(q, k) = q[k] /\ q[k] # NULL
      /\ \A k : k \notin 1 .. Len(q) => At(q, k) = NULL
  BY <1>1, AtIs
<1>3. \A j, k \in 1 .. Len(q) : q[j] = q[k] => j = k
  BY ONLY ListAssumption, Chain(hp, h, q), ChainShort
<1> QED BY <1>1, <1>2, <1>3

(* Following next from the head visits the addresses in their order. *)
LEMMA PathIs ==
  ASSUME ListAssumption, NEW h, NEW q, Linked(h, q)
  PROVE  Path(h) = [k \in Node |-> At(q, k)]
<1> DEFINE Walk(g) == [k \in Node |-> IF k = 1 THEN h
                                      ELSE IF g[k - 1] = NULL THEN NULL ELSE heap[g[k - 1]].next]
           w == [k \in Node |-> At(q, k)]
           p == CHOOSE g : g = Walk(g)
<1>1. MaxNodes \in Nat /\ \A k \in Node : k \in Nat /\ k >= 1 /\ (k # 1 => k - 1 \in Node)
  BY DEF ListAssumption, Node
<1>2. w = Walk(w)
  <2> SUFFICES ASSUME NEW k \in Node
               PROVE  At(q, k) = IF k = 1 THEN h ELSE IF w[k - 1] = NULL THEN NULL ELSE heap[w[k - 1]].next
    OBVIOUS
  <2>1. CASE k = 1
    BY <2>1 DEF Linked
  <2>2. CASE k # 1
    <3>1. k - 1 \in Node /\ w[k - 1] = At(q, k - 1) /\ k - 1 >= 1 /\ k \in Nat /\ k - 1 + 1 = k
      BY <1>1, <2>2
    <3>2. Len(q) \in Nat
      BY AtIs DEF Linked
    <3>3. CASE k - 1 \in 1 .. Len(q)
      <4>1. At(q, k - 1) = q[k - 1] /\ q[k - 1] # NULL
        BY <3>3, AtIs DEF Linked
      <4>2. heap[q[k - 1]].next = At(q, k - 1 + 1)
        BY ONLY <3>3, Linked(h, q) DEF Linked
      <4> QED BY <2>2, <3>1, <4>1, <4>2
    <3>4. CASE k - 1 \notin 1 .. Len(q)
      <4>1. k \notin 1 .. Len(q)
        BY ONLY SMTT(30), <3>1, <3>2, <3>4
      <4> QED BY <2>2, <3>1, <3>4, <4>1 DEF At
    <3> QED BY <3>3, <3>4
  <2> QED BY <2>1, <2>2
<1>3. p = Walk(p)
  BY <1>2
<1>4. p = w
  <2> DEFINE T == {k \in Node : p[k] # w[k]}
  <2> SUFFICES ASSUME T # {} PROVE FALSE
    BY <1>2, <1>3
  <2>1. PICK k \in T : \A j \in T : k <= j
    BY <1>1, LeastNat
  <2>2. p[k] = Walk(p)[k] /\ w[k] = Walk(w)[k] /\ k \in Node /\ p[k] # w[k]
    BY <1>2, <1>3, <2>1
  <2> HIDE DEF p, w
  <2>3. k # 1
    BY <2>2
  <2>4. k - 1 \in Node /\ ~(k <= k - 1)
    BY <1>1, <2>2, <2>3
  <2>5. p[k - 1] = w[k - 1]
    BY <2>1, <2>4
  <2>6. /\ p[k] = IF p[k - 1] = NULL THEN NULL ELSE heap[p[k - 1]].next
        /\ w[k] = IF w[k - 1] = NULL THEN NULL ELSE heap[w[k - 1]].next
    BY ONLY <2>2, <2>3
  <2> QED BY ONLY SMTT(30), <2>2, <2>5, <2>6
<1>5. Path(h) = p
  BY DEF Path
<1> QED BY <1>4, <1>5

LEMMA ReachedIs ==
  ASSUME ListAssumption, NEW h, NEW q, Linked(h, q), Len(q) < MaxNodes
  PROVE  Reached(h) = {q[k] : k \in 1 .. Len(q)}
<1>1. Path(h) = [k \in Node |-> At(q, k)]
  BY PathIs
<1>2. /\ Len(q) \in Nat /\ \A k \in 1 .. Len(q) : At(q, k) = q[k] /\ At(q, k) # NULL
      /\ \A k : k \notin 1 .. Len(q) => At(q, k) = NULL
  BY AtIs DEF Linked
<1>3. \A k \in 1 .. Len(q) : k \in Node
  BY <1>2 DEF ListAssumption, Node
<1>4. Reached(h) = {At(q, k) : k \in Node} \ {NULL}
  BY <1>1 DEF Reached
<1> QED BY <1>2, <1>3, <1>4

(* The list as pagetable.c means it is what the nodes of the chain carry.  *)
LEMMA ListIs ==
  ASSUME ListAssumption, NEW h, NEW q, Chain(heap, h, q)
  PROVE  List(h) = Items(heap, q)
<1>1. Linked(h, q) /\ Len(q) \in Nat /\ Len(q) < MaxNodes
  BY ChainShort DEF Linked, Chain
<1>2. Path(h) = [k \in Node |-> At(q, k)]
  BY <1>1, PathIs
<1>3. /\ \A k \in 1 .. Len(q) : At(q, k) = q[k] /\ At(q, k) # NULL
      /\ \A k : k \notin 1 .. Len(q) => At(q, k) = NULL
  BY <1>1, AtIs DEF Linked
<1>4. \A k \in 1 .. Len(q) : k \in Node
  BY <1>1 DEF ListAssumption, Node
<1>5. {j \in Node : Path(h)[j] # NULL} = 1 .. Len(q)
  BY <1>2, <1>3, <1>4
<1>6. Cardinality(1 .. Len(q)) = Len(q)
  BY <1>1, CountUpTo
<1>7. List(h) = [k \in 1 .. Len(q) |-> [data |-> heap[Path(h)[k]].data, ref |-> heap[Path(h)[k]].ref]]
  BY <1>5, <1>6 DEF List
<1>8. \A k \in 1 .. Len(q) : Path(h)[k] = q[k]
  BY <1>2, <1>3, <1>4
<1> QED BY <1>7, <1>8 DEF Items, Item

(* Every node of q is one of big, and so is the node before it. *)
Within(q, big) ==
  \A k \in 1 .. Len(q) :
    /\ \E j \in 1 .. Len(big) : q[k] = big[j]
    /\ heap[q[k]].prev = NULL \/ \E j \in 1 .. Len(big) : heap[q[k]].prev = big[j]

(* malloc finds an address outside the list from h, even while the nodes   *)
(* of a longer list are taken.                                             *)
LEMMA NewNodeIs ==
  ASSUME ListAssumption, NEW h, NEW q, Linked(h, q),
         NEW big \in Seq(Node), Len(big) < MaxNodes,
         Within(q, big), Len(q) <= Len(big)
  PROVE  new_node(h) \in Node /\ \A k \in 1 .. Len(q) : new_node(h) # q[k]
<1> DEFINE taken == {big[j] : j \in 1 .. Len(big)}
           free  == Node \ InUse(h)
<1>1. Len(big) \in Nat /\ (\A j \in 1 .. Len(big) : big[j] \in Node) /\ NULL \notin Node /\ Len(q) < MaxNodes
  <2>1. Len(q) \in Nat
    BY AtIs DEF Linked
  <2> QED BY <2>1, AtIs DEF ListAssumption
<1>2. Reached(h) = {q[k] : k \in 1 .. Len(q)}
  BY <1>1, ReachedIs
<1>3. InUse(h) \cap Node \subseteq taken
  <2>1. ASSUME NEW n \in Reached(h) PROVE n \in taken /\ (heap[n].prev = NULL \/ heap[n].prev \in taken)
    <3>1. PICK k \in 1 .. Len(q) : n = q[k]
      BY <1>2
    <3> QED BY <3>1 DEF Within
  <2> HIDE DEF taken
  <2> QED BY <1>1, <2>1 DEF InUse
<1>4. IsFiniteSet(taken) /\ Cardinality(taken) < MaxNodes
  <2>1. IsFiniteSet(1 .. Len(big)) /\ Cardinality(1 .. Len(big)) = Len(big)
    BY <1>1, CountUpTo
  <2>2. big \in [1 .. Len(big) -> Node] /\ DOMAIN big = 1 .. Len(big)
    BY LenProperties, <1>1
  <2>3. big \in Surjection(1 .. Len(big), taken)
    BY <2>2 DEF Surjection
  <2>4. IsFiniteSet(taken) /\ Cardinality(taken) <= Cardinality(1 .. Len(big))
    <3> HIDE DEF taken
    <3> QED BY <2>1, <2>3, FS_Surjection
  <2>5. Cardinality(taken) \in Nat
    BY <2>4, FS_CardinalityType
  <2>6. MaxNodes \in Nat
    BY DEF ListAssumption
  <2> HIDE DEF taken
  <2> QED BY ONLY <1>1, <2>1, <2>4, <2>5, <2>6, Len(big) < MaxNodes
<1>5. Cardinality(Node) = MaxNodes
  BY CountUpTo DEF Node, ListAssumption
<1>6. free # {}
  <2> SUFFICES ASSUME free = {} PROVE FALSE
    OBVIOUS
  <2>1. Node \in SUBSET taken
    BY <1>3
  <2>2. Cardinality(Node) <= Cardinality(taken)
    <3> HIDE DEF taken
    <3> QED BY <1>4, <2>1, FS_Subset
  <2>3. Cardinality(taken) \in Nat /\ MaxNodes \in Nat
    BY <1>4, FS_CardinalityType DEF ListAssumption
  <2> QED BY <1>4, <1>5, <2>2, <2>3
<1>7. free \in SUBSET Nat
  BY DEF Node, ListAssumption
<1>8. \E n \in free : \A m \in free : n <= m
  <2> HIDE DEF free
  <2> QED BY <1>6, <1>7, LeastNat
<1>9. new_node(h) \in free
  BY <1>8 DEF new_node
<1>10. \A k \in 1 .. Len(q) : q[k] \in InUse(h)
  BY <1>2 DEF InUse
<1> QED BY <1>9, <1>10

LEMMA NewNodeOutside ==
  ASSUME ListAssumption, NEW q, Chain(heap, head, q)
  PROVE  new_node(head) \in Node /\ \A k \in 1 .. Len(q) : new_node(head) # q[k]
<1>1. Linked(head, q) /\ q \in Seq(Node) /\ Len(q) \in Nat /\ Len(q) < MaxNodes /\ Len(q) <= Len(q)
  <2>1. Len(q) \in Nat /\ Len(q) < MaxNodes
    BY ChainShort
  <2>2. Linked(head, q) /\ q \in Seq(Node)
    BY DEF Linked, Chain
  <2> QED BY ONLY <2>1, <2>2
<1>2. Within(q, q)
  <2> SUFFICES ASSUME NEW k \in 1 .. Len(q)
               PROVE  heap[q[k]].prev = NULL \/ \E j \in 1 .. Len(q) : heap[q[k]].prev = q[j]
    BY DEF Within
  <2>1. heap[q[k]].prev = At(q, k - 1)
    BY DEF Chain
  <2>2. At(q, k - 1) = NULL \/ \E j \in 1 .. Len(q) : At(q, k - 1) = q[j]
    BY DEF At
  <2> QED BY <2>1, <2>2
<1> QED BY ONLY ListAssumption, <1>1, <1>2, NewNodeIs

-----------------------------------------------------------------------------
(* What an assignment to the pointers does to the list. *)

LEMMA ItemsAre ==
  ASSUME ListAssumption, NEW hp \in [Node -> Cell], NEW h, NEW q, Chain(hp, h, q)
  PROVE  /\ Items(hp, q) \in Seq(Nodes(Frame)) /\ Len(Items(hp, q)) = Len(q) /\ Len(q) \in Nat
         /\ \A k \in 1 .. Len(q) : Items(hp, q)[k] = Item(hp[q[k]])
<1>1. Len(q) \in Nat /\ \A k \in 1 .. Len(q) : q[k] \in Node
  BY AtIs DEF Chain
<1>2. ASSUME NEW k \in 1 .. Len(q) PROVE Item(hp[q[k]]) \in Nodes(Frame)
  <2>1. hp[q[k]] \in Cell
    BY <1>1
  <2>2. hp[q[k]].ref \in {0, 1} /\ hp[q[k]].data \in Frame
    BY <2>1 DEF Cell, Chain
  <2> QED BY <2>2 DEF Item, Nodes
<1> QED BY <1>1, <1>2 DEF Items

(* In hp2 the neighbours of the place i of q point past it. *)
Bypassed(hp, hp2, q, i) ==
  \A k \in 1 .. Len(q) : k # i =>
    /\ Item(hp2[q[k]]) = Item(hp[q[k]])
    /\ hp2[q[k]].next = IF k = i - 1 THEN At(q, i + 1) ELSE hp[q[k]].next
    /\ hp2[q[k]].prev = IF k = i + 1 THEN At(q, i - 1) ELSE hp[q[k]].prev

LEMMA SameItem ==
  ASSUME NEW c, NEW d, Item(c) = Item(d)
  PROVE  c.data = d.data /\ c.ref = d.ref
BY DEF Item

(* A node that is bypassed is out of the list. *)
LEMMA Unlinked ==
  ASSUME ListAssumption, NEW hp \in [Node -> Cell], NEW hp2 \in [Node -> Cell], NEW h, NEW q, Chain(hp, h, q),
         NEW i \in 1 .. Len(q), Bypassed(hp, hp2, q, i)
  PROVE  /\ Chain(hp2, IF i = 1 THEN At(q, 2) ELSE h, RemoveAt(q, i))
         /\ Items(hp2, RemoveAt(q, i)) = RemoveAt(Items(hp, q), i)
         /\ Len(RemoveAt(q, i)) = Len(q) - 1
<1> DEFINE r == RemoveAt(q, i)
           Skip(k) == IF k < i THEN k ELSE k + 1
<1>1. /\ Len(q) \in Nat /\ i \in Nat /\ 1 <= i /\ i <= Len(q)
      /\ r \in Seq(Node) /\ Len(r) = Len(q) - 1
      /\ \A k \in 1 .. Len(q) - 1 : r[k] = q[Skip(k)]
      /\ q \in Seq(Node)
  <2>1. q \in Seq(Node) /\ Len(q) \in Nat
    BY AtIs DEF Chain
  <2>2. /\ r \in Seq(Node) /\ Len(r) = Len(q) - 1
        /\ \A k \in 1 .. Len(q) - 1 : r[k] = IF k < i THEN q[k] ELSE q[k + 1]
    BY <2>1, RemoveAtIs
  <2> QED BY <2>1, <2>2
<1> HIDE DEF r
<1>2. \A k \in 1 .. Len(q) - 1 : Skip(k) \in 1 .. Len(q) /\ Skip(k) # i
  BY <1>1
<1>3. \A k \in 0 .. Len(q) : At(r, k) = At(q, Skip(k))
  <2> SUFFICES ASSUME NEW k \in 0 .. Len(q) PROVE At(r, k) = At(q, Skip(k))
    OBVIOUS
  <2>1. CASE k \in 1 .. Len(q) - 1
    BY <1>1, <1>2, <2>1 DEF At
  <2>2. CASE k \notin 1 .. Len(q) - 1
    <3>1. k = 0 \/ k = Len(q)
      BY <1>1, <2>2
    <3>2. Skip(k) \notin 1 .. Len(q)
      BY <1>1, <3>1
    <3> QED BY <1>1, <2>2, <3>2 DEF At
  <2> QED BY <2>1, <2>2
<1>4. ASSUME NEW k \in 1 .. Len(q) - 1
      PROVE  /\ hp2[r[k]].next = At(r, k + 1)
             /\ hp2[r[k]].prev = At(r, k - 1)
             /\ hp2[r[k]].data \in Frame /\ Item(hp2[r[k]]) = Item(hp[q[Skip(k)]])
             /\ hp2[r[k]].data = hp[q[Skip(k)]].data
  <2>1. PICK s \in 1 .. Len(q) : s = Skip(k) /\ s # i /\ r[k] = q[s]
    BY <1>1, <1>2
  <2>2. /\ Item(hp2[q[s]]) = Item(hp[q[s]])
        /\ hp2[q[s]].next = IF s = i - 1 THEN At(q, i + 1) ELSE hp[q[s]].next
        /\ hp2[q[s]].prev = IF s = i + 1 THEN At(q, i - 1) ELSE hp[q[s]].prev
    BY <2>1 DEF Bypassed
  <2>3. hp[q[s]].next = At(q, s + 1) /\ hp[q[s]].prev = At(q, s - 1) /\ hp[q[s]].data \in Frame
    BY DEF Chain
  <2>4. At(r, k + 1) = At(q, Skip(k + 1)) /\ At(r, k - 1) = At(q, Skip(k - 1))
    <3>1. k + 1 \in 0 .. Len(q) /\ k - 1 \in 0 .. Len(q)
      BY <1>1
    <3> HIDE DEF Skip
    <3> QED BY <1>3, <3>1
  <2>5. Skip(k + 1) = IF s = i - 1 THEN i + 1 ELSE s + 1
    BY <1>1, <2>1
  <2>6. Skip(k - 1) = IF s = i + 1 THEN i - 1 ELSE s - 1
    BY <1>1, <2>1
  <2>7. hp2[q[s]].data = hp[q[s]].data
    BY <2>2, SameItem
  <2> HIDE DEF Skip
  <2> QED BY ONLY <2>1, <2>2, <2>3, <2>4, <2>5, <2>6, <2>7
<1>5. ASSUME NEW j \in 1 .. Len(q) - 1, NEW k \in 1 .. Len(q) - 1, hp2[r[j]].data = hp2[r[k]].data
      PROVE  j = k
  <2>1. hp[q[Skip(j)]].data = hp[q[Skip(k)]].data
    BY <1>4, <1>5
  <2>2. \A a, b \in 1 .. Len(q) : hp[q[a]].data = hp[q[b]].data => a = b
    BY DEF Chain
  <2>3. Skip(j) = Skip(k)
    <3> HIDE DEF Skip
    <3> QED BY ONLY <1>2, <2>1, <2>2, j \in 1 .. Len(q) - 1, k \in 1 .. Len(q) - 1
  <2> QED BY <1>1, <2>3
<1>6. (IF i = 1 THEN At(q, 2) ELSE h) = At(r, 1)
  <2>1. At(r, 1) = At(q, Skip(1))
    BY <1>1, <1>3
  <2> QED BY <1>1, <2>1 DEF Chain
<1>7. Chain(hp2, IF i = 1 THEN At(q, 2) ELSE h, r)
  BY ONLY <1>1, <1>4, <1>5, <1>6 DEF Chain
<1>8. Items(hp2, r) = RemoveAt(Items(hp, q), i)
  <2> DEFINE u == Items(hp, q)
             v == RemoveAt(u, i)
             w == Items(hp2, r)
  <2>1. u \in Seq(Nodes(Frame)) /\ Len(u) = Len(q) /\ \A k \in 1 .. Len(q) : u[k] = Item(hp[q[k]])
    BY ItemsAre
  <2>2. w \in Seq(Nodes(Frame)) /\ Len(w) = Len(q) - 1 /\ \A k \in 1 .. Len(q) - 1 : w[k] = Item(hp2[r[k]])
    <3>1. PICK h2 : Chain(hp2, h2, r)
      BY <1>7
    <3>2. w \in Seq(Nodes(Frame)) /\ Len(w) = Len(r) /\ \A k \in 1 .. Len(r) : w[k] = Item(hp2[r[k]])
      BY ONLY ListAssumption, <3>1, hp2 \in [Node -> Cell], ItemsAre
    <3> QED BY <1>1, <3>2
  <2> HIDE DEF u, w
  <2>3. /\ v \in Seq(Nodes(Frame)) /\ Len(v) = Len(q) - 1
        /\ \A k \in 1 .. Len(q) - 1 : v[k] = IF k < i THEN u[k] ELSE u[k + 1]
    BY <2>1, RemoveAtIs
  <2> HIDE DEF v
  <2>4. ASSUME NEW k \in 1 .. Len(q) - 1 PROVE v[k] = w[k]
    <3>1. v[k] = u[Skip(k)]
      BY <2>3
    <3> HIDE DEF Skip
    <3> QED BY <1>2, <1>4, <2>1, <2>2, <3>1
  <2>5. v = w
    BY ONLY <2>2, <2>3, <2>4, SeqEqual
  <2> QED BY <2>5 DEF u, v, w
<1> QED BY <1>1, <1>7, <1>8 DEF r

(* What is written elsewhere leaves the list alone. *)
LEMMA SameNodes ==
  ASSUME NEW hp, NEW hp2, NEW h, NEW q, Chain(hp, h, q), \A k \in 1 .. Len(q) : hp2[q[k]] = hp[q[k]]
  PROVE  Chain(hp2, h, q) /\ Items(hp2, q) = Items(hp, q)
<1>1. Chain(hp2, h, q)
  BY DEF Chain
<1>2. Items(hp2, q) = Items(hp, q)
  BY DEF Items
<1> QED BY <1>1, <1>2

(* In hp2 the node n, with a frame of its own, follows the last one of q. *)
Linking(hp, hp2, q, n) ==
  /\ n \in Node /\ \A k \in 1 .. Len(q) : n # q[k] /\ hp2[n].data # hp[q[k]].data
  /\ hp2[n].next = NULL /\ hp2[n].prev = At(q, Len(q)) /\ hp2[n].data \in Frame
  /\ \A k \in 1 .. Len(q) :
       /\ Item(hp2[q[k]]) = Item(hp[q[k]])
       /\ hp2[q[k]].next = IF k = Len(q) THEN n ELSE hp[q[k]].next
       /\ hp2[q[k]].prev = hp[q[k]].prev

LEMMA Appended ==
  ASSUME ListAssumption, NEW hp \in [Node -> Cell], NEW hp2 \in [Node -> Cell], NEW h, NEW q, Chain(hp, h, q),
         NEW n, Linking(hp, hp2, q, n)
  PROVE  /\ Chain(hp2, IF Len(q) = 0 THEN n ELSE h, Append(q, n))
         /\ Items(hp2, Append(q, n)) = Append(Items(hp, q), Item(hp2[n]))
<1> DEFINE r == Append(q, n)
           g == IF Len(q) = 0 THEN n ELSE h
<1>1. /\ q \in Seq(Node) /\ Len(q) \in Nat /\ n \in Node
      /\ r \in Seq(Node) /\ Len(r) = Len(q) + 1 /\ r[Len(q) + 1] = n
      /\ \A k \in 1 .. Len(q) : r[k] = q[k]
  <2>1. q \in Seq(Node) /\ Len(q) \in Nat /\ n \in Node
    BY AtIs DEF Chain, Linking
  <2> QED BY <2>1, AppendProperties
<1> HIDE DEF r
<1>2. ASSUME NEW k \in 0 .. Len(q) PROVE At(r, k) = At(q, k)
  <2>1. k \in 1 .. Len(q) \/ k = 0
    BY <1>1
  <2> QED BY <1>1, <2>1 DEF At
<1>3. At(r, Len(q) + 1) = n /\ At(r, Len(q) + 2) = NULL /\ At(q, Len(q) + 1) = NULL
  BY <1>1 DEF At
<1>4. ASSUME NEW k \in 1 .. Len(q)
      PROVE  /\ hp2[r[k]].next = At(r, k + 1)
             /\ hp2[r[k]].prev = At(r, k - 1)
             /\ hp2[r[k]].data \in Frame /\ Item(hp2[r[k]]) = Item(hp[q[k]])
             /\ hp2[r[k]].data = hp[q[k]].data
  <2>1. /\ Item(hp2[q[k]]) = Item(hp[q[k]])
        /\ hp2[q[k]].next = IF k = Len(q) THEN n ELSE hp[q[k]].next
        /\ hp2[q[k]].prev = hp[q[k]].prev
    BY DEF Linking
  <2>2. hp[q[k]].next = At(q, k + 1) /\ hp[q[k]].prev = At(q, k - 1) /\ hp[q[k]].data \in Frame
    BY DEF Chain
  <2>3. hp2[q[k]].data = hp[q[k]].data
    BY <2>1, SameItem
  <2>4. k # Len(q) => At(r, k + 1) = At(q, k + 1)
    BY <1>1, <1>2
  <2>5. At(r, k - 1) = At(q, k - 1)
    BY <1>1, <1>2
  <2> QED BY ONLY <1>1, <1>3, <2>1, <2>2, <2>3, <2>4, <2>5, k \in 1 .. Len(q)
<1>5. /\ hp2[n].next = NULL /\ hp2[n].prev = At(r, Len(q)) /\ hp2[n].data \in Frame
      /\ \A k \in 1 .. Len(q) : hp2[n].data # hp[q[k]].data
  <2>1. At(r, Len(q)) = At(q, Len(q))
    BY <1>1, <1>2
  <2> QED BY <2>1 DEF Linking
<1>6. ASSUME NEW k \in 1 .. Len(r)
      PROVE  /\ hp2[r[k]].next = At(r, k + 1)
             /\ hp2[r[k]].prev = At(r, k - 1)
             /\ hp2[r[k]].data \in Frame
  <2>1. CASE k \in 1 .. Len(q)
    BY <1>4, <2>1
  <2>2. CASE k = Len(q) + 1
    <3>1. r[k] = n /\ k + 1 = Len(q) + 2 /\ k - 1 = Len(q)
      BY <1>1, <2>2
    <3> QED BY <1>3, <1>5, <3>1
  <2> QED BY <1>1, <2>1, <2>2
<1>7. ASSUME NEW j \in 1 .. Len(r), NEW k \in 1 .. Len(r), hp2[r[j]].data = hp2[r[k]].data
      PROVE  j = k
  <2>1. \A a, b \in 1 .. Len(q) : hp[q[a]].data = hp[q[b]].data => a = b
    BY DEF Chain
  <2>2. (j \in 1 .. Len(q) \/ j = Len(q) + 1) /\ (k \in 1 .. Len(q) \/ k = Len(q) + 1)
    BY <1>1
  <2> QED BY ONLY <1>1, <1>4, <1>5, <1>7, <2>1, <2>2
<1>8. g = At(r, 1)
  <2>1. CASE Len(q) = 0
    BY <1>3, <2>1
  <2>2. CASE Len(q) # 0
    BY <1>1, <1>2, <2>2 DEF Chain
  <2> QED BY <2>1, <2>2
<1>9. Chain(hp2, g, r)
  BY ONLY <1>1, <1>6, <1>7, <1>8 DEF Chain
<1>10. Items(hp2, r) = Append(Items(hp, q), Item(hp2[n]))
  <2> DEFINE u == Items(hp, q)
             v == Append(u, Item(hp2[n]))
             w == Items(hp2, r)
  <2>1. u \in Seq(Nodes(Frame)) /\ Len(u) = Len(q) /\ \A k \in 1 .. Len(q) : u[k] = Item(hp[q[k]])
    BY ItemsAre
  <2>2. w \in Seq(Nodes(Frame)) /\ Len(w) = Len(q) + 1 /\ \A k \in 1 .. Len(q) + 1 : w[k] = Item(hp2[r[k]])
    <3>1. w \in Seq(Nodes(Frame)) /\ Len(w) = Len(r) /\ \A k \in 1 .. Len(r) : w[k] = Item(hp2[r[k]])
      BY ONLY ListAssumption, <1>9, hp2 \in [Node -> Cell], ItemsAre
    <3> QED BY <1>1, <3>1
  <2>3. Len(q) + 1 \in 1 .. Len(q) + 1 /\ w[Len(q) + 1] = Item(hp2[n])
    BY <1>1, <2>2
  <2>4. Item(hp2[n]) \in Nodes(Frame)
    <3>1. w[Len(q) + 1] \in Nodes(Frame)
      BY <2>2, <2>3, ElementOfSeq
    <3> QED BY <2>3, <3>1
  <2> HIDE DEF u, w
  <2>5. /\ v \in Seq(Nodes(Frame)) /\ Len(v) = Len(q) + 1
        /\ (\A k \in 1 .. Len(q) : v[k] = u[k]) /\ v[Len(q) + 1] = Item(hp2[n])
    BY <2>1, <2>4, AppendProperties
  <2> HIDE DEF v
  <2>6. ASSUME NEW k \in 1 .. Len(q) + 1 PROVE v[k] = w[k]
    <3>1. CASE k \in 1 .. Len(q)
      BY <1>4, <2>1, <2>2, <2>5, <3>1
    <3>2. CASE k = Len(q) + 1
      BY <2>3, <2>5, <3>2
    <3> QED BY <1>1, <3>1, <3>2
  <2>7. v = w
    BY ONLY <2>2, <2>5, <2>6, SeqEqual
  <2> QED BY <2>7 DEF u, v, w
<1> QED BY <1>9, <1>10 DEF r

LEMMA PrefixIs ==
  ASSUME NEW S, NEW s \in Seq(S), NEW e \in S
  PROVE  /\ <<e>> \o s \in Seq(S) /\ Len(<<e>> \o s) = Len(s) + 1 /\ Len(s) \in Nat
         /\ (<<e>> \o s)[1] = e
         /\ \A k \in 1 .. Len(s) : (<<e>> \o s)[k + 1] = s[k]
<1>1. <<e>> \in Seq(S) /\ Len(<<e>>) = 1 /\ <<e>>[1] = e /\ Len(s) \in Nat
  BY LenProperties
<1> DEFINE o == <<e>>
           r == o \o s
<1>2. o \in Seq(S) /\ Len(o) = 1 /\ o[1] = e
  BY <1>1
<1> HIDE DEF o
<1>3. /\ r \in Seq(S) /\ Len(r) = Len(o) + Len(s)
      /\ \A k \in 1 .. Len(o) + Len(s) : r[k] = IF k <= Len(o) THEN o[k] ELSE s[k - Len(o)]
  BY ONLY <1>2, s \in Seq(S), ConcatProperties
<1> HIDE DEF r
<1>4. r[1] = e
  BY <1>1, <1>2, <1>3
<1>5. ASSUME NEW k \in 1 .. Len(s) PROVE r[k + 1] = s[k]
  <2>1. k + 1 \in 1 .. Len(o) + Len(s) /\ ~(k + 1 <= Len(o)) /\ k + 1 - Len(o) = k
    BY <1>1, <1>2
  <2> QED BY <1>3, <2>1
<1>6. r \in Seq(S) /\ Len(r) = Len(s) + 1
  BY <1>1, <1>2, <1>3
<1> QED BY <1>1, <1>4, <1>5, <1>6 DEF r, o

(* In hp2 the node n, with a frame of its own, comes before the first of q. *)
Leading(hp, hp2, h, q, n) ==
  /\ n \in Node /\ \A k \in 1 .. Len(q) : n # q[k] /\ hp2[n].data # hp[q[k]].data
  /\ hp2[n].next = h /\ hp2[n].prev = NULL /\ hp2[n].data \in Frame
  /\ \A k \in 1 .. Len(q) :
       /\ Item(hp2[q[k]]) = Item(hp[q[k]])
       /\ hp2[q[k]].next = hp[q[k]].next
       /\ hp2[q[k]].prev = IF k = 1 THEN n ELSE hp[q[k]].prev

Prefixed(e, s, r) == r = <<e>> \o s

LEMMA Prepended ==
  ASSUME ListAssumption, NEW hp \in [Node -> Cell], NEW hp2 \in [Node -> Cell], NEW h, NEW q, Chain(hp, h, q),
         NEW n, Leading(hp, hp2, h, q, n), NEW r, Prefixed(n, q, r)
  PROVE  Chain(hp2, n, r) /\ Prefixed(Item(hp2[n]), Items(hp, q), Items(hp2, r))
<1>1. /\ q \in Seq(Node) /\ Len(q) \in Nat /\ n \in Node
      /\ r \in Seq(Node) /\ Len(r) = Len(q) + 1 /\ r[1] = n
      /\ \A k \in 1 .. Len(q) : r[k + 1] = q[k]
  <2>1. q \in Seq(Node) /\ Len(q) \in Nat /\ n \in Node
    BY AtIs DEF Chain, Leading
  <2>2. r = <<n>> \o q
    BY DEF Prefixed
  <2> QED BY ONLY <2>1, <2>2, PrefixIs
<1>2. At(r, 1) = n /\ At(r, 0) = NULL /\ \A k \in 1 .. Len(q) + 1 : At(r, k + 1) = At(q, k)
  <2>1. At(r, 1) = n /\ At(r, 0) = NULL
    BY <1>1 DEF At
  <2>2. ASSUME NEW k \in 1 .. Len(q) + 1 PROVE At(r, k + 1) = At(q, k)
    <3>1. k \in 1 .. Len(q) \/ (k = Len(q) + 1 /\ k + 1 \notin 1 .. Len(r) /\ k \notin 1 .. Len(q))
      BY <1>1
    <3>2. k \in 1 .. Len(q) => k + 1 \in 1 .. Len(r)
      BY <1>1
    <3> QED BY <1>1, <3>1, <3>2 DEF At
  <2> QED BY <2>1, <2>2
<1>3. ASSUME NEW k \in 1 .. Len(q)
      PROVE  /\ hp2[q[k]].next = At(r, k + 2)
             /\ hp2[q[k]].prev = At(r, k)
             /\ hp2[q[k]].data \in Frame /\ Item(hp2[q[k]]) = Item(hp[q[k]])
             /\ hp2[q[k]].data = hp[q[k]].data
  <2>1. /\ Item(hp2[q[k]]) = Item(hp[q[k]])
        /\ hp2[q[k]].next = hp[q[k]].next
        /\ hp2[q[k]].prev = IF k = 1 THEN n ELSE hp[q[k]].prev
    BY DEF Leading
  <2>2. hp[q[k]].next = At(q, k + 1) /\ hp[q[k]].prev = At(q, k - 1) /\ hp[q[k]].data \in Frame
    BY DEF Chain
  <2>3. hp2[q[k]].data = hp[q[k]].data
    BY <2>1, SameItem
  <2>4. At(r, k + 2) = At(q, k + 1)
    <3>1. PICK t \in 1 .. Len(q) + 1 : t = k + 1 /\ t + 1 = k + 2
      BY <1>1
    <3>2. At(r, t + 1) = At(q, t)
      BY <1>2
    <3> QED BY ONLY <3>1, <3>2
  <2>5. k # 1 => At(r, k) = At(q, k - 1)
    <3> SUFFICES ASSUME k # 1 PROVE At(r, k) = At(q, k - 1)
      OBVIOUS
    <3>1. PICK t \in 1 .. Len(q) + 1 : t = k - 1 /\ t + 1 = k
      BY <1>1
    <3>2. At(r, t + 1) = At(q, t)
      BY <1>2
    <3> QED BY ONLY <3>1, <3>2
  <2> QED BY ONLY <1>2, <2>1, <2>2, <2>3, <2>4, <2>5
<1>4. /\ hp2[n].next = At(r, 2) /\ hp2[n].prev = NULL /\ hp2[n].data \in Frame
      /\ \A k \in 1 .. Len(q) : hp2[n].data # hp[q[k]].data
  <2>1. At(r, 2) = At(q, 1)
    <3>1. 1 \in 1 .. Len(q) + 1 /\ 1 + 1 = 2
      BY <1>1
    <3> QED BY <1>2, <3>1
  <2> QED BY <2>1 DEF Leading, Chain
<1>5. \A j \in 1 .. Len(r) : j = 1 \/ \E k \in 1 .. Len(q) : j = k + 1
  <2> SUFFICES ASSUME NEW j \in 1 .. Len(r), j # 1 PROVE \E k \in 1 .. Len(q) : j = k + 1
    OBVIOUS
  <2>1. j - 1 \in 1 .. Len(q) /\ j = j - 1 + 1
    BY <1>1
  <2> QED BY <2>1
<1>6. ASSUME NEW j \in 1 .. Len(r)
      PROVE  /\ hp2[r[j]].next = At(r, j + 1)
             /\ hp2[r[j]].prev = At(r, j - 1)
             /\ hp2[r[j]].data \in Frame
  <2>1. CASE j = 1
    BY <1>1, <1>2, <1>4, <2>1
  <2>2. CASE j # 1
    <3>1. PICK k \in 1 .. Len(q) : j = k + 1
      BY <1>5, <2>2
    <3>2. r[j] = q[k] /\ j + 1 = k + 2 /\ j - 1 = k
      BY <1>1, <3>1
    <3> QED BY <1>3, <3>2
  <2> QED BY <2>1, <2>2
<1>7. ASSUME NEW i \in 1 .. Len(r), NEW j \in 1 .. Len(r), hp2[r[i]].data = hp2[r[j]].data
      PROVE  i = j
  <2>1. \A a, b \in 1 .. Len(q) : hp[q[a]].data = hp[q[b]].data => a = b
    BY DEF Chain
  <2>2. \A k \in 1 .. Len(q) : hp2[r[k + 1]].data = hp[q[k]].data
    BY <1>1, <1>3
  <2>3. (i = 1 \/ \E a \in 1 .. Len(q) : i = a + 1) /\ (j = 1 \/ \E b \in 1 .. Len(q) : j = b + 1)
    BY <1>5
  <2> QED BY ONLY <1>1, <1>4, <1>7, <2>1, <2>2, <2>3
<1>8. Chain(hp2, n, r)
  BY ONLY <1>1, <1>2, <1>6, <1>7 DEF Chain
<1>9. Items(hp2, r) = <<Item(hp2[n])>> \o Items(hp, q)
  <2> DEFINE u == Items(hp, q)
             v == <<Item(hp2[n])>> \o u
             w == Items(hp2, r)
  <2>1. u \in Seq(Nodes(Frame)) /\ Len(u) = Len(q) /\ \A k \in 1 .. Len(q) : u[k] = Item(hp[q[k]])
    BY ItemsAre
  <2>2. w \in Seq(Nodes(Frame)) /\ Len(w) = Len(r) /\ \A k \in 1 .. Len(r) : w[k] = Item(hp2[r[k]])
    BY ONLY ListAssumption, <1>8, hp2 \in [Node -> Cell], ItemsAre
  <2>3. w[1] = Item(hp2[n]) /\ Item(hp2[n]) \in Nodes(Frame)
    <3>1. 1 \in 1 .. Len(r)
      BY <1>1
    <3>2. w[1] \in Nodes(Frame)
      BY <2>2, <3>1, ElementOfSeq
    <3> QED BY <1>1, <2>2, <3>1, <3>2
  <2>4. \A k \in 1 .. Len(q) : w[k + 1] = u[k]
    <3> SUFFICES ASSUME NEW k \in 1 .. Len(q) PROVE w[k + 1] = u[k]
      OBVIOUS
    <3>1. k + 1 \in 1 .. Len(r)
      BY <1>1
    <3> QED BY <1>1, <1>3, <2>1, <2>2, <3>1
  <2> HIDE DEF u, w
  <2>5. /\ v \in Seq(Nodes(Frame)) /\ Len(v) = Len(q) + 1
        /\ v[1] = Item(hp2[n]) /\ \A k \in 1 .. Len(q) : v[k + 1] = u[k]
    BY <2>1, <2>3, PrefixIs
  <2> HIDE DEF v
  <2>6. ASSUME NEW j \in 1 .. Len(r) PROVE v[j] = w[j]
    BY <1>5, <2>3, <2>4, <2>5
  <2>7. Len(v) = Len(w)
    BY <1>1, <2>2, <2>5
  <2>8. v = w
    BY ONLY <2>2, <2>5, <2>6, <2>7, SeqEqual
  <2> QED BY <2>8 DEF u, v, w
<1> QED BY <1>8, <1>9 DEF Prefixed

(* Only the place i of s carries x; in u it has the reference bit ref. *)
SetAt(s, x, ref, i, u) ==
  /\ \A k \in 1 .. Len(s) : s[k].data = x <=> k = i
  /\ \A k \in 1 .. Len(s) : u[k] = IF k = i THEN [data |-> x, ref |-> ref] ELSE s[k]

(* In hp2 the node at the place i of q has the reference bit ref. *)
Marking(hp, hp2, q, i, ref) == hp2 = [hp EXCEPT ![q[i]].ref = ref]

LEMMA Marked ==
  ASSUME ListAssumption, NEW hp \in [Node -> Cell], NEW h, NEW q, Chain(hp, h, q),
         NEW i \in 1 .. Len(q), NEW ref \in {0, 1}, NEW hp2, Marking(hp, hp2, q, i, ref)
  PROVE  /\ Chain(hp2, h, q) /\ hp2 \in [Node -> Cell]
         /\ SetAt(Items(hp, q), hp[q[i]].data, ref, i, Items(hp2, q))
<1>1. (\A k \in 1 .. Len(q) : q[k] \in Node) /\ \A j, k \in 1 .. Len(q) : q[j] = q[k] => j = k
  BY AtIs, ChainShort DEF Chain
<1>2. hp2 \in [Node -> Cell]
  <2>1. hp[q[i]] \in Cell
    BY <1>1
  <2>2. [hp[q[i]] EXCEPT !.ref = ref] \in Cell
    BY <2>1 DEF Cell
  <2> QED BY <2>2 DEF Marking
<1>3. ASSUME NEW k \in 1 .. Len(q)
      PROVE  /\ hp2[q[k]].next = hp[q[k]].next /\ hp2[q[k]].prev = hp[q[k]].prev /\ hp2[q[k]].data = hp[q[k]].data
             /\ hp2[q[k]].ref = IF k = i THEN ref ELSE hp[q[k]].ref
  <2>1. hp[q[k]] \in Cell
    BY <1>1
  <2> QED BY <1>1, <2>1 DEF Cell, Marking
<1>4. Chain(hp2, h, q)
  BY ONLY <1>3, Chain(hp, h, q) DEF Chain
<1>5. /\ Len(Items(hp, q)) = Len(q) /\ \A k \in 1 .. Len(q) : Items(hp, q)[k] = Item(hp[q[k]])
  BY ItemsAre
<1>6. /\ Len(Items(hp2, q)) = Len(q) /\ \A k \in 1 .. Len(q) : Items(hp2, q)[k] = Item(hp2[q[k]])
  BY ONLY ListAssumption, <1>2, <1>4, ItemsAre
<1>7. \A k \in 1 .. Len(q) : hp[q[k]].data = hp[q[i]].data <=> k = i
  BY DEF Chain
<1>8. SetAt(Items(hp, q), hp[q[i]].data, ref, i, Items(hp2, q))
  <2> DEFINE s == Items(hp, q)
             u == Items(hp2, q)
             x == hp[q[i]].data
  <2>1. Len(s) = Len(q) /\ \A k \in 1 .. Len(q) : s[k] = Item(hp[q[k]]) /\ u[k] = Item(hp2[q[k]])
    BY <1>5, <1>6
  <2> HIDE DEF s, u
  <2>2. \A k \in 1 .. Len(q) : s[k].data = x <=> k = i
    <3>1. \A k \in 1 .. Len(q) : Item(hp[q[k]]).data = hp[q[k]].data
      BY DEF Item
    <3> QED BY ONLY <1>7, <2>1, <3>1
  <2>3. ASSUME NEW k \in 1 .. Len(s) PROVE u[k] = IF k = i THEN [data |-> x, ref |-> ref] ELSE s[k]
    <3>1. u[k] = [data |-> hp[q[k]].data, ref |-> IF k = i THEN ref ELSE hp[q[k]].ref]
      <4>1. k \in 1 .. Len(q) /\ u[k] = Item(hp2[q[k]])
        BY <2>1
      <4>2. hp2[q[k]].data = hp[q[k]].data /\ hp2[q[k]].ref = IF k = i THEN ref ELSE hp[q[k]].ref
        BY ONLY <1>3, <4>1
      <4> QED BY ONLY <4>1, <4>2 DEF Item
    <3>2. s[k] = [data |-> hp[q[k]].data, ref |-> hp[q[k]].ref]
      BY <2>1 DEF Item
    <3>3. CASE k = i
      BY <3>1, <3>3
    <3>4. CASE k # i
      BY <3>1, <3>2, <3>4
    <3> QED BY <3>3, <3>4
  <2> HIDE DEF x
  <2>4. \A k \in 1 .. Len(s) : s[k].data = x <=> k = i
    BY ONLY <2>1, <2>2
  <2>5. SetAt(s, x, ref, i, u)
    BY ONLY <2>3, <2>4 DEF SetAt
  <2> QED BY <2>5 DEF s, u, x
<1> QED BY <1>2, <1>4, <1>8

-----------------------------------------------------------------------------
(* What the calls promise, for any list. *)

LEMMA RemovesFirst ==
  ASSUME NEW S, NEW s \in Seq(Nodes(S)), NEW x, NEW i \in 1 .. Len(s),
         s[i].data = x, \A j \in 1 .. i - 1 : s[j].data # x
  PROVE  list_remove(s, x) = RemoveAt(s, i)
<1> DEFINE I == {k \in 1 .. Len(s) : s[k].data = x}
<1>1. I \in SUBSET Nat /\ i \in I /\ Len(s) \in Nat
  BY LenProperties
<1>2. Min(I) \in I /\ \A k \in I : Min(I) <= k
  BY <1>1, MinOfNat
<1>3. Min(I) = i
  BY <1>1, <1>2
<1>4. list_remove(s, x) = IF (IF I # {} THEN Min(I) ELSE 0) = 0 THEN s
                          ELSE RemoveAt(s, IF I # {} THEN Min(I) ELSE 0)
  BY DEF list_remove, SelectInSeq
<1> HIDE DEF I
<1>5. i # 0 /\ I # {}
  BY <1>1
<1> QED BY <1>3, <1>4, <1>5

LEMMA RemovesNone ==
  ASSUME NEW s, NEW x, \A k \in 1 .. Len(s) : s[k].data # x
  PROVE  list_remove(s, x) = s
<1> DEFINE I == {k \in 1 .. Len(s) : s[k].data = x}
<1>1. I = {}
  OBVIOUS
<1>2. list_remove(s, x) = IF (IF I # {} THEN Min(I) ELSE 0) = 0 THEN s
                          ELSE RemoveAt(s, IF I # {} THEN Min(I) ELSE 0)
  BY DEF list_remove, SelectInSeq
<1> HIDE DEF I
<1> QED BY <1>1, <1>2

LEMMA UpdatesNone ==
  ASSUME NEW s, NEW x, NEW ref, \A k \in 1 .. Len(s) : s[k].data # x
  PROVE  clock_list_update_ref(s, x, ref) = s
<1> DEFINE I == {k \in 1 .. Len(s) : s[k].data = x}
           n == IF I # {} THEN Min(I) ELSE 0
<1>1. I = {}
  OBVIOUS
<1>2. clock_list_update_ref(s, x, ref) = IF n = 0 THEN s ELSE [s EXCEPT ![n].ref = ref]
  BY DEF clock_list_update_ref, SelectInSeq
<1> HIDE DEF I
<1>3. n = 0
  BY <1>1
<1> HIDE DEF n
<1> QED BY <1>2, <1>3

LEMMA UpdatesOne ==
  ASSUME NEW S, NEW s \in Seq(Nodes(S)), NEW x, NEW ref \in {0, 1}, NEW i \in 1 .. Len(s),
         NEW u \in Seq(Nodes(S)), Len(u) = Len(s), SetAt(s, x, ref, i, u)
  PROVE  clock_list_update_ref(s, x, ref) = u
<1> DEFINE v == clock_list_update_ref(s, x, ref)
<1>1. /\ v \in Seq(Nodes(S)) /\ Len(v) = Len(s) /\ RefSet(s, x, ref, v)
  <2>1. s[i].data = x
    BY DEF SetAt
  <2> QED BY <2>1, UpdateRefAt
<1> HIDE DEF v
<1>2. \A k \in 1 .. Len(s) : v[k] = u[k]
  BY <1>1 DEF RefSet, SetAt
<1>3. v = u
  BY <1>1, <1>2, SeqEqual
<1> QED BY <1>3 DEF v

LEMMA RemoveFirstIsTail ==
  ASSUME NEW S, NEW s \in Seq(S), s # << >>
  PROVE  RemoveAt(s, 1) = Tail(s)
<1>1. 1 \in 1 .. Len(s) /\ Len(s) \in Nat
  BY EmptySeq, LenProperties
<1>2. /\ RemoveAt(s, 1) \in Seq(S) /\ Len(RemoveAt(s, 1)) = Len(s) - 1
      /\ \A k \in 1 .. Len(s) - 1 : RemoveAt(s, 1)[k] = IF k < 1 THEN s[k] ELSE s[k + 1]
  BY <1>1, RemoveAtIs
<1>3. /\ Tail(s) \in Seq(S) /\ Len(Tail(s)) = Len(s) - 1
      /\ \A k \in 1 .. Len(s) - 1 : Tail(s)[k] = s[k + 1]
  BY HeadTailProperties
<1>4. \A k \in 1 .. Len(s) - 1 : RemoveAt(s, 1)[k] = Tail(s)[k]
  BY <1>1, <1>2, <1>3
<1> QED BY ONLY <1>2, <1>3, <1>4, SeqEqual

(* One more referenced node goes to the tail. *)
LEMMA TurnsOne ==
  ASSUME NEW b, NEW t \in 0 .. Len(b), NEW u, NEW v, Turned(b, u, t),
         Len(b) >= 1, u[1].ref = 1, Len(v) = Len(b),
         \A k \in 1 .. Len(b) - 1 : v[k] = u[k + 1],
         v[Len(b)] = [data |-> u[1].data, ref |-> 0]
  PROVE  t + 1 \in 0 .. Len(b) /\ Turned(b, v, t + 1)
<1> DEFINE L == Len(b)
<1>1. /\ L \in Nat /\ t \in Nat /\ L >= 1 /\ t <= L
      /\ b \in Seq(Nodes(Frame))
      /\ \A k \in 1 .. t : b[k].ref = 1
      /\ \A k \in 1 .. L : u[k] = IF k <= L - t THEN b[k + t] ELSE [data |-> b[k - (L - t)].data, ref |-> 0]
  BY LenProperties DEF Turned
<1> HIDE DEF L
<1>2. t < L /\ u[1] = b[t + 1]
  <2>1. 1 \in 1 .. L
    BY <1>1
  <2>2. CASE 1 <= L - t
    <3>1. 1 + t = t + 1 /\ t < L
      BY ONLY <1>1, <2>2
    <3>2. u[1] = b[1 + t]
      BY <1>1, <2>1, <2>2
    <3> QED BY <3>1, <3>2
  <2>3. CASE ~(1 <= L - t)
    <3>1. u[1] = [data |-> b[1 - (L - t)].data, ref |-> 0]
      BY <1>1, <2>1, <2>3
    <3>2. u[1].ref = 0
      BY ONLY <3>1
    <3> QED BY <3>2
  <2> QED BY <2>2, <2>3
<1>3. \A k \in 1 .. t + 1 : b[k].ref = 1
  <2>1. \A k \in 1 .. t + 1 : k \in 1 .. t \/ k = t + 1
    BY <1>1
  <2> QED BY <1>1, <1>2, <2>1
<1>4. ASSUME NEW k \in 1 .. L
      PROVE  v[k] = IF k <= L - (t + 1) THEN b[k + (t + 1)] ELSE [data |-> b[k - (L - (t + 1))].data, ref |-> 0]
  <2>1. CASE k <= L - (t + 1)
    <3>1. k \in 1 .. L - 1 /\ k + 1 \in 1 .. L /\ k + 1 <= L - t /\ k + 1 + t = k + (t + 1)
      BY ONLY <1>1, <2>1, k \in 1 .. L
    <3>2. v[k] = u[k + 1] /\ u[k + 1] = b[k + 1 + t]
      BY <1>1, <3>1 DEF L
    <3> QED BY <2>1, <3>1, <3>2
  <2>2. CASE ~(k <= L - (t + 1)) /\ k # L
    <3>1. k \in 1 .. L - 1 /\ k + 1 \in 1 .. L /\ ~(k + 1 <= L - t) /\ k + 1 - (L - t) = k - (L - (t + 1))
      BY ONLY <1>1, <2>2, k \in 1 .. L
    <3>2. v[k] = u[k + 1] /\ u[k + 1] = [data |-> b[k + 1 - (L - t)].data, ref |-> 0]
      BY <1>1, <3>1 DEF L
    <3> QED BY <2>2, <3>1, <3>2
  <2>3. CASE k = L
    <3>1. ~(k <= L - (t + 1)) /\ k - (L - (t + 1)) = t + 1
      BY ONLY <1>1, <1>2, <2>3
    <3>2. v[k] = [data |-> b[t + 1].data, ref |-> 0]
      BY <1>2, <2>3 DEF L
    <3> QED BY <3>1, <3>2
  <2> QED BY <2>1, <2>2, <2>3
<1> QED BY <1>1, <1>2, <1>3, <1>4 DEF Turned, L

(* When the node at the head is not referenced, clock() is done. *)
LEMMA TurnsEnd ==
  ASSUME NEW b, NEW t \in 0 .. Len(b), NEW u \in Seq(Nodes(Frame)), Turned(b, u, t),
         Len(b) >= 1, u[1].ref # 1
  PROVE  Sweep(b) = u
<1> DEFINE L == Len(b)
           v == Sweep(b)
<1>1. /\ L \in Nat /\ t \in Nat /\ L >= 1 /\ t <= L /\ b \in Seq(Nodes(Frame)) /\ Len(u) = L
      /\ \A k \in 1 .. t : b[k].ref = 1
      /\ \A k \in 1 .. L : u[k] = IF k <= L - t THEN b[k + t] ELSE [data |-> b[k - (L - t)].data, ref |-> 0]
  BY LenProperties DEF Turned
<1>2. v \in Seq(Nodes(Frame)) /\ Len(v) = L
  BY <1>1, SweepAt
<1>3. PICK n \in 0 .. L :
         /\ \A k \in 1 .. n : b[k].ref = 1
         /\ n < L => b[n + 1].ref = 0
         /\ \A k \in 1 .. L : v[k] = IF k <= L - n THEN b[k + n] ELSE [data |-> b[k - (L - n)].data, ref |-> 0]
  BY <1>1, SweepAt
<1> HIDE DEF L, v
<1>4. ~(n < t)
  <2> SUFFICES ASSUME n < t PROVE FALSE
    OBVIOUS
  <2>1. n + 1 \in 1 .. t /\ n < L
    BY <1>1
  <2>2. b[n + 1].ref = 1 /\ b[n + 1].ref = 0
    BY <1>1, <1>3, <2>1
  <2> QED BY <2>2
<1>5. ~(t < n)
  <2> SUFFICES ASSUME t < n PROVE FALSE
    OBVIOUS
  <2>1. t + 1 \in 1 .. n /\ 1 <= L - t /\ 1 \in 1 .. L /\ 1 + t = t + 1
    BY <1>1
  <2>2. u[1] = b[1 + t] /\ b[t + 1].ref = 1
    BY <1>1, <1>3, <2>1
  <2> QED BY <2>1, <2>2
<1>6. n = t
  BY <1>1, <1>4, <1>5
<1>7. \A k \in 1 .. L : v[k] = u[k]
  BY ONLY <1>1, <1>3, <1>6
<1>8. v = u
  BY ONLY <1>1, <1>2, <1>7, u \in Seq(Nodes(Frame)), SeqEqual
<1> QED BY <1>8 DEF v

-----------------------------------------------------------------------------
(* Steps that begin, continue and end a call. *)

(* A step that returns. *)
LEMMA Returns ==
  ASSUME heap' \in [Node -> Cell], NEW q, Chain(heap', head', q), pc' = "idle", Items(heap', q) = Promised'
  PROVE  IInv'
<1>1. q \in Seq(Node)
  BY DEF Chain
<1> QED BY <1>1 DEF IInv, Shape, Idle

(* A step after which clock() looks at the head. *)
LEMMA Sweeps ==
  ASSUME heap' \in [Node -> Cell], NEW q, Chain(heap', head', q), pc' = "clock", Len(q) >= 1,
         NEW u, Items(heap', q) = u, call'.op = "clock", \E t \in 0 .. Len(before') : Turned(before', u, t)
  PROVE  IInv'
<1>1. q \in Seq(Node) /\ q # << >>
  BY EmptySeq DEF Chain
<1> QED BY <1>1 DEF IInv, Shape, Clocking, Turning

(* What the first pointer assignments of list_insert_tail do: the node n   *)
(* carries the frame, and it is the list or waits to be linked to it.      *)
Entering(hp, h, q, x, ref, return, n) ==
  /\ heap' \in [Node -> Cell] /\ Chain(heap', h, q) /\ Items(heap', q) = Items(hp, q)
  /\ heap'[n].next = NULL /\ heap'[n].data = x /\ heap'[n].ref = ref /\ Item(heap'[n]) = [data |-> x, ref |-> ref]
  /\ \A k \in 1 .. Len(q) : heap'[q[k]] = hp[q[k]]
  /\ h = NULL => /\ Len(q) = 0 /\ head' = n /\ new' = NULL /\ pc' = return
                 /\ Chain(heap', n, Append(q, n))
                 /\ Items(heap', Append(q, n)) = Append(Items(hp, q), [data |-> x, ref |-> ref])
  /\ h # NULL => 1 \in 1 .. Len(q) /\ h = q[1] /\ head' = h /\ new' = n /\ cur' = h /\ pc' = "insert"

Outside(hp, q, x, n) == n \in Node /\ \A k \in 1 .. Len(q) : n # q[k] /\ x # hp[q[k]].data

LEMMA InsertTailIs ==
  ASSUME ListAssumption, NEW hp \in [Node -> Cell], NEW h, NEW q, Chain(hp, h, q),
         NEW x \in Frame, NEW ref \in {0, 1}, NEW return, InsertTail(hp, h, x, ref, return),
         NEW n, n = new_node(h), Outside(hp, q, x, n)
  PROVE  Entering(hp, h, q, x, ref, return, n)
<1>1. n \in Node /\ \A k \in 1 .. Len(q) : n # q[k] /\ x # hp[q[k]].data
  BY DEF Outside
<1> DEFINE cell == [Blank EXCEPT !.data = x, !.ref = ref]
<1>2. /\ q \in Seq(Node) /\ Len(q) \in Nat
      /\ \A k \in 1 .. Len(q) : q[k] \in Node /\ At(q, k) = q[k] /\ q[k] # NULL
      /\ h = At(q, 1)
  BY AtIs DEF Chain
<1>3. /\ cell.next = NULL /\ cell.prev = NULL /\ cell.data = x /\ cell.ref = ref
      /\ cell \in Cell /\ Item(cell) = [data |-> x, ref |-> ref]
  BY DEF Blank, Cell, Pointer, Item
<1>4. heap' = [hp EXCEPT ![n] = cell]
  BY DEF InsertTail
<1> HIDE DEF cell
<1>5. heap' \in [Node -> Cell] /\ heap'[n] = cell /\ \A k \in 1 .. Len(q) : heap'[q[k]] = hp[q[k]]
  BY <1>1, <1>2, <1>3, <1>4
<1>6. Chain(heap', h, q) /\ Items(heap', q) = Items(hp, q)
  BY <1>5, SameNodes
<1>7. ASSUME h = NULL
      PROVE  /\ Len(q) = 0 /\ head' = n /\ new' = NULL /\ pc' = return
             /\ Chain(heap', n, Append(q, n))
             /\ Items(heap', Append(q, n)) = Append(Items(hp, q), [data |-> x, ref |-> ref])
  <2>1. Len(q) = 0 /\ head' = n /\ new' = NULL /\ pc' = return
    BY <1>2, <1>7 DEF InsertTail, At
  <2>2. Linking(hp, heap', q, n)
    BY <1>1, <1>3, <1>5, <2>1 DEF Linking, At
  <2>3. /\ Chain(heap', IF Len(q) = 0 THEN n ELSE h, Append(q, n))
        /\ Items(heap', Append(q, n)) = Append(Items(hp, q), Item(heap'[n]))
    BY <1>5, <2>2, Appended
  <2> QED BY <1>3, <1>5, <2>1, <2>3
<1>8. ASSUME h # NULL
      PROVE  1 \in 1 .. Len(q) /\ h = q[1] /\ head' = h /\ new' = n /\ cur' = h /\ pc' = "insert"
  BY <1>2, <1>8 DEF InsertTail, At
<1>9. heap'[n].next = NULL /\ heap'[n].data = x /\ heap'[n].ref = ref /\ Item(heap'[n]) = [data |-> x, ref |-> ref]
  BY <1>3, <1>5
<1> QED BY ONLY <1>5, <1>6, <1>7, <1>8, <1>9 DEF Entering

LEMMA InsertStarts ==
  ASSUME ListAssumption, NEW hp \in [Node -> Cell], NEW h, NEW q, Chain(hp, h, q),
         NEW x \in Frame, NEW ref \in {0, 1}, NEW return, InsertTail(hp, h, x, ref, return),
         NEW n, n = new_node(h), Outside(hp, q, x, n),
         NEW u, u = Append(Items(hp, q), [data |-> x, ref |-> ref]),
         \/ return = "idle" /\ call'.op = "insert" /\ u = Promised'
         \/ return = "clock" /\ call'.op = "clock" /\ \E t \in 0 .. Len(before') : Turned(before', u, t)
  PROVE  IInv'
<1>1. q \in Seq(Node) /\ Len(q) \in Nat /\ n \in Node /\ \A k \in 1 .. Len(q) : n # q[k] /\ x # hp[q[k]].data
  BY AtIs DEF Chain, Outside
<1>2. Entering(hp, h, q, x, ref, return, n)
  BY InsertTailIs
<1>3. /\ heap' \in [Node -> Cell] /\ Chain(heap', h, q) /\ Items(heap', q) = Items(hp, q)
      /\ heap'[n].next = NULL /\ heap'[n].data = x /\ Item(heap'[n]) = [data |-> x, ref |-> ref]
      /\ \A k \in 1 .. Len(q) : heap'[q[k]] = hp[q[k]]
  BY <1>2 DEF Entering
<1>4. CASE h = NULL
  <2>1. /\ Len(q) = 0 /\ head' = n /\ pc' = return
        /\ Chain(heap', n, Append(q, n)) /\ Items(heap', Append(q, n)) = u
    BY <1>2, <1>4 DEF Entering
  <2>2. Len(Append(q, n)) >= 1
    BY <1>1, AppendProperties
  <2>3. CASE return = "idle" /\ call'.op = "insert" /\ u = Promised'
    BY ONLY <1>3, <2>1, <2>3, Returns
  <2>4. CASE return = "clock" /\ call'.op = "clock" /\ \E t \in 0 .. Len(before') : Turned(before', u, t)
    BY ONLY <1>3, <2>1, <2>2, <2>4, Sweeps
  <2> QED BY <2>3, <2>4
<1>5. CASE h # NULL
  <2>1. head' = h /\ pc' = "insert" /\ cur' = h /\ new' = n /\ 1 \in 1 .. Len(q) /\ h = q[1]
    BY <1>2, <1>5 DEF Entering
  <2>2. new' \in Node /\ \A k \in 1 .. Len(q) : new' # q[k] /\ heap'[new'].data # heap'[q[k]].data
    BY <1>1, <1>3, <2>1
  <2>3. heap'[new'].next = NULL /\ heap'[new'].data \in Frame /\ Append(Items(heap', q), Item(heap'[new'])) = u
    BY <1>3, <2>1
  <2>4. Inserting(q)'
    BY <2>1, <2>2, <2>3 DEF Inserting, Turning
  <2>5. Shape(q)'
    BY <1>3, <2>1, <2>4 DEF Shape
  <2> QED BY <1>1, <1>3, <2>5 DEF IInv
<1> QED BY <1>4, <1>5

LEMMA UnheadIs ==
  ASSUME ListAssumption, NEW hp \in [Node -> Cell], NEW h, NEW q, Chain(hp, h, q), Len(q) >= 1
  PROVE  /\ 1 \in 1 .. Len(q) /\ h = q[1] /\ hp[h].next = At(q, 2)
         /\ Unhead(hp, h) \in [Node -> Cell]
         /\ Bypassed(hp, Unhead(hp, h), q, 1)
<1>1. /\ q \in Seq(Node) /\ Len(q) \in Nat /\ 1 \in 1 .. Len(q)
      /\ \A k \in 1 .. Len(q) : q[k] \in Node /\ At(q, k) = q[k] /\ q[k] # NULL
      /\ \A j, k \in 1 .. Len(q) : q[j] = q[k] => j = k
  <2>1. 1 \in 1 .. Len(q)
    BY AtIs DEF Chain
  <2> QED BY <2>1, ChainFacts
<1>2. h = q[1] /\ hp[h].next = At(q, 2)
  <2>1. h = q[1]
    BY <1>1 DEF Chain
  <2>2. 1 + 1 = 2 /\ hp[q[1]].next = At(q, 1 + 1)
    BY <1>1 DEF Chain
  <2> QED BY <2>1, <2>2
<1>3. Blank \in Cell
  BY DEF Blank, Cell, Pointer
<1>4. CASE Len(q) = 1
  <2>1. At(q, 2) = NULL
    BY <1>4 DEF At
  <2>2. Unhead(hp, h) = [hp EXCEPT ![h] = Blank]
    BY <1>2, <2>1 DEF Unhead
  <2>3. \A k \in 1 .. Len(q) : k = 1
    BY <1>4
  <2>4. Bypassed(hp, Unhead(hp, h), q, 1)
    BY <2>3 DEF Bypassed
  <2> QED BY <1>1, <1>2, <1>3, <2>2, <2>4
<1>5. CASE Len(q) # 1
  <2> DEFINE hp2 == Unhead(hp, h)
  <2>1. 2 \in 1 .. Len(q) /\ At(q, 2) = q[2] /\ q[2] # NULL /\ q[2] \in Node /\ q[2] # q[1]
    <3>1. 2 \in 1 .. Len(q) /\ 2 # 1
      BY <1>1, <1>5
    <3> QED BY ONLY <1>1, <3>1
  <2>2. hp2 = [hp EXCEPT ![q[2]].prev = NULL, ![q[1]] = Blank]
    BY <1>2, <2>1 DEF Unhead
  <2> HIDE DEF hp2
  <2>3. [hp[q[2]] EXCEPT !.prev = NULL] \in Cell /\ hp[q[2]] \in Cell
    BY <2>1 DEF Cell, Pointer
  <2>4. hp2 \in [Node -> Cell]
    BY <1>1, <1>3, <2>1, <2>2, <2>3
  <2>5. /\ hp2[q[2]].prev = NULL /\ hp2[q[2]].next = hp[q[2]].next
        /\ hp2[q[2]].data = hp[q[2]].data /\ hp2[q[2]].ref = hp[q[2]].ref
    BY <1>1, <2>1, <2>2, <2>3 DEF Cell
  <2>6. \A k \in 1 .. Len(q) : k # 1 /\ k # 2 => hp2[q[k]] = hp[q[k]]
    BY <1>1, <2>1, <2>2
  <2>7. At(q, 1 - 1) = NULL /\ 1 + 1 = 2 /\ \A k \in 1 .. Len(q) : k # 1 - 1
    BY <1>1 DEF At
  <2>8. Bypassed(hp, hp2, q, 1)
    BY ONLY <2>5, <2>6, <2>7 DEF Bypassed, Item
  <2> QED BY <1>1, <1>2, <2>4, <2>8 DEF hp2
<1> QED BY <1>4, <1>5

LEMMA EmptyItems ==
  ASSUME NEW hp, NEW q, Len(q) = 0
  PROVE  Items(hp, q) = << >>
<1>1. Items(hp, q) = [k \in 1 .. 0 |-> Item(hp[q[k]])]
  BY DEF Items
<1>2. Items(hp, q) \in Seq({}) /\ Len(Items(hp, q)) = 0
  BY <1>1
<1> QED BY <1>2, EmptySeq

LEMMA InitIInv == ListAssumption /\ Init => IInv
<1> SUFFICES ASSUME ListAssumption, Init PROVE IInv
  OBVIOUS
<1>1. heap \in [Node -> Cell]
  BY DEF Init, Blank, Cell, Pointer
<1>2. << >> \in Seq(Node) /\ Len(<< >>) = 0
  OBVIOUS
<1>3. Chain(heap, head, << >>)
  BY <1>2 DEF Init, Chain, At
<1>4. Items(heap, << >>) = Promised
  BY <1>2, EmptyItems DEF Init, Promised
<1> QED BY <1>1, <1>2, <1>3, <1>4 DEF IInv, Shape, Idle, Init

-----------------------------------------------------------------------------
(* The steps of the loops. *)

LEMMA LoopIs ==
  ASSUME NEW q, Shape(q)
  PROVE  /\ Chain(heap, head, q)
         /\ pc \in {"idle", "insert", "remove", "removeTail", "update", "clock"}
         /\ pc = "idle" => Idle(q)
         /\ pc = "insert" => Inserting(q)
         /\ pc = "remove" => Removing(q)
         /\ pc = "removeTail" => RemovingTail(q)
         /\ pc = "update" => Updating(q)
         /\ pc = "clock" => Clocking(q)
BY DEF Shape, Idle, Inserting, Removing, RemovingTail, Updating, Clocking

LEMMA InsertWalkIInv ==
  ASSUME ListAssumption, IInv, InsertWalk, UNCHANGED <<call, before>>
  PROVE  IInv'
<1>1. PICK q \in Seq(Node) : Shape(q)
  BY DEF IInv
<1>2. Chain(heap, head, q) /\ Inserting(q)
  BY <1>1, LoopIs DEF InsertWalk
<1>3. heap \in [Node -> Cell] /\ UNCHANGED <<heap, new, head, pc, call, before>> /\ heap[cur].next # NULL /\ cur' = heap[cur].next
  BY DEF IInv, InsertWalk
<1>4. PICK i \in 1 .. Len(q) : cur = q[i]
  BY <1>2 DEF Inserting
<1>5. heap[cur].next = At(q, i + 1)
  BY <1>2, <1>4 DEF Chain
<1>6. i + 1 \in 1 .. Len(q) /\ cur' = q[i + 1]
  BY <1>3, <1>5 DEF At
<1>7. Inserting(q)'
  BY <1>2, <1>3, <1>6 DEF Inserting, Turning, Promised
<1> QED BY <1>2, <1>3, <1>7 DEF IInv, Shape

LEMMA InsertLinkIs ==
  ASSUME ListAssumption, heap \in [Node -> Cell], NEW q, Chain(heap, head, q), Inserting(q), InsertLink
  PROVE  /\ heap' \in [Node -> Cell] /\ Linking(heap, heap', q, new) /\ Item(heap'[new]) = Item(heap[new])
         /\ Chain(heap', head', Append(q, new)) /\ Len(Append(q, new)) >= 1
         /\ Items(heap', Append(q, new)) = Append(Items(heap, q), Item(heap[new]))
<1>2. Chain(heap, head, q) /\ Inserting(q)
  OBVIOUS
<1>3. /\ heap \in [Node -> Cell] /\ UNCHANGED head /\ heap[cur].next = NULL
      /\ heap' = [heap EXCEPT ![cur].next = new, ![new].prev = cur]
  BY DEF InsertLink
<1>4. PICK i \in 1 .. Len(q) : cur = q[i]
  BY <1>2 DEF Inserting
<1>5. /\ q \in Seq(Node) /\ Len(q) \in Nat
      /\ \A k \in 1 .. Len(q) : q[k] \in Node /\ At(q, k) = q[k] /\ q[k] # NULL
      /\ \A j, k \in 1 .. Len(q) : q[j] = q[k] => j = k
  BY <1>2, ChainFacts
<1>6. i = Len(q)
  <2>1. At(q, i + 1) = NULL
    BY <1>2, <1>3, <1>4 DEF Chain
  <2>2. i + 1 \notin 1 .. Len(q)
    BY <1>5, <2>1
  <2> QED BY <1>5, <2>2
<1>7. /\ new \in Node /\ \A k \in 1 .. Len(q) : new # q[k] /\ heap[new].data # heap[q[k]].data
      /\ heap[new].next = NULL /\ heap[new].data \in Frame
  BY <1>2 DEF Inserting
<1>8. cur \in Node /\ cur # new /\ heap[cur] \in Cell /\ heap[new] \in Cell
  BY <1>3, <1>4, <1>5, <1>7
<1>9. [heap[cur] EXCEPT !.next = new] \in Cell /\ [heap[new] EXCEPT !.prev = cur] \in Cell
  BY <1>7, <1>8 DEF Cell, Pointer
<1>10. heap' \in [Node -> Cell]
  BY <1>3, <1>8, <1>9
<1>11. heap'[cur] = [heap[cur] EXCEPT !.next = new] /\ heap'[new] = [heap[new] EXCEPT !.prev = cur]
       /\ \A n \in Node : n # cur /\ n # new => heap'[n] = heap[n]
  <2> DEFINE c == [heap[cur] EXCEPT !.next = new]
             d == [heap[new] EXCEPT !.prev = cur]
  <2>1. heap' = [heap EXCEPT ![cur] = c, ![new] = d]
    BY ONLY <1>3, <1>8
  <2> HIDE DEF c, d
  <2>2. heap \in [Node -> Cell] /\ cur \in Node /\ new \in Node /\ cur # new
    BY <1>3, <1>7, <1>8
  <2>3. heap'[cur] = c /\ heap'[new] = d /\ \A n \in Node : n # cur /\ n # new => heap'[n] = heap[n]
    BY ONLY <2>1, <2>2
  <2> QED BY <2>3 DEF c, d
<1>12. /\ heap'[cur].next = new /\ heap'[cur].prev = heap[cur].prev /\ Item(heap'[cur]) = Item(heap[cur])
       /\ heap'[new].next = NULL /\ heap'[new].prev = cur /\ heap'[new].data = heap[new].data /\ Item(heap'[new]) = Item(heap[new])
  BY <1>7, <1>8, <1>11 DEF Cell, Item
<1>13. Linking(heap, heap', q, new)
  <2>1. cur = At(q, Len(q))
    BY <1>4, <1>5, <1>6
  <2>2. ASSUME NEW k \in 1 .. Len(q)
        PROVE  /\ Item(heap'[q[k]]) = Item(heap[q[k]])
               /\ heap'[q[k]].next = IF k = Len(q) THEN new ELSE heap[q[k]].next
               /\ heap'[q[k]].prev = heap[q[k]].prev
    <3>1. CASE k = Len(q)
      BY <1>4, <1>6, <1>12, <3>1
    <3>2. CASE k # Len(q)
      <4>1. q[k] # cur /\ q[k] # new /\ q[k] \in Node
        BY <1>4, <1>5, <1>6, <1>7, <3>2
      <4> QED BY <1>11, <3>2, <4>1
    <3> QED BY <3>1, <3>2
  <2> QED BY <1>7, <1>12, <2>1, <2>2 DEF Linking
<1>14. Len(q) # 0
  BY <1>5
<1> DEFINE r == Append(q, new)
           u == Append(Items(heap, q), Item(heap[new]))
<1>15. Chain(heap', head', r) /\ Items(heap', r) = u /\ Len(r) >= 1
  <2>1. /\ Chain(heap', IF Len(q) = 0 THEN new ELSE head, r)
        /\ Items(heap', r) = Append(Items(heap, q), Item(heap'[new]))
    <3>1. heap \in [Node -> Cell]
      BY <1>3
    <3> HIDE DEF r
    <3> QED BY ONLY ListAssumption, <1>2, <1>10, <1>13, <3>1, Appended DEF r
  <2>2. Len(r) >= 1
    BY <1>5, <1>7, AppendProperties
  <2> QED BY <1>3, <1>12, <1>14, <2>1, <2>2
<1> QED BY <1>10, <1>12, <1>13, <1>15

LEMMA InsertLinkIInv ==
  ASSUME ListAssumption, IInv, InsertLink, UNCHANGED <<call, before>>
  PROVE  IInv'
<1>1. PICK q \in Seq(Node) : Shape(q)
  BY DEF IInv
<1>2. Chain(heap, head, q) /\ Inserting(q) /\ heap \in [Node -> Cell]
  BY <1>1, LoopIs DEF IInv, InsertLink
<1>3. pc' = IF call.op = "clock" THEN "clock" ELSE "idle"
  BY DEF InsertLink
<1> DEFINE r == Append(q, new)
           u == Append(Items(heap, q), Item(heap[new]))
<1>4. heap' \in [Node -> Cell] /\ Chain(heap', head', r) /\ Items(heap', r) = u /\ Len(r) >= 1
  BY <1>2, InsertLinkIs
<1>5. (call.op = "insert" /\ u = Promised) \/ Turning(u)
  BY <1>2 DEF Inserting
<1> HIDE DEF r, u
<1>6. CASE call.op = "insert" /\ u = Promised
  <2>1. pc' = "idle" /\ Promised' = Promised
    BY <1>3, <1>6 DEF Promised
  <2> QED BY ONLY <1>4, <1>6, <2>1, Returns
<1>7. CASE Turning(u)
  <2>1. pc' = "clock" /\ call'.op = "clock" /\ \E t \in 0 .. Len(before') : Turned(before', u, t)
    BY <1>3, <1>7 DEF Turning
  <2> QED BY ONLY <1>4, <2>1, Sweeps
<1> QED BY <1>5, <1>6, <1>7

(* A search goes on at the next place. *)
LEMMA SeekNext ==
  ASSUME ListAssumption, NEW q, Chain(heap, head, q), NEW x, NEW i \in 1 .. Len(q) + 1, Seeking(q, x, i),
         cur # NULL, heap[cur].data # x
  PROVE  /\ i \in 1 .. Len(q) /\ cur = q[i] /\ i + 1 \in 1 .. Len(q) + 1
         /\ heap[cur].next = At(q, i + 1)
         /\ \A j \in 1 .. i + 1 - 1 : heap[q[j]].data # x
<1>1. Len(q) \in Nat /\ \A k : k \notin 1 .. Len(q) => At(q, k) = NULL
  BY ChainFacts
<1>2. cur = At(q, i) /\ \A j \in 1 .. i - 1 : heap[q[j]].data # x
  BY DEF Seeking
<1>3. i \in 1 .. Len(q) /\ cur = q[i]
  BY <1>1, <1>2 DEF At
<1>4. heap[cur].next = At(q, i + 1)
  BY <1>3 DEF Chain
<1>5. \A j \in 1 .. i + 1 - 1 : j \in 1 .. i - 1 \/ j = i
  BY <1>1
<1>6. i + 1 \in 1 .. Len(q) + 1
  BY <1>1, <1>3
<1> QED BY <1>2, <1>3, <1>4, <1>5, <1>6

(* A search that has found the frame stands at the only place that has it. *)
LEMMA SeekFound ==
  ASSUME ListAssumption, NEW q, Chain(heap, head, q), NEW x, NEW i \in 1 .. Len(q) + 1, Seeking(q, x, i),
         cur # NULL, heap[cur].data = x
  PROVE  /\ i \in 1 .. Len(q) /\ cur = q[i] /\ heap[cur].next = At(q, i + 1) /\ heap[cur].prev = At(q, i - 1)
         /\ \A j \in 1 .. Len(q) : heap[q[j]].data = x <=> j = i
<1>1. Len(q) \in Nat /\ \A k : k \notin 1 .. Len(q) => At(q, k) = NULL
  BY ChainFacts
<1>2. cur = At(q, i)
  BY DEF Seeking
<1>3. i \in 1 .. Len(q) /\ cur = q[i]
  BY <1>1, <1>2 DEF At
<1> QED BY <1>3 DEF Chain

LEMMA SeekEnd ==
  ASSUME ListAssumption, NEW q, Chain(heap, head, q), NEW x, NEW i \in 1 .. Len(q) + 1, Seeking(q, x, i), cur = NULL
  PROVE  \A j \in 1 .. Len(q) : heap[q[j]].data # x
<1>1. Len(q) \in Nat /\ \A k \in 1 .. Len(q) : At(q, k) # NULL
  BY ChainFacts
<1>2. At(q, i) = NULL /\ \A j \in 1 .. i - 1 : heap[q[j]].data # x
  BY DEF Seeking
<1>3. i = Len(q) + 1
  BY <1>1, <1>2
<1>4. i - 1 = Len(q)
  BY <1>1, <1>3
<1> QED BY <1>2, <1>4

LEMMA SeekBegins ==
  ASSUME ListAssumption, NEW q, Chain(heap, head, q), NEW x
  PROVE  /\ 1 \in 1 .. Len(q) + 1 /\ head = At(q, 1)
         /\ \A j \in 1 .. 1 - 1 : heap[q[j]].data # x
<1>1. Len(q) \in Nat
  BY ChainFacts
<1> QED BY <1>1 DEF Chain

LEMMA RemoveWalkIInv ==
  ASSUME ListAssumption, IInv, RemoveWalk, UNCHANGED <<call, before>>
  PROVE  IInv'
<1>1. PICK q \in Seq(Node) : Shape(q)
  BY DEF IInv
<1>2. Chain(heap, head, q) /\ Removing(q)
  BY <1>1, LoopIs DEF RemoveWalk
<1>3. /\ heap \in [Node -> Cell] /\ UNCHANGED <<heap, new, head, pc, call, before>>
      /\ cur # NULL /\ heap[cur].data # call.data /\ cur' = heap[cur].next
  BY DEF IInv, RemoveWalk
<1>4. PICK i \in 1 .. Len(q) + 1 : Seeking(q, call.data, i)
  BY <1>2 DEF Removing
<1>5. i + 1 \in 1 .. Len(q) + 1 /\ cur' = At(q, i + 1) /\ \A j \in 1 .. i + 1 - 1 : heap[q[j]].data # call.data
  BY <1>2, <1>3, <1>4, SeekNext
<1>6. Removing(q)'
  BY <1>2, <1>3, <1>5 DEF Removing, Seeking
<1> QED BY <1>2, <1>3, <1>6 DEF IInv, Shape

LEMMA UpdateWalkIInv ==
  ASSUME ListAssumption, IInv, UpdateWalk, UNCHANGED <<call, before>>
  PROVE  IInv'
<1>1. PICK q \in Seq(Node) : Shape(q)
  BY DEF IInv
<1>2. Chain(heap, head, q) /\ Updating(q)
  BY <1>1, LoopIs DEF UpdateWalk
<1>3. /\ heap \in [Node -> Cell] /\ UNCHANGED <<heap, new, head, pc, call, before>>
      /\ cur # NULL /\ heap[cur].data # call.data /\ cur' = heap[cur].next
  BY DEF IInv, UpdateWalk
<1>4. PICK i \in 1 .. Len(q) + 1 : Seeking(q, call.data, i)
  BY <1>2 DEF Updating
<1>5. i + 1 \in 1 .. Len(q) + 1 /\ cur' = At(q, i + 1) /\ \A j \in 1 .. i + 1 - 1 : heap[q[j]].data # call.data
  BY <1>2, <1>3, <1>4, SeekNext
<1>6. Updating(q)'
  BY <1>2, <1>3, <1>5 DEF Updating, Seeking
<1> QED BY <1>2, <1>3, <1>6 DEF IInv, Shape

(* The node at the place i, the only one with the frame, is unlinked. *)
LEMMA RemoveEnds ==
  ASSUME ListAssumption, heap \in [Node -> Cell], heap' \in [Node -> Cell], NEW q, Chain(heap, head, q),
         NEW i \in 1 .. Len(q), Bypassed(heap, heap', q, i), head' = IF i = 1 THEN At(q, 2) ELSE head,
         pc' = "idle", UNCHANGED <<call, before>>, call.op = "remove", Items(heap, q) = before,
         \A j \in 1 .. Len(q) : heap[q[j]].data = call.data <=> j = i
  PROVE  IInv'
<1> DEFINE r == RemoveAt(q, i)
<1>1. Chain(heap', head', r) /\ Items(heap', r) = RemoveAt(Items(heap, q), i)
  BY Unlinked
<1>2. before \in Seq(Nodes(Frame)) /\ Len(before) = Len(q) /\ Len(q) \in Nat /\ \A k \in 1 .. Len(q) : before[k].data = heap[q[k]].data
  <2>1. /\ Items(heap, q) \in Seq(Nodes(Frame)) /\ Len(Items(heap, q)) = Len(q) /\ Len(q) \in Nat
        /\ \A k \in 1 .. Len(q) : Items(heap, q)[k] = Item(heap[q[k]])
    BY ONLY ListAssumption, heap \in [Node -> Cell], Chain(heap, head, q), ItemsAre
  <2>2. /\ before \in Seq(Nodes(Frame)) /\ Len(before) = Len(q) /\ Len(q) \in Nat
        /\ \A k \in 1 .. Len(q) : before[k] = Item(heap[q[k]])
    BY ONLY <2>1, Items(heap, q) = before
  <2>3. \A k \in 1 .. Len(q) : Item(heap[q[k]]).data = heap[q[k]].data
    BY DEF Item
  <2> QED BY ONLY <2>2, <2>3
<1>3. i \in 1 .. Len(before) /\ before[i].data = call.data /\ \A j \in 1 .. i - 1 : before[j].data # call.data
  <2>1. \A j \in 1 .. i - 1 : j \in 1 .. Len(q) /\ j # i
    BY <1>2
  <2> QED BY <1>2, <2>1
<1>4. list_remove(before, call.data) = RemoveAt(before, i)
  BY ONLY <1>2, <1>3, RemovesFirst
<1>5. Promised' = RemoveAt(before, i)
  BY <1>4 DEF Promised
<1> HIDE DEF r
<1> QED BY ONLY <1>1, <1>5, heap' \in [Node -> Cell], pc' = "idle", Items(heap, q) = before, Returns

LEMMA RemoveIsHeadIInv ==
  ASSUME ListAssumption, IInv, RemoveIsHead, UNCHANGED <<call, before>>
  PROVE  IInv'
<1>1. PICK q \in Seq(Node) : Shape(q)
  BY DEF IInv
<1>2. Chain(heap, head, q) /\ Removing(q)
  BY <1>1, LoopIs DEF RemoveIsHead, Found
<1>3. /\ heap \in [Node -> Cell] /\ UNCHANGED <<call, before>> /\ cur = head /\ cur # NULL /\ heap[cur].data = call.data
      /\ heap' = Unhead(heap, head) /\ head' = heap[head].next /\ pc' = "idle"
  BY DEF IInv, RemoveIsHead, Found
<1>4. PICK i \in 1 .. Len(q) + 1 : Seeking(q, call.data, i)
  BY <1>2 DEF Removing
<1>5. i \in 1 .. Len(q) /\ cur = q[i] /\ \A j \in 1 .. Len(q) : heap[q[j]].data = call.data <=> j = i
  BY <1>2, <1>3, <1>4, SeekFound
<1>6. Len(q) \in Nat /\ (\A j, k \in 1 .. Len(q) : q[j] = q[k] => j = k) /\ Len(q) >= 1
  <2>1. Len(q) \in Nat /\ (\A j, k \in 1 .. Len(q) : q[j] = q[k] => j = k)
    BY <1>2, ChainFacts
  <2> QED BY <1>5, <2>1
<1>7. /\ 1 \in 1 .. Len(q) /\ head = q[1] /\ heap[head].next = At(q, 2)
      /\ heap' \in [Node -> Cell] /\ Bypassed(heap, heap', q, 1)
  BY <1>2, <1>3, <1>6, UnheadIs
<1>8. i = 1
  BY <1>3, <1>5, <1>6, <1>7
<1>9. head' = (IF 1 = 1 THEN At(q, 2) ELSE head) /\ \A j \in 1 .. Len(q) : heap[q[j]].data = call.data <=> j = 1
  BY <1>3, <1>5, <1>7, <1>8
<1>10. call.op = "remove" /\ Items(heap, q) = before
  BY <1>2 DEF Removing
<1>11. heap \in [Node -> Cell]
  BY <1>3
<1> QED BY ONLY ListAssumption, <1>2, <1>3, <1>7, <1>9, <1>10, <1>11, RemoveEnds

LEMMA RemoveIsTailIInv ==
  ASSUME ListAssumption, IInv, RemoveIsTail, UNCHANGED <<call, before>>
  PROVE  IInv'
<1>1. PICK q \in Seq(Node) : Shape(q)
  BY DEF IInv
<1>2. Chain(heap, head, q) /\ Removing(q)
  BY <1>1, LoopIs DEF RemoveIsTail, Found
<1>3. /\ heap \in [Node -> Cell] /\ UNCHANGED <<heap, head, call, before>> /\ cur # head /\ cur # NULL /\ heap[cur].data = call.data
      /\ heap[cur].next = NULL /\ cur' = head /\ pc' = "removeTail"
  BY DEF IInv, RemoveIsTail, Found
<1>4. PICK i \in 1 .. Len(q) + 1 : Seeking(q, call.data, i)
  BY <1>2 DEF Removing
<1>5. i \in 1 .. Len(q) /\ cur = q[i] /\ heap[cur].next = At(q, i + 1)
  BY <1>2, <1>3, <1>4, SeekFound
<1>6. Len(q) \in Nat /\ \A k \in 1 .. Len(q) : At(q, k) = q[k] /\ At(q, k) # NULL
  BY <1>2, ChainFacts
<1>7. i = Len(q)
  <2>1. i + 1 \notin 1 .. Len(q)
    BY <1>3, <1>5, <1>6
  <2> QED BY <1>5, <1>6, <2>1
<1>8. 1 \in 1 .. Len(q) /\ head = q[1]
  <2>1. 1 \in 1 .. Len(q)
    BY <1>5, <1>6
  <2> QED BY <1>2, <1>6, <2>1 DEF Chain
<1>9. Len(q) > 1
  BY <1>3, <1>5, <1>6, <1>7, <1>8
<1>10. RemovingTail(q)'
  BY <1>2, <1>3, <1>5, <1>7, <1>8, <1>9 DEF RemovingTail, Removing
<1> QED BY <1>2, <1>3, <1>10 DEF IInv, Shape

LEMMA RemoveMiddleIInv ==
  ASSUME ListAssumption, IInv, RemoveMiddle, UNCHANGED <<call, before>>
  PROVE  IInv'
<1>1. PICK q \in Seq(Node) : Shape(q)
  BY DEF IInv
<1>2. Chain(heap, head, q) /\ Removing(q)
  BY <1>1, LoopIs DEF RemoveMiddle, Found
<1>3. /\ heap \in [Node -> Cell] /\ UNCHANGED <<head, call, before>> /\ cur # head /\ cur # NULL
      /\ heap[cur].data = call.data /\ heap[cur].next # NULL /\ pc' = "idle"
  BY DEF IInv, RemoveMiddle, Found
<1>4. PICK i \in 1 .. Len(q) + 1 : Seeking(q, call.data, i)
  BY <1>2 DEF Removing
<1>5. /\ i \in 1 .. Len(q) /\ cur = q[i] /\ heap[cur].next = At(q, i + 1) /\ heap[cur].prev = At(q, i - 1)
      /\ \A j \in 1 .. Len(q) : heap[q[j]].data = call.data <=> j = i
  BY <1>2, <1>3, <1>4, SeekFound
<1>6. /\ Len(q) \in Nat /\ \A k \in 1 .. Len(q) : q[k] \in Node /\ At(q, k) = q[k] /\ q[k] # NULL
      /\ \A k : k \notin 1 .. Len(q) => At(q, k) = NULL
      /\ \A j, k \in 1 .. Len(q) : q[j] = q[k] => j = k
  BY <1>2, ChainFacts
<1>7. i # 1
  <2>1. 1 \in 1 .. Len(q)
    BY <1>5, <1>6
  <2>2. head = q[1]
    BY <1>2, <1>6, <2>1 DEF Chain
  <2> QED BY <1>3, <1>5, <2>2
<1>8. i + 1 \in 1 .. Len(q) /\ i - 1 \in 1 .. Len(q) /\ i # i + 1 /\ i # i - 1 /\ i + 1 # i - 1
  <2>1. i + 1 \in 1 .. Len(q)
    BY <1>3, <1>5, <1>6
  <2> QED BY <1>5, <1>6, <1>7, <2>1
<1> DEFINE p == q[i - 1]
           c == q[i]
           n == q[i + 1]
<1>9. /\ p \in Node /\ c \in Node /\ n \in Node /\ p # c /\ n # c /\ p # n
      /\ heap[c].next = n /\ heap[c].prev = p /\ p # NULL /\ c = cur
      /\ \A k \in 1 .. Len(q) : (q[k] = p <=> k = i - 1) /\ (q[k] = c <=> k = i) /\ (q[k] = n <=> k = i + 1)
  <2>1. heap[c].next = n /\ heap[c].prev = p
    BY <1>5, <1>6, <1>8
  <2> QED BY <1>5, <1>6, <1>8, <2>1
<1>10. i \in 1 .. Len(q) /\ i # 1
  BY <1>5, <1>7
<1> HIDE DEF p, c, n
<1>11. heap' = [heap EXCEPT ![p].next = n, ![n].prev = p, ![c] = Blank]
  BY <1>9 DEF RemoveMiddle
<1>12. heap[p] \in Cell /\ heap[n] \in Cell /\ p \in Pointer /\ n \in Pointer /\ Blank \in Cell
  BY <1>3, <1>9 DEF Blank, Cell, Pointer
<1> DEFINE cp == [heap[p] EXCEPT !.next = n]
           cn == [heap[n] EXCEPT !.prev = p]
<1>13. /\ cp \in Cell /\ cp.next = n /\ cp.prev = heap[p].prev /\ cp.data = heap[p].data /\ cp.ref = heap[p].ref
       /\ cn \in Cell /\ cn.prev = p /\ cn.next = heap[n].next /\ cn.data = heap[n].data /\ cn.ref = heap[n].ref
  BY <1>12 DEF Cell
<1>14. heap' = [heap EXCEPT ![p] = cp, ![n] = cn, ![c] = Blank]
  BY <1>3, <1>9, <1>11
<1> HIDE DEF cp, cn
<1>15. /\ heap' \in [Node -> Cell] /\ heap'[p] = cp /\ heap'[n] = cn
       /\ \A m \in Node : m # p /\ m # n /\ m # c => heap'[m] = heap[m]
  BY <1>3, <1>9, <1>12, <1>13, <1>14
<1>16. Bypassed(heap, heap', q, i)
  BY <1>6, <1>8, <1>9, <1>13, <1>15 DEF Bypassed, Item, p, n
<1>17. head' = (IF i = 1 THEN At(q, 2) ELSE head)
  BY <1>3, <1>10
<1>18. call.op = "remove" /\ Items(heap, q) = before /\ UNCHANGED <<call, before>> /\ pc' = "idle"
       /\ heap \in [Node -> Cell] /\ Chain(heap, head, q) /\ heap' \in [Node -> Cell]
       /\ \A j \in 1 .. Len(q) : heap[q[j]].data = call.data <=> j = i
  BY <1>2, <1>3, <1>5, <1>15 DEF Removing
<1> QED BY ONLY ListAssumption, <1>10, <1>16, <1>17, <1>18, RemoveEnds

(* The walk of list_remove_tail. *)
LEMMA RemoveTailWalkIInv ==
  ASSUME ListAssumption, IInv, RemoveTailWalk, UNCHANGED <<call, before>>
  PROVE  IInv'
<1>1. PICK q \in Seq(Node) : Shape(q)
  BY DEF IInv
<1>2. Chain(heap, head, q) /\ RemovingTail(q)
  BY <1>1, LoopIs DEF RemoveTailWalk
<1>3. heap \in [Node -> Cell] /\ UNCHANGED <<heap, head, pc, call, before>> /\ heap[cur].next # NULL /\ cur' = heap[cur].next
  BY DEF IInv, RemoveTailWalk
<1>4. PICK i \in 1 .. Len(q) : cur = q[i]
  BY <1>2 DEF RemovingTail
<1>5. heap[cur].next = At(q, i + 1)
  BY <1>2, <1>4 DEF Chain
<1>6. i + 1 \in 1 .. Len(q) /\ cur' = q[i + 1]
  BY <1>3, <1>5 DEF At
<1>7. RemovingTail(q)'
  BY <1>2, <1>3, <1>6 DEF RemovingTail
<1> QED BY <1>2, <1>3, <1>7 DEF IInv, Shape

(* The last node has a predecessor, since the list had two nodes. *)
LEMMA RemoveTailUnlinkIInv ==
  ASSUME ListAssumption, IInv, RemoveTailUnlink, UNCHANGED <<call, before>>
  PROVE  IInv'
<1>1. PICK q \in Seq(Node) : Shape(q)
  BY DEF IInv
<1>2. Chain(heap, head, q) /\ RemovingTail(q)
  BY <1>1, LoopIs DEF RemoveTailUnlink
<1>3. heap \in [Node -> Cell] /\ UNCHANGED <<head, call, before>> /\ heap[cur].next = NULL
  BY DEF IInv, RemoveTailUnlink
<1>4. PICK i \in 1 .. Len(q) : cur = q[i]
  BY <1>2 DEF RemovingTail
<1>5. /\ Len(q) \in Nat /\ \A k \in 1 .. Len(q) : q[k] \in Node /\ At(q, k) = q[k] /\ q[k] # NULL
      /\ \A k : k \notin 1 .. Len(q) => At(q, k) = NULL
      /\ \A j, k \in 1 .. Len(q) : q[j] = q[k] => j = k
  BY <1>2, ChainFacts
<1>6. heap[cur].next = At(q, i + 1) /\ heap[cur].prev = At(q, i - 1)
  BY <1>2, <1>4 DEF Chain
<1>7. i = Len(q) /\ i # 1 /\ i - 1 \in 1 .. Len(q) /\ i + 1 \notin 1 .. Len(q)
  <2>1. i + 1 \notin 1 .. Len(q)
    BY <1>3, <1>5, <1>6
  <2>2. Len(q) > 1
    BY <1>2 DEF RemovingTail
  <2> QED BY <1>5, <2>1, <2>2
<1> DEFINE p == q[i - 1]
           c == q[i]
<1>8. /\ p \in Node /\ c \in Node /\ p # c /\ heap[c].prev = p /\ p # NULL /\ c = cur
      /\ \A k \in 1 .. Len(q) : (q[k] = p <=> k = i - 1) /\ (q[k] = c <=> k = i)
  <2>1. i - 1 # i
    BY <1>5
  <2>2. heap[c].prev = p
    BY <1>4, <1>5, <1>6, <1>7
  <2> QED BY <1>4, <1>5, <1>7, <2>1, <2>2
<1>9. At(q, i + 1) = NULL
  BY <1>5, <1>7
<1> HIDE DEF p, c
<1>10. heap' = [heap EXCEPT ![p].next = NULL, ![c] = Blank] /\ pc' = "idle"
  BY <1>8 DEF RemoveTailUnlink
<1>11. heap[p] \in Cell /\ Blank \in Cell /\ NULL \in Pointer
  BY <1>3, <1>8 DEF Blank, Cell, Pointer
<1> DEFINE cp == [heap[p] EXCEPT !.next = NULL]
<1>12. cp \in Cell /\ cp.next = NULL /\ cp.prev = heap[p].prev /\ cp.data = heap[p].data /\ cp.ref = heap[p].ref
  BY <1>11 DEF Cell
<1>13. heap' = [heap EXCEPT ![p] = cp, ![c] = Blank]
  BY <1>3, <1>8, <1>10
<1> HIDE DEF cp
<1>14. heap' \in [Node -> Cell] /\ heap'[p] = cp /\ \A m \in Node : m # p /\ m # c => heap'[m] = heap[m]
  BY <1>3, <1>8, <1>11, <1>12, <1>13
<1>15. Bypassed(heap, heap', q, i)
  <2>1. \A k \in 1 .. Len(q) : k # i + 1
    BY <1>7
  <2> QED BY <1>5, <1>7, <1>8, <1>9, <1>12, <1>14, <2>1 DEF Bypassed, Item, p
<1>16. \A j \in 1 .. Len(q) : heap[q[j]].data = call.data <=> j = i
  <2>1. heap[q[i]].data = call.data
    BY <1>2, <1>7 DEF RemovingTail
  <2> QED BY <1>2, <2>1 DEF Chain
<1>17. head' = (IF i = 1 THEN At(q, 2) ELSE head)
  BY <1>3, <1>7
<1>18. call.op = "remove" /\ Items(heap, q) = before /\ UNCHANGED <<call, before>> /\ pc' = "idle"
       /\ heap \in [Node -> Cell] /\ Chain(heap, head, q) /\ heap' \in [Node -> Cell] /\ i \in 1 .. Len(q)
  BY <1>2, <1>3, <1>10, <1>14 DEF RemovingTail
<1> QED BY ONLY ListAssumption, <1>15, <1>16, <1>17, <1>18, RemoveEnds

(* The end of a list without the frame: the call leaves it as it was. *)
LEMMA NotFoundIInv ==
  ASSUME ListAssumption, IInv, NotFound, UNCHANGED <<call, before>>
  PROVE  IInv'
<1>1. PICK q \in Seq(Node) : Shape(q)
  BY DEF IInv
<1>2. Chain(heap, head, q) /\ (Removing(q) \/ Updating(q))
  BY <1>1, LoopIs DEF NotFound
<1>3. heap \in [Node -> Cell] /\ UNCHANGED <<heap, head, call, before>> /\ cur = NULL /\ pc' = "idle"
  BY DEF IInv, NotFound
<1>4. PICK i \in 1 .. Len(q) + 1 : Seeking(q, call.data, i)
  BY <1>2 DEF Removing, Updating
<1>5. \A j \in 1 .. Len(q) : heap[q[j]].data # call.data
  BY <1>2, <1>3, <1>4, SeekEnd
<1>6. Items(heap, q) = before
  BY <1>2 DEF Removing, Updating
<1>7. \A k \in 1 .. Len(before) : before[k].data # call.data
  <2>1. /\ Len(Items(heap, q)) = Len(q)
        /\ \A k \in 1 .. Len(q) : Items(heap, q)[k] = Item(heap[q[k]])
    <3>1. heap \in [Node -> Cell] /\ Chain(heap, head, q)
      BY <1>2, <1>3
    <3> QED BY ONLY ListAssumption, <3>1, ItemsAre
  <2>2. Len(before) = Len(q) /\ \A k \in 1 .. Len(q) : before[k] = Item(heap[q[k]])
    BY ONLY <1>6, <2>1
  <2>3. \A k \in 1 .. Len(q) : Item(heap[q[k]]).data = heap[q[k]].data
    BY DEF Item
  <2> QED BY ONLY <1>5, <2>2, <2>3
<1>8. Promised = before
  <2>1. CASE Removing(q)
    BY <1>7, <2>1, RemovesNone DEF Removing, Promised
  <2>2. CASE Updating(q)
    BY <1>7, <2>2, UpdatesNone DEF Updating, Promised
  <2> QED BY <1>2, <2>1, <2>2
<1>9. Promised' = Promised
  BY <1>3 DEF Promised
<1> QED BY <1>2, <1>3, <1>6, <1>8, <1>9, Returns

LEMMA UpdateFoundIInv ==
  ASSUME ListAssumption, IInv, UpdateFound, UNCHANGED <<call, before>>
  PROVE  IInv'
<1>1. PICK q \in Seq(Node) : Shape(q)
  BY DEF IInv
<1>2. Chain(heap, head, q) /\ Updating(q)
  BY <1>1, LoopIs DEF UpdateFound
<1>3. /\ heap \in [Node -> Cell] /\ UNCHANGED <<head, call, before>> /\ cur # NULL /\ heap[cur].data = call.data
      /\ heap' = [heap EXCEPT ![cur].ref = call.ref] /\ pc' = "idle"
  BY DEF IInv, UpdateFound
<1>4. PICK i \in 1 .. Len(q) + 1 : Seeking(q, call.data, i)
  BY <1>2 DEF Updating
<1>5. i \in 1 .. Len(q) /\ cur = q[i] /\ \A j \in 1 .. Len(q) : heap[q[j]].data = call.data <=> j = i
  BY <1>2, <1>3, <1>4, SeekFound
<1>6. call.ref \in {0, 1} /\ Items(heap, q) = before /\ call.op = "update"
  BY <1>2 DEF Updating
<1>7. heap' = [heap EXCEPT ![q[i]].ref = call.ref]
  BY <1>3, <1>5
<1> DEFINE u == Items(heap', q)
           s == Items(heap, q)
           ref == call.ref
<1>8. /\ Chain(heap', head, q) /\ heap' \in [Node -> Cell]
      /\ SetAt(s, heap[q[i]].data, ref, i, u)
  <2>1. /\ i \in 1 .. Len(q) /\ ref \in {0, 1} /\ Marking(heap, heap', q, i, ref)
        /\ heap \in [Node -> Cell] /\ Chain(heap, head, q)
    BY <1>2, <1>3, <1>5, <1>6, <1>7 DEF Marking
  <2> HIDE DEF ref
  <2> QED BY ONLY ListAssumption, <2>1, Marked
<1>9. u \in Seq(Nodes(Frame)) /\ Len(u) = Len(q)
  BY ONLY ListAssumption, <1>8, ItemsAre
<1>10. s \in Seq(Nodes(Frame)) /\ Len(s) = Len(q)
  <2>1. heap \in [Node -> Cell] /\ Chain(heap, head, q)
    BY <1>2, <1>3
  <2> QED BY ONLY ListAssumption, <2>1, ItemsAre
<1> HIDE DEF u, s, ref
<1>11. SetAt(s, call.data, ref, i, u)
  <2>1. heap[q[i]].data = call.data
    BY <1>5
  <2> QED BY ONLY <1>8, <2>1
<1>12. i \in 1 .. Len(s) /\ ref \in {0, 1} /\ Len(u) = Len(s)
  BY ONLY <1>5, <1>6, <1>9, <1>10 DEF ref
<1>13. clock_list_update_ref(s, call.data, ref) = u
  BY ONLY <1>9, <1>10, <1>11, <1>12, UpdatesOne
<1>14. Promised' = u
  BY <1>3, <1>6, <1>13 DEF Promised, s, ref
<1> QED BY <1>3, <1>8, <1>14, Returns DEF u

LEMMA ClockStopIInv ==
  ASSUME ListAssumption, IInv, ClockStop, UNCHANGED <<call, before>>
  PROVE  IInv'
<1>1. PICK q \in Seq(Node) : Shape(q)
  BY DEF IInv
<1>2. Chain(heap, head, q) /\ Clocking(q)
  BY <1>1, LoopIs DEF ClockStop
<1>3. heap \in [Node -> Cell] /\ UNCHANGED <<heap, head, call, before>> /\ heap[head].ref # 1 /\ pc' = "idle"
  BY DEF IInv, ClockStop
<1> DEFINE u == Items(heap, q)
<1>4. PICK t \in 0 .. Len(before) : Turned(before, u, t)
  <2>1. Turning(u)
    BY <1>2 DEF Clocking
  <2> HIDE DEF u
  <2> QED BY <2>1 DEF Turning
<1>5. u \in Seq(Nodes(Frame)) /\ Len(u) = Len(q) /\ Len(q) \in Nat /\ \A k \in 1 .. Len(q) : u[k] = Item(heap[q[k]])
  <2>1. heap \in [Node -> Cell] /\ Chain(heap, head, q)
    BY <1>2, <1>3
  <2> QED BY ONLY ListAssumption, <2>1, ItemsAre
<1>6. 1 \in 1 .. Len(q) /\ head = q[1]
  <2>1. q # << >> /\ q \in Seq(Node)
    BY <1>2 DEF Clocking, Chain
  <2>2. 1 \in 1 .. Len(q)
    BY <1>5, <2>1, EmptySeq
  <2> QED BY <1>2, <2>2 DEF Chain, At
<1>7. u[1].ref # 1
  <2>1. u[1] = Item(heap[head])
    BY <1>5, <1>6
  <2>2. Item(heap[head]).ref = heap[head].ref
    BY DEF Item
  <2> QED BY <1>3, <2>1, <2>2
<1> HIDE DEF u
<1>8. Len(before) >= 1
  BY <1>4, <1>5, <1>6 DEF Turned
<1>9. Sweep(before) = u
  BY ONLY <1>4, <1>5, <1>7, <1>8, TurnsEnd
<1>10. Promised' = u
  <2>1. call.op = "clock"
    BY <1>2 DEF Clocking, Turning
  <2> QED BY <1>3, <1>9, <2>1 DEF Promised
<1>11. Items(heap', q) = Promised'
  BY <1>3, <1>10 DEF u
<1> QED BY <1>2, <1>3, <1>11, Returns

(* The list that clock() moves its head to the tail of, and the address    *)
(* that malloc finds while the head is still linked.                       *)
Unheaded(q, hp, h, x, r, n) ==
  /\ hp = Unhead(heap, head) /\ h = heap[head].next /\ x = heap[head].data
  /\ r = RemoveAt(q, 1) /\ n = new_node(h)

Turnable(q, hp, h, x, r, n) ==
  /\ hp \in [Node -> Cell] /\ Chain(hp, h, r) /\ Items(hp, r) = RemoveAt(Items(heap, q), 1)
  /\ x \in Frame /\ 1 \in 1 .. Len(q) /\ head = q[1] /\ Outside(hp, r, x, n)
  /\ \A k \in 1 .. Len(r) : k + 1 \in 1 .. Len(q) /\ r[k] = q[k + 1] /\ Item(hp[r[k]]) = Item(heap[q[k + 1]])

LEMMA TurnIs ==
  ASSUME ListAssumption, heap \in [Node -> Cell], NEW q, Chain(heap, head, q), Len(q) >= 1,
         NEW hp, NEW h, NEW x, NEW r, NEW n, Unheaded(q, hp, h, x, r, n)
  PROVE  Turnable(q, hp, h, x, r, n)
<1>1. /\ q \in Seq(Node) /\ Len(q) \in Nat
      /\ \A k \in 1 .. Len(q) : q[k] \in Node /\ At(q, k) = q[k] /\ q[k] # NULL
      /\ \A j, k \in 1 .. Len(q) : q[j] = q[k] => j = k
      /\ \A k : k \notin 1 .. Len(q) => At(q, k) = NULL
  BY ChainFacts
<1>2. hp = Unhead(heap, head) /\ h = heap[head].next /\ x = heap[head].data /\ r = RemoveAt(q, 1) /\ n = new_node(h)
  BY DEF Unheaded
<1>3. /\ 1 \in 1 .. Len(q) /\ head = q[1] /\ h = At(q, 2)
      /\ hp \in [Node -> Cell] /\ Bypassed(heap, hp, q, 1)
  BY <1>2, UnheadIs
<1>4. x \in Frame
  BY <1>2, <1>3 DEF Chain
<1>5. /\ r \in Seq(Node) /\ Len(r) = Len(q) - 1
      /\ \A k \in 1 .. Len(q) - 1 : r[k] = q[k + 1]
  <2>1. /\ r \in Seq(Node) /\ Len(r) = Len(q) - 1
        /\ \A k \in 1 .. Len(q) - 1 : r[k] = IF k < 1 THEN q[k] ELSE q[k + 1]
    <3>1. q \in Seq(Node) /\ 1 \in 1 .. Len(q)
      BY ONLY <1>1, <1>3
    <3>2. /\ RemoveAt(q, 1) \in Seq(Node) /\ Len(RemoveAt(q, 1)) = Len(q) - 1
          /\ \A k \in 1 .. Len(q) - 1 : RemoveAt(q, 1)[k] = IF k < 1 THEN q[k] ELSE q[k + 1]
      BY ONLY <3>1, RemoveAtIs
    <3>3. r = RemoveAt(q, 1)
      BY ONLY <1>2
    <3> QED BY ONLY <3>2, <3>3
  <2> QED BY ONLY <1>1, <2>1
<1>6. Chain(hp, h, r) /\ Items(hp, r) = RemoveAt(Items(heap, q), 1)
  <2>1. /\ Chain(hp, IF 1 = 1 THEN At(q, 2) ELSE head, RemoveAt(q, 1))
        /\ Items(hp, RemoveAt(q, 1)) = RemoveAt(Items(heap, q), 1)
    <3>1. heap \in [Node -> Cell] /\ hp \in [Node -> Cell] /\ Chain(heap, head, q)
          /\ 1 \in 1 .. Len(q) /\ Bypassed(heap, hp, q, 1)
      BY <1>3
    <3> QED BY ONLY ListAssumption, <3>1, Unlinked
  <2> QED BY ONLY <1>2, <1>3, <2>1
<1>7. \A k \in 1 .. Len(r) : k + 1 \in 1 .. Len(q) /\ k + 1 # 1 /\ r[k] = q[k + 1] /\ k \in 1 .. Len(q) - 1
  BY ONLY <1>1, <1>5
<1>8. Linked(h, r)
  <2>1. h = At(r, 1)
    BY <1>6 DEF Chain
  <2>2. ASSUME NEW k \in 1 .. Len(r) PROVE heap[r[k]].next = At(r, k + 1)
    <3>1. heap[r[k]].next = At(q, k + 1 + 1)
      BY <1>7 DEF Chain
    <3>2. At(r, k + 1) = At(q, k + 1 + 1)
      <4>1. CASE k + 1 \in 1 .. Len(r)
        <5>1. k + 1 + 1 \in 1 .. Len(q) /\ r[k + 1] = q[k + 1 + 1]
          BY <1>7, <4>1
        <5> QED BY <4>1, <5>1 DEF At
      <4>2. CASE k + 1 \notin 1 .. Len(r)
        <5>1. k + 1 + 1 \notin 1 .. Len(q)
          BY ONLY <1>1, <1>5, <4>2, k \in 1 .. Len(r)
        <5> QED BY <4>2, <5>1 DEF At
      <4> QED BY <4>1, <4>2
    <3> QED BY <3>1, <3>2
  <2> QED BY <1>5, <2>1, <2>2 DEF Linked
<1>9. Within(r, q)
  <2> SUFFICES ASSUME NEW k \in 1 .. Len(r)
               PROVE  /\ \E j \in 1 .. Len(q) : r[k] = q[j]
                      /\ heap[r[k]].prev = NULL \/ \E j \in 1 .. Len(q) : heap[r[k]].prev = q[j]
    BY DEF Within
  <2>1. heap[r[k]].prev = At(q, k + 1 - 1)
    BY <1>7 DEF Chain
  <2>2. At(q, k + 1 - 1) = NULL \/ \E j \in 1 .. Len(q) : At(q, k + 1 - 1) = q[j]
    BY DEF At
  <2> QED BY <1>7, <2>1, <2>2
<1>10. n \in Node /\ \A k \in 1 .. Len(r) : n # r[k]
  <2>1. Len(q) < MaxNodes /\ Len(r) <= Len(q)
    BY <1>1, <1>5, ChainShort
  <2> QED BY ONLY ListAssumption, <1>1, <1>2, <1>8, <1>9, <2>1, NewNodeIs
<1>11. \A k \in 1 .. Len(r) : x # hp[r[k]].data
  <2> SUFFICES ASSUME NEW k \in 1 .. Len(r), x = hp[r[k]].data PROVE FALSE
    OBVIOUS
  <2>1. Item(hp[q[k + 1]]) = Item(heap[q[k + 1]])
    BY <1>3, <1>7 DEF Bypassed
  <2>2. hp[q[k + 1]].data = heap[q[k + 1]].data
    BY ONLY <2>1, SameItem
  <2>3. heap[q[k + 1]].data = heap[q[1]].data
    BY <1>2, <1>3, <1>7, <2>2
  <2>4. k + 1 = 1
    BY <1>3, <1>7, <2>3 DEF Chain
  <2> QED BY <1>7, <2>4
<1>12. \A k \in 1 .. Len(r) : k + 1 \in 1 .. Len(q) /\ r[k] = q[k + 1] /\ Item(hp[r[k]]) = Item(heap[q[k + 1]])
  BY <1>3, <1>7 DEF Bypassed
<1> QED BY ONLY <1>3, <1>4, <1>6, <1>10, <1>11, <1>12 DEF Turnable, Outside

(* clock() moves the referenced head to the tail, unreferenced. *)
LEMMA ClockTurnIInv ==
  ASSUME ListAssumption, IInv, ClockTurn, UNCHANGED <<call, before>>
  PROVE  IInv'
<1>1. PICK q \in Seq(Node) : Shape(q)
  BY DEF IInv
<1>2. Chain(heap, head, q) /\ Clocking(q)
  BY <1>1, LoopIs DEF ClockTurn
<1> DEFINE hp == Unhead(heap, head)
           h == heap[head].next
           x == heap[head].data
           r == RemoveAt(q, 1)
           n == new_node(h)
           u == Items(heap, q)
           v == Append(RemoveAt(u, 1), [data |-> x, ref |-> 0])
<1>3. /\ heap \in [Node -> Cell] /\ UNCHANGED <<call, before>> /\ heap[head].ref = 1
      /\ InsertTail(hp, h, x, 0, "clock")
  BY DEF IInv, ClockTurn
<1>4. call.op = "clock" /\ \E t \in 0 .. Len(before) : Turned(before, u, t)
  <2>1. Turning(u)
    BY <1>2 DEF Clocking
  <2> HIDE DEF u
  <2> QED BY <2>1 DEF Turning
<1>5. Len(q) \in Nat /\ Len(q) >= 1
  <2>1. q # << >> /\ Len(q) \in Nat
    BY <1>2, ChainFacts DEF Clocking
  <2> QED BY <1>1, <2>1, EmptySeq
<1>6. /\ u \in Seq(Nodes(Frame)) /\ Len(u) = Len(q)
      /\ \A k \in 1 .. Len(q) : u[k] = Item(heap[q[k]])
  <2>1. heap \in [Node -> Cell] /\ Chain(heap, head, q)
    BY <1>2, <1>3
  <2> QED BY ONLY ListAssumption, <2>1, ItemsAre
<1>7. Unheaded(q, hp, h, x, r, n) /\ n = new_node(h)
  BY DEF Unheaded
<1>8. \A k \in 1 .. Len(q) : Item(heap[q[k]]).data = heap[q[k]].data /\ Item(heap[q[k]]).ref = heap[q[k]].ref
  BY DEF Item
<1>9. Turnable(q, hp, h, x, r, n)
  <2> HIDE DEF hp, h, x, r, n
  <2> QED BY ONLY ListAssumption, <1>2, <1>3, <1>5, <1>7, TurnIs
<1>10. 1 \in 1 .. Len(q) /\ head = q[1] /\ x \in Frame
  BY <1>9 DEF Turnable
<1>11. u[1].data = x /\ u[1].ref = 1
  BY <1>3, <1>6, <1>8, <1>10
<1> HIDE DEF hp, h, x, r, n, u
<1>12. /\ hp \in [Node -> Cell] /\ Chain(hp, h, r) /\ Outside(hp, r, x, n)
       /\ v = Append(Items(hp, r), [data |-> x, ref |-> 0])
  BY <1>9 DEF Turnable, u
<1>13. \E t \in 0 .. Len(before') : Turned(before', v, t)
  <2>1. PICK t \in 0 .. Len(before) : Turned(before, u, t)
    BY <1>4
  <2>2. Len(before) = Len(q) /\ Len(before) >= 1
    BY <1>5, <1>6, <2>1 DEF Turned
  <2> DEFINE w == RemoveAt(u, 1)
             e == [data |-> x, ref |-> 0]
  <2>3. /\ w \in Seq(Nodes(Frame)) /\ Len(w) = Len(q) - 1
        /\ \A k \in 1 .. Len(q) - 1 : w[k] = u[k + 1]
    <3> HIDE DEF w
    <3>1. 1 \in 1 .. Len(u)
      BY <1>10, <1>6
    <3>2. /\ w \in Seq(Nodes(Frame)) /\ Len(w) = Len(u) - 1
          /\ \A k \in 1 .. Len(u) - 1 : w[k] = IF k < 1 THEN u[k] ELSE u[k + 1]
      BY ONLY <1>6, <3>1, RemoveAtIs DEF w
    <3> QED BY ONLY <1>5, <1>6, <3>2
  <2>4. e \in Nodes(Frame)
    BY <1>10 DEF Nodes
  <2> HIDE DEF w, e
  <2>5. /\ Len(v) = Len(w) + 1 /\ v[Len(w) + 1] = e
        /\ \A k \in 1 .. Len(w) : v[k] = w[k]
    <3>1. v = Append(w, e)
      BY DEF w, e
    <3> HIDE DEF v
    <3> QED BY ONLY <2>3, <2>4, <3>1, AppendProperties
  <2> HIDE DEF v
  <2>6. /\ Len(v) = Len(before) /\ v[Len(before)] = e
        /\ \A k \in 1 .. Len(before) - 1 : v[k] = u[k + 1]
    <3>1. Len(w) + 1 = Len(before) /\ Len(w) = Len(before) - 1
      BY ONLY <1>5, <2>2, <2>3
    <3> QED BY ONLY <2>2, <2>3, <2>5, <3>1
  <2>7. e = [data |-> u[1].data, ref |-> 0] /\ u[1].ref = 1
    BY <1>11 DEF e
  <2>8. t + 1 \in 0 .. Len(before) /\ Turned(before, v, t + 1)
    BY ONLY <2>1, <2>2, <2>6, <2>7, TurnsOne
  <2> QED BY <1>3, <2>8
<1>14. call'.op = "clock"
  BY <1>3, <1>4
<1>15. n = new_node(h) /\ 0 \in {0, 1} /\ InsertTail(hp, h, x, 0, "clock")
  BY <1>3, <1>7
<1> HIDE DEF v
<1> QED BY ONLY ListAssumption, <1>10, <1>12, <1>13, <1>14, <1>15, InsertStarts

-----------------------------------------------------------------------------
(* The calls. *)

LEMMA CallBegins ==
  ASSUME ListAssumption, IInv, NEW c, Call(c)
  PROVE  /\ heap \in [Node -> Cell] /\ call' = c
         /\ \E q \in Seq(Node) : Chain(heap, head, q) /\ before' = Items(heap, q)
<1>1. PICK q \in Seq(Node) : Shape(q)
  BY DEF IInv
<1>2. Chain(heap, head, q)
  BY <1>1 DEF Shape
<1>3. List(head) = Items(heap, q)
  BY <1>2, ListIs
<1> QED BY <1>2, <1>3 DEF IInv, Call

(* A frame that is not in the list is in no node of it. *)
LEMMA NotInList ==
  ASSUME ListAssumption, heap \in [Node -> Cell], NEW q, Chain(heap, head, q), NEW x, x \notin Range(FramesIn(List(head)))
  PROVE  \A k \in 1 .. Len(q) : x # heap[q[k]].data
<1> DEFINE u == Items(heap, q)
<1>1. List(head) = u
  BY ListIs
<1>2. DOMAIN u = 1 .. Len(q) /\ \A k \in 1 .. Len(q) : u[k] = Item(heap[q[k]])
  BY DEF Items
<1> HIDE DEF u
<1>3. \A k \in 1 .. Len(q) : Item(heap[q[k]]).data = heap[q[k]].data
  BY DEF Item
<1>4. \A k \in 1 .. Len(q) : FramesIn(u)[k] = heap[q[k]].data /\ k \in DOMAIN FramesIn(u)
  BY ONLY <1>2, <1>3 DEF FramesIn
<1> QED BY <1>1, <1>4 DEF Range

LEMMA CallInsertIInv ==
  ASSUME ListAssumption, IInv, NEW x \in Frame, NEW ref \in {0, 1}, CallInsert(x, ref)
  PROVE  IInv'
<1> DEFINE c == [op |-> "insert", data |-> x, ref |-> ref]
           item == [data |-> x, ref |-> ref]
           n == new_node(head)
<1>1. /\ Call(c) /\ x \notin Range(FramesIn(List(head)))
      /\ InsertTail(heap, head, x, ref, "idle")
  BY DEF CallInsert
<1>2. heap \in [Node -> Cell] /\ call' = c
  BY <1>1, CallBegins
<1>3. PICK q \in Seq(Node) : Chain(heap, head, q) /\ before' = Items(heap, q)
  BY <1>1, CallBegins
<1> DEFINE u == Append(Items(heap, q), item)
<1>4. \A k \in 1 .. Len(q) : x # heap[q[k]].data
  BY <1>1, <1>2, <1>3, NotInList
<1>5. n \in Node /\ \A k \in 1 .. Len(q) : n # q[k]
  BY <1>3, NewNodeOutside
<1>6. call'.op = "insert" /\ u = Promised'
  BY <1>2, <1>3 DEF Promised
<1> HIDE DEF n, u
<1>7. /\ n = new_node(head) /\ u = Append(Items(heap, q), [data |-> x, ref |-> ref])
      /\ Outside(heap, q, x, n)
  BY <1>4, <1>5 DEF n, u, Outside
<1> QED BY ONLY ListAssumption, <1>1, <1>2, <1>3, <1>5, <1>6, <1>7, x \in Frame, ref \in {0, 1}, InsertStarts

LEMMA CallInsertHeadIInv ==
  ASSUME ListAssumption, IInv, NEW x \in Frame, NEW ref \in {0, 1}, CallInsertHead(x, ref)
  PROVE  IInv'
<1> DEFINE c == [op |-> "insertHead", data |-> x, ref |-> ref]
           n == new_node(head)
           cell == [next |-> head, prev |-> NULL, data |-> x, ref |-> ref]
<1>1. /\ Call(c) /\ x \notin Range(FramesIn(List(head))) /\ head' = n /\ pc' = "idle"
      /\ heap' = [m \in Node |-> CASE m = n    -> cell
                                   [] m = head -> [heap[m] EXCEPT !.prev = n]
                                   [] OTHER    -> heap[m]]
  BY DEF CallInsertHead, Call
<1>2. heap \in [Node -> Cell] /\ call' = c
  BY <1>1, CallBegins
<1>3. PICK q \in Seq(Node) : Chain(heap, head, q) /\ before' = Items(heap, q)
  BY <1>1, CallBegins
<1>4. \A k \in 1 .. Len(q) : x # heap[q[k]].data
  BY <1>1, <1>2, <1>3, NotInList
<1>5. n \in Node /\ \A k \in 1 .. Len(q) : n # q[k]
  BY <1>3, NewNodeOutside
<1>6. /\ Len(q) \in Nat /\ \A k \in 1 .. Len(q) : q[k] \in Node /\ At(q, k) = q[k] /\ q[k] # NULL
      /\ \A j, k \in 1 .. Len(q) : q[j] = q[k] => j = k
  BY <1>3, ChainFacts
<1>7. head = At(q, 1) /\ head \in Pointer
  <2>1. head = At(q, 1)
    BY <1>3 DEF Chain
  <2> QED BY <1>6, <2>1 DEF At, Pointer
<1>8. /\ cell \in Cell /\ cell.next = head /\ cell.prev = NULL /\ cell.data = x /\ Item(cell) = [data |-> x, ref |-> ref]
  BY <1>7 DEF Cell, Pointer, Item
<1> HIDE DEF n, cell
<1>9. \A k \in 1 .. Len(q) : q[k] = head <=> k = 1
  BY <1>6, <1>7 DEF At
<1>10. \A m \in Node : [heap[m] EXCEPT !.prev = n] \in Cell
  BY <1>2, <1>5 DEF Cell, Pointer
<1>11. heap' \in [Node -> Cell] /\ heap'[n] = cell
  <2> DEFINE G(m) == CASE m = n    -> cell
                       [] m = head -> [heap[m] EXCEPT !.prev = n]
                       [] OTHER    -> heap[m]
  <2>1. G(n) = cell /\ \A m \in Node : m # n => G(m) = IF m = head THEN [heap[m] EXCEPT !.prev = n] ELSE heap[m]
    <3>1. n # head
      BY <1>5, <1>6, <1>7 DEF At, Node, NULL
    <3> QED BY <3>1
  <2>2. heap' = [m \in Node |-> G(m)]
    BY <1>1
  <2> HIDE DEF G
  <2>3. \A m \in Node : G(m) \in Cell
    BY <1>2, <1>8, <1>10, <2>1
  <2> QED BY ONLY <1>5, <2>1, <2>2, <2>3
<1>12. ASSUME NEW k \in 1 .. Len(q)
       PROVE  /\ Item(heap'[q[k]]) = Item(heap[q[k]])
              /\ heap'[q[k]].next = heap[q[k]].next
              /\ heap'[q[k]].prev = IF k = 1 THEN n ELSE heap[q[k]].prev
  <2>1. q[k] \in Node /\ q[k] # n /\ heap[q[k]] \in Cell
    BY <1>2, <1>5, <1>6
  <2>2. CASE k = 1
    <3>1. heap'[q[k]] = [heap[q[k]] EXCEPT !.prev = n]
      BY <1>1, <1>9, <2>1, <2>2
    <3> QED BY <2>1, <2>2, <3>1 DEF Cell, Item
  <2>3. CASE k # 1
    <3>1. heap'[q[k]] = heap[q[k]]
      BY <1>1, <1>9, <2>1, <2>3
    <3> QED BY <2>3, <3>1
  <2> QED BY <2>2, <2>3
<1>13. Leading(heap, heap', head, q, n)
  BY <1>4, <1>5, <1>8, <1>11, <1>12 DEF Leading
<1> DEFINE r == <<n>> \o q
<1>14. Prefixed(n, q, r)
  BY DEF Prefixed
<1> HIDE DEF r
<1>15. Chain(heap', n, r) /\ Prefixed(Item(heap'[n]), Items(heap, q), Items(heap', r))
  BY ONLY ListAssumption, <1>2, <1>3, <1>11, <1>13, <1>14, Prepended
<1>16. Items(heap', r) = Promised'
  BY <1>2, <1>3, <1>8, <1>11, <1>15 DEF Promised, Prefixed
<1> QED BY <1>1, <1>11, <1>15, <1>16, Returns

LEMMA CallRemoveHeadIInv ==
  ASSUME ListAssumption, IInv, CallRemoveHead
  PROVE  IInv'
<1> DEFINE c == [op |-> "removeHead"]
<1>1. Call(c) /\ pc' = "idle"
  BY DEF CallRemoveHead, Call
<1>2. heap \in [Node -> Cell] /\ call' = c
  BY <1>1, CallBegins
<1>3. PICK q \in Seq(Node) : Chain(heap, head, q) /\ before' = Items(heap, q)
  BY <1>1, CallBegins
<1>4. Len(q) \in Nat /\ \A k \in 1 .. Len(q) : q[k] # NULL /\ At(q, k) = q[k]
  BY <1>3, ChainFacts
<1>5. head = At(q, 1)
  BY <1>3 DEF Chain
<1>6. CASE head = NULL
  <2>1. heap' = heap /\ head' = head
    BY <1>6 DEF CallRemoveHead
  <2>2. Len(q) = 0
    BY <1>4, <1>5, <1>6 DEF At
  <2>3. Items(heap, q) = << >>
    BY <2>2, EmptyItems
  <2>4. Items(heap', q) = Promised'
    BY <1>2, <1>3, <2>1, <2>3 DEF Promised
  <2> QED BY <1>1, <1>2, <1>3, <2>1, <2>4, Returns
<1>7. CASE head # NULL
  <2>1. heap' = Unhead(heap, head) /\ head' = heap[head].next
    BY <1>7 DEF CallRemoveHead
  <2>2. Len(q) >= 1
    BY <1>4, <1>5, <1>7 DEF At
  <2>3. /\ 1 \in 1 .. Len(q) /\ heap[head].next = At(q, 2)
        /\ heap' \in [Node -> Cell] /\ Bypassed(heap, heap', q, 1)
    BY <1>2, <1>3, <2>1, <2>2, UnheadIs
  <2> DEFINE r == RemoveAt(q, 1)
             u == Items(heap, q)
  <2>4. Chain(heap', head', r) /\ Items(heap', r) = RemoveAt(u, 1)
    <3>1. /\ Chain(heap', IF 1 = 1 THEN At(q, 2) ELSE head, RemoveAt(q, 1))
          /\ Items(heap', RemoveAt(q, 1)) = RemoveAt(Items(heap, q), 1)
      BY ONLY ListAssumption, <1>2, <1>3, <2>3, Unlinked
    <3> QED BY ONLY <2>1, <2>3, <3>1
  <2>5. u \in Seq(Nodes(Frame)) /\ Len(u) = Len(q)
    BY <1>2, <1>3, ItemsAre
  <2> HIDE DEF r, u
  <2>6. u # << >>
    BY <2>2, <2>5
  <2>7. RemoveAt(u, 1) = Tail(u)
    BY <2>5, <2>6, RemoveFirstIsTail
  <2>8. before' = u
    BY <1>3 DEF u
  <2>9. Promised' = Tail(u)
    BY <1>2, <2>6, <2>8 DEF Promised
  <2>10. Items(heap', r) = Promised'
    BY <2>4, <2>7, <2>9
  <2> QED BY <1>1, <2>3, <2>4, <2>10, Returns
<1> QED BY <1>6, <1>7

(* The searches begin at the head, with no node behind them. *)
LEMMA CallRemoveIInv ==
  ASSUME ListAssumption, IInv, NEW x, CallRemove(x)
  PROVE  IInv'
<1> DEFINE c == [op |-> "remove", data |-> x]
<1>1. Call(c) /\ pc' = "remove" /\ cur' = head /\ UNCHANGED <<heap, head>>
  BY DEF CallRemove
<1>2. heap \in [Node -> Cell] /\ call' = c
  BY <1>1, CallBegins
<1>3. PICK q \in Seq(Node) : Chain(heap, head, q) /\ before' = Items(heap, q)
  BY <1>1, CallBegins
<1>4. 1 \in 1 .. Len(q) + 1 /\ head = At(q, 1) /\ \A j \in 1 .. 1 - 1 : heap[q[j]].data # x
  BY <1>3, SeekBegins
<1>5. Removing(q)'
  BY <1>1, <1>2, <1>3, <1>4 DEF Removing, Seeking
<1> QED BY <1>1, <1>2, <1>3, <1>5 DEF IInv, Shape

LEMMA CallUpdateRefIInv ==
  ASSUME ListAssumption, IInv, NEW x, NEW ref \in {0, 1}, CallUpdateRef(x, ref)
  PROVE  IInv'
<1> DEFINE c == [op |-> "update", data |-> x, ref |-> ref]
<1>1. Call(c) /\ pc' = "update" /\ cur' = head /\ UNCHANGED <<heap, head>>
  BY DEF CallUpdateRef
<1>2. heap \in [Node -> Cell] /\ call' = c
  BY <1>1, CallBegins
<1>3. PICK q \in Seq(Node) : Chain(heap, head, q) /\ before' = Items(heap, q)
  BY <1>1, CallBegins
<1>4. 1 \in 1 .. Len(q) + 1 /\ head = At(q, 1) /\ \A j \in 1 .. 1 - 1 : heap[q[j]].data # x
  BY <1>3, SeekBegins
<1>5. Updating(q)'
  BY <1>1, <1>2, <1>3, <1>4 DEF Updating, Seeking
<1> QED BY <1>1, <1>2, <1>3, <1>5 DEF IInv, Shape

(* clock() has moved no node yet. *)
LEMMA CallClockIInv ==
  ASSUME ListAssumption, IInv, CallClock
  PROVE  IInv'
<1> DEFINE c == [op |-> "clock"]
<1>1. Call(c) /\ pc' = "clock" /\ UNCHANGED <<heap, head>> /\ head # NULL
  BY DEF CallClock
<1>2. heap \in [Node -> Cell] /\ call' = c
  BY <1>1, CallBegins
<1>3. PICK q \in Seq(Node) : Chain(heap, head, q) /\ before' = Items(heap, q)
  BY <1>1, CallBegins
<1> DEFINE u == Items(heap, q)
<1>4. u \in Seq(Nodes(Frame)) /\ Len(u) = Len(q) /\ Len(q) \in Nat
  BY <1>2, <1>3, ItemsAre
<1>5. Len(q) >= 1
  <2>1. head = At(q, 1)
    BY <1>3 DEF Chain
  <2> QED BY <1>1, <1>4, <2>1 DEF At
<1> HIDE DEF u
<1>6. Turned(u, u, 0)
  <2>1. \A k \in 1 .. Len(u) : k <= Len(u) - 0 /\ k + 0 = k
    BY <1>4
  <2>2. \A k \in 1 .. 0 : u[k].ref = 1
    OBVIOUS
  <2> QED BY <1>4, <2>1, <2>2 DEF Turned
<1>7. before' = u /\ 0 \in 0 .. Len(u)
  BY <1>3, <1>4 DEF u
<1>8. \E t \in 0 .. Len(before') : Turned(before', u, t)
  BY ONLY <1>6, <1>7
<1>9. Chain(heap', head', q) /\ heap' \in [Node -> Cell] /\ Items(heap', q) = u /\ call'.op = "clock"
  BY <1>1, <1>2, <1>3 DEF u
<1> QED BY ONLY <1>1, <1>5, <1>8, <1>9, Sweeps

LEMMA NextIInv == ListAssumption /\ IInv /\ [Next]_vars => IInv'
<1> SUFFICES ASSUME ListAssumption, IInv, [Next]_vars PROVE IInv'
  OBVIOUS
<1>1. CASE Step
  <2>1. UNCHANGED <<call, before>>
    BY <1>1 DEF Step
  <2>2. CASE InsertWalk \/ InsertLink
    BY <2>1, <2>2, InsertWalkIInv, InsertLinkIInv
  <2>3. CASE RemoveWalk \/ RemoveIsHead \/ RemoveIsTail \/ RemoveMiddle
    BY <2>1, <2>3, RemoveWalkIInv, RemoveIsHeadIInv, RemoveIsTailIInv, RemoveMiddleIInv
  <2>4. CASE RemoveTailWalk \/ RemoveTailUnlink
    BY <2>1, <2>4, RemoveTailWalkIInv, RemoveTailUnlinkIInv
  <2>5. CASE UpdateWalk \/ UpdateFound \/ NotFound
    BY <2>1, <2>5, UpdateWalkIInv, UpdateFoundIInv, NotFoundIInv
  <2>6. CASE ClockTurn \/ ClockStop
    BY <2>1, <2>6, ClockTurnIInv, ClockStopIInv
  <2> QED BY <1>1, <2>2, <2>3, <2>4, <2>5, <2>6 DEF Step
<1>2. CASE CallRemoveHead
  BY <1>2, CallRemoveHeadIInv
<1>3. CASE CallClock
  BY <1>3, CallClockIInv
<1>4. ASSUME NEW x \in Frame, CallRemove(x) PROVE IInv'
  BY <1>4, CallRemoveIInv
<1>5. ASSUME NEW x \in Frame, NEW ref \in {0, 1}, CallInsert(x, ref) PROVE IInv'
  BY <1>5, CallInsertIInv
<1>6. ASSUME NEW x \in Frame, NEW ref \in {0, 1}, CallInsertHead(x, ref) PROVE IInv'
  BY <1>6, CallInsertHeadIInv
<1>7. ASSUME NEW x \in Frame, NEW ref \in {0, 1}, CallUpdateRef(x, ref) PROVE IInv'
  BY SMTT(30), <1>7, CallUpdateRefIInv
<1>8. CASE UNCHANGED vars
  BY <1>8 DEF vars, IInv, Shape, Idle, Inserting, Removing, RemovingTail, Updating, Clocking,
              Turning, Seeking, Promised
<1> QED BY <1>1, <1>2, <1>3, <1>4, <1>5, <1>6, <1>7, <1>8 DEF Next

-----------------------------------------------------------------------------
(* The theorems. *)

(* At every step of every call of list.c, clock_list.c and clock() the     *)
(* nodes reached from the head form one list, forth and back, of frames    *)
(* that differ, and the call has done what its loop has done so far.       *)
THEOREM Invariance == Spec => []IInv
<1>1. ListAssumption
  BY ListAssumption
<1>2. Init => IInv
  BY <1>1, InitIInv
<1>3. IInv /\ [Next]_vars => IInv'
  BY <1>1, NextIInv
<1> QED BY <1>2, <1>3, PTL DEF Spec

(* A call that returns leaves the list the operators of QueueOps say,      *)
(* which is what VM.tla takes pagetable.c's calls to do: insertion and     *)
(* removal at either end or in the middle, the reference bit, and the      *)
(* sweep of clock().                                                       *)
THEOREM CallsCompute == Spec => []CallsKeepPromise
<1>1. ListAssumption /\ IInv => CallsKeepPromise
  <2> SUFFICES ASSUME ListAssumption, IInv, pc = "idle" PROVE List(head) = Promised
    BY DEF CallsKeepPromise
  <2>1. PICK q \in Seq(Node) : Shape(q)
    BY DEF IInv
  <2>2. Chain(heap, head, q) /\ Idle(q)
    BY <2>1, LoopIs
  <2>3. List(head) = Items(heap, q)
    BY <2>2, ListIs
  <2> QED BY <2>2, <2>3 DEF Idle
<1>2. IInv => CallsKeepPromise
  BY <1>1, ListAssumption
<1> QED BY <1>2, Invariance, PTL

(* Between calls the head has no predecessor, and every node reached is    *)
(* the prev of its next: list_remove, which unlinks through prev, and the  *)
(* loops through next see the same list.                                   *)
THEOREM PointersAgree == Spec => []DoublyLinked
<1>1. ListAssumption /\ IInv => DoublyLinked
  <2> SUFFICES ASSUME ListAssumption, IInv, head # NULL
               PROVE  /\ heap[head].prev = NULL
                      /\ \A n \in Reached(head) :
                           heap[n].next # NULL => heap[heap[n].next].prev = n
    BY DEF DoublyLinked
  <2>1. PICK q \in Seq(Node) : Chain(heap, head, q)
    BY DEF IInv, Shape
  <2>2. /\ Len(q) \in Nat /\ \A k \in 1 .. Len(q) : At(q, k) = q[k]
        /\ \A k : k \notin 1 .. Len(q) => At(q, k) = NULL
    BY <2>1, ChainFacts
  <2>3. \A k \in 1 .. Len(q) : heap[q[k]].next = At(q, k + 1) /\ heap[q[k]].prev = At(q, k - 1)
    BY <2>1 DEF Chain
  <2>4. heap[head].prev = NULL
    <3>1. head = At(q, 1)
      BY <2>1 DEF Chain
    <3>2. 1 \in 1 .. Len(q) /\ 1 - 1 \notin 1 .. Len(q) /\ head = q[1]
      BY <2>2, <3>1
    <3> QED BY <2>2, <2>3, <3>2
  <2>5. Reached(head) = {q[k] : k \in 1 .. Len(q)}
    <3>1. Linked(head, q)
      BY <2>1, <2>3 DEF Chain, Linked
    <3>2. Len(q) < MaxNodes
      BY <2>1, ChainShort
    <3> QED BY <3>1, <3>2, ReachedIs
  <2>6. ASSUME NEW k \in 1 .. Len(q), heap[q[k]].next # NULL
        PROVE  heap[heap[q[k]].next].prev = q[k]
    <3>1. k + 1 \in 1 .. Len(q) /\ k + 1 - 1 = k
      BY <2>2, <2>3, <2>6
    <3>2. heap[q[k]].next = q[k + 1]
      BY <2>2, <2>3, <3>1
    <3> QED BY <2>2, <2>3, <3>1, <3>2
  <2> QED BY <2>4, <2>5, <2>6
<1>2. IInv => DoublyLinked
  BY <1>1, ListAssumption
<1> QED BY <1>2, Invariance, PTL

(* list_remove calls list_remove_tail only on a list of two nodes or more, *)
(* so the missing test of list_remove_tail is never missed.                *)
THEOREM NeverNull == Spec => []NoNullDereference
<1>1. IInv => NoNullDereference
  BY LoopIs DEF IInv, NoNullDereference
<1> QED BY <1>1, Invariance, PTL

-----------------------------------------------------------------------------
(* The variant of the calls. *)

(* What is reached from the head, and from the cursor. *)
Walks ==
  \A q : Chain(heap, head, q) =>
    /\ Reached(head) = {q[k] : k \in 1 .. Len(q)}
    /\ \A i \in 1 .. Len(q) + 1 : cur = At(q, i) => Reached(cur) = {q[k] : k \in i .. Len(q)}

LEMMA WalksHold == ListAssumption => Walks
<1> SUFFICES ASSUME ListAssumption, NEW q, Chain(heap, head, q)
             PROVE  /\ Reached(head) = {q[k] : k \in 1 .. Len(q)}
                    /\ \A i \in 1 .. Len(q) + 1 : cur = At(q, i) => Reached(cur) = {q[k] : k \in i .. Len(q)}
  BY DEF Walks
<1>1. q \in Seq(Node) /\ Len(q) \in Nat /\ Len(q) < MaxNodes
  <2>1. Len(q) \in Nat /\ Len(q) < MaxNodes
    BY ChainShort
  <2> QED BY <2>1 DEF Chain
<1>2. Linked(head, q)
  BY DEF Chain, Linked
<1>3. Reached(head) = {q[k] : k \in 1 .. Len(q)}
  BY ONLY ListAssumption, <1>1, <1>2, ReachedIs
<1>4. ASSUME NEW i \in 1 .. Len(q) + 1, cur = At(q, i)
      PROVE  Reached(cur) = {q[k] : k \in i .. Len(q)}
  <2> DEFINE s == SubSeq(q, i, Len(q))
  <2>1. /\ s \in Seq(Node) /\ Len(s) = Len(q) - i + 1 /\ Len(s) <= Len(q)
        /\ \A k \in 1 .. Len(s) : k + i - 1 \in 1 .. Len(q) /\ s[k] = q[k + i - 1]
    <3>1. i \in Nat /\ i >= 1 /\ i <= Len(q) + 1
      BY <1>1
    <3>2. \A k \in i .. Len(q) : q[k] \in Node
      BY <1>1, AtIs
    <3>3. s = [k \in 1 .. Len(q) - i + 1 |-> q[k + i - 1]]
      BY <1>1, <3>1
    <3>4. \A k \in 1 .. Len(q) - i + 1 : k + i - 1 \in i .. Len(q)
      BY <1>1, <3>1
    <3>5. Len(q) - i + 1 \in Nat
      BY <1>1, <3>1
    <3> HIDE DEF s
    <3>6. s \in Seq(Node) /\ Len(s) = Len(q) - i + 1
      BY ONLY <3>2, <3>3, <3>4, <3>5
    <3>7. \A k \in 1 .. Len(s) : k + i - 1 \in 1 .. Len(q)
      BY ONLY <1>1, <3>1, <3>6
    <3> QED BY ONLY <1>1, <3>1, <3>3, <3>6, <3>7
  <2> HIDE DEF s
  <2>2. \A j \in 1 .. Len(s) + 1 : At(s, j) = At(q, j + i - 1)
    <3> SUFFICES ASSUME NEW j \in 1 .. Len(s) + 1 PROVE At(s, j) = At(q, j + i - 1)
      OBVIOUS
    <3>1. CASE j \in 1 .. Len(s)
      BY <2>1, <3>1 DEF At
    <3>2. CASE j \notin 1 .. Len(s)
      <4>1. j + i - 1 \notin 1 .. Len(q)
        BY ONLY <1>1, <2>1, <3>2, i \in 1 .. Len(q) + 1, j \in 1 .. Len(s) + 1
      <4> QED BY <3>2, <4>1 DEF At
    <3> QED BY <3>1, <3>2
  <2>3. Linked(cur, s)
    <3>1. cur = At(s, 1)
      <4>1. 1 \in 1 .. Len(s) + 1 /\ 1 + i - 1 = i
        BY <1>1, <2>1
      <4> QED BY <1>4, <2>2, <4>1
    <3>2. ASSUME NEW k \in 1 .. Len(s) PROVE heap[s[k]].next = At(s, k + 1)
      <4>1. heap[s[k]].next = At(q, k + i - 1 + 1)
        BY <2>1 DEF Chain
      <4>2. k + 1 \in 1 .. Len(s) + 1 /\ k + 1 + i - 1 = k + i - 1 + 1
        BY ONLY <1>1, <2>1, i \in 1 .. Len(q) + 1, k \in 1 .. Len(s)
      <4>3. At(s, k + 1) = At(q, k + 1 + i - 1)
        BY ONLY <2>2, <4>2
      <4> QED BY ONLY <4>1, <4>2, <4>3
    <3> QED BY <2>1, <3>1, <3>2 DEF Linked
  <2>4. Reached(cur) = {s[k] : k \in 1 .. Len(s)}
    <3>1. Len(s) < MaxNodes
      BY ONLY <1>1, <2>1, ListAssumption, i \in 1 .. Len(q) + 1 DEF ListAssumption
    <3> QED BY ONLY ListAssumption, <2>1, <2>3, <3>1, ReachedIs
  <2>5. \A k \in i .. Len(q) : k - i + 1 \in 1 .. Len(s) /\ s[k - i + 1] = q[k]
    <3> SUFFICES ASSUME NEW k \in i .. Len(q) PROVE k - i + 1 \in 1 .. Len(s) /\ s[k - i + 1] = q[k]
      OBVIOUS
    <3>1. k - i + 1 \in 1 .. Len(s) /\ k - i + 1 + i - 1 = k
      BY ONLY <1>1, <2>1, i \in 1 .. Len(q) + 1, k \in i .. Len(q)
    <3> QED BY <2>1, <3>1
  <2>6. \A k \in 1 .. Len(s) : k + i - 1 \in i .. Len(q)
    BY ONLY <1>1, <2>1, i \in 1 .. Len(q) + 1
  <2>7. \A k \in 1 .. Len(s) : \E j \in i .. Len(q) : s[k] = q[j]
    BY <2>1, <2>6
  <2>8. \A j \in i .. Len(q) : \E k \in 1 .. Len(s) : q[j] = s[k]
    BY <2>5
  <2>9. Reached(cur) \subseteq {q[k] : k \in i .. Len(q)}
    BY ONLY <2>4, <2>7
  <2>10. {q[k] : k \in i .. Len(q)} \subseteq Reached(cur)
    BY ONLY <2>4, <2>8
  <2> QED BY ONLY <2>9, <2>10
<1> QED BY <1>3, <1>4

(* The cursor goes to the next node. *)
LEMMA WalkNearer ==
  ASSUME ListAssumption, Walks, Walks', NEW q, Chain(heap, head, q), NEW i \in 1 .. Len(q), cur = q[i],
         cur' = heap[cur].next, UNCHANGED <<heap, new, head, pc, call>>
  PROVE  Nearer
<1>1. /\ Len(q) \in Nat /\ \A k \in 1 .. Len(q) : At(q, k) = q[k]
      /\ \A j, k \in 1 .. Len(q) : q[j] = q[k] => j = k
  BY ChainFacts
<1>2. i \in 1 .. Len(q) + 1 /\ i + 1 \in 1 .. Len(q) + 1
  BY <1>1
<1>3. cur = At(q, i) /\ cur' = At(q, i + 1)
  BY <1>1 DEF Chain
<1>4. Chain(heap', head', q)
  OBVIOUS
<1>5. Reached(head)' = Reached(head)
  BY <1>4 DEF Walks
<1>6. ToTurn' = ToTurn
  BY <1>5 DEF ToTurn
<1>7. Reached(cur) = {q[k] : k \in i .. Len(q)} /\ Reached(cur)' = {q[k] : k \in i + 1 .. Len(q)}
  BY <1>2, <1>3, <1>4 DEF Walks
<1>8. Fewer(Reached(cur)', Reached(cur))
  <2>1. i \in i .. Len(q) /\ \A k \in i + 1 .. Len(q) : k \in i .. Len(q) /\ k # i /\ k \in 1 .. Len(q)
    BY <1>1
  <2>2. q[i] \in Reached(cur) /\ q[i] \notin Reached(cur)'
    BY <1>1, <1>7, <2>1
  <2>3. Reached(cur)' \subseteq Reached(cur)
    BY <1>7, <2>1
  <2> QED BY <2>2, <2>3 DEF Fewer
<1>9. LoopsLeft' = LoopsLeft
  BY DEF LoopsLeft
<1> QED BY <1>6, <1>8, <1>9 DEF Nearer

(* A loop of list_remove or clock_list_update_ref is left. *)
LEMMA LeaveNearer ==
  ASSUME call.op # "clock", UNCHANGED call, LoopsLeft' < LoopsLeft
  PROVE  Nearer
BY DEF Nearer, ToTurn

(* list_insert_tail's node becomes part of the list with the bit it has. *)
LEMMA InsertLinkNearer ==
  ASSUME ListAssumption, IInv, Walks, Walks', InsertLink, UNCHANGED call
  PROVE  Nearer
<1>1. PICK q \in Seq(Node) : Shape(q)
  BY DEF IInv
<1>2. Chain(heap, head, q) /\ Inserting(q) /\ heap \in [Node -> Cell]
  BY <1>1, LoopIs DEF IInv, InsertLink
<1>3. LoopsLeft' < LoopsLeft
  BY DEF InsertLink, LoopsLeft
<1> DEFINE r == Append(q, new)
<1>4. /\ Linking(heap, heap', q, new) /\ Item(heap'[new]) = Item(heap[new])
      /\ Chain(heap', head', r)
  BY <1>2, InsertLinkIs
<1>5. /\ Len(q) \in Nat /\ Len(r) = Len(q) + 1 /\ r[Len(q) + 1] = new
      /\ (\A k \in 1 .. Len(q) : r[k] = q[k]) /\ new \in Node /\ NULL \notin Node
      /\ \A k \in 1 .. Len(q) : q[k] \in Node
  <2>1. q \in Seq(Node) /\ new \in Node
    BY <1>2, <1>4 DEF Chain, Linking
  <2>2. Len(q) \in Nat /\ NULL \notin Node /\ \A k \in 1 .. Len(q) : q[k] \in Node
    BY <2>1, AtIs
  <2> QED BY <2>1, <2>2, AppendProperties
<1> HIDE DEF r
<1>6. /\ heap'[new].ref = heap[new].ref
      /\ \A k \in 1 .. Len(q) : heap'[q[k]].ref = heap[q[k]].ref
  <2>1. heap'[new].ref = heap[new].ref
    BY <1>4, SameItem
  <2>2. ASSUME NEW k \in 1 .. Len(q) PROVE heap'[q[k]].ref = heap[q[k]].ref
    <3>1. Item(heap'[q[k]]) = Item(heap[q[k]])
      BY <1>4 DEF Linking
    <3> QED BY ONLY <3>1, SameItem
  <2> QED BY <2>1, <2>2
<1>7. /\ Reached(head) = {q[k] : k \in 1 .. Len(q)}
      /\ Reached(head)' = {r[k] : k \in 1 .. Len(r)}
  BY <1>2, <1>4 DEF Walks
<1>8. Reached(head)' = Reached(head) \cup {new} /\ NULL \notin Reached(head)'
  <2>1. \A k \in 1 .. Len(r) : k \in 1 .. Len(q) \/ k = Len(q) + 1
    BY <1>5
  <2>2. Len(q) + 1 \in 1 .. Len(r) /\ \A k \in 1 .. Len(q) : k \in 1 .. Len(r)
    BY <1>5
  <2>3. \A m : m \in Reached(head)' <=> m \in Reached(head) \/ m = new
    BY <1>5, <1>7, <2>1, <2>2
  <2> QED BY <1>5, <1>7, <2>3
<1>9. new' = NULL
  BY DEF InsertLink
<1>10. \A m \in Reached(head)' : heap'[m].ref = heap[m].ref
  BY <1>6, <1>7, <1>8
<1>11. (Reached(head)' \cup {new'}) \ {NULL} = (Reached(head) \cup {new}) \ {NULL}
  BY <1>5, <1>8, <1>9
<1>12. ToTurn' = ToTurn
  <2>1. (Reached(head)' \cup {new'}) \ {NULL} = Reached(head)'
    BY <1>8, <1>9
  <2> QED BY <1>10, <1>11, <2>1 DEF ToTurn
<1> QED BY <1>3, <1>12 DEF Nearer

(* The node that was at the head is not referenced any more, or not there. *)
LEMMA ClockTurnNearer ==
  ASSUME ListAssumption, IInv, Walks, Walks', ClockTurn, UNCHANGED call
  PROVE  Nearer
<1>1. PICK q \in Seq(Node) : Shape(q)
  BY DEF IInv
<1>2. Chain(heap, head, q) /\ Clocking(q)
  BY <1>1, LoopIs DEF ClockTurn
<1> DEFINE hp == Unhead(heap, head)
           h == heap[head].next
           x == heap[head].data
           r == RemoveAt(q, 1)
           n == new_node(h)
<1>3. /\ heap \in [Node -> Cell] /\ heap[head].ref = 1 /\ call.op = "clock"
      /\ InsertTail(hp, h, x, 0, "clock")
  BY <1>2 DEF IInv, ClockTurn, Clocking, Turning
<1>4. /\ Len(q) \in Nat /\ Len(q) >= 1 /\ \A k \in 1 .. Len(q) : q[k] \in Node /\ q[k] # NULL
      /\ \A j, k \in 1 .. Len(q) : q[j] = q[k] => j = k
  <2>1. /\ q # << >> /\ Len(q) \in Nat /\ \A k \in 1 .. Len(q) : q[k] \in Node /\ q[k] # NULL
        /\ \A j, k \in 1 .. Len(q) : q[j] = q[k] => j = k
    BY <1>2, ChainFacts DEF Clocking
  <2> QED BY <1>1, <2>1, EmptySeq
<1>5. Unheaded(q, hp, h, x, r, n) /\ n = new_node(h) /\ 0 \in {0, 1}
  BY DEF Unheaded
<1> HIDE DEF hp, h, x, r, n
<1>6. Turnable(q, hp, h, x, r, n)
  BY ONLY ListAssumption, <1>2, <1>3, <1>4, <1>5, TurnIs
<1>7. /\ hp \in [Node -> Cell] /\ Chain(hp, h, r) /\ x \in Frame /\ Outside(hp, r, x, n)
      /\ 1 \in 1 .. Len(q) /\ head = q[1]
      /\ \A k \in 1 .. Len(r) : k + 1 \in 1 .. Len(q) /\ r[k] = q[k + 1] /\ Item(hp[r[k]]) = Item(heap[q[k + 1]])
  BY <1>6 DEF Turnable
<1>8. Entering(hp, h, r, x, 0, "clock", n)
  BY ONLY ListAssumption, <1>3, <1>5, <1>7, InsertTailIs
<1>9. (Reached(head)' \cup {new'}) \ {NULL} \subseteq {r[k] : k \in 1 .. Len(r)} \cup {n}
  <2>1. CASE h = NULL
    <3>1. Len(r) = 0 /\ head' = n /\ new' = NULL /\ Chain(heap', n, Append(r, n))
      BY <1>8, <2>1 DEF Entering
    <3>2. Reached(head)' = {Append(r, n)[k] : k \in 1 .. Len(Append(r, n))}
      BY <3>1 DEF Walks
    <3>3. r \in Seq(Node) /\ n \in Node
      BY <1>7 DEF Chain, Outside
    <3>4. Len(Append(r, n)) = 1 /\ Append(r, n)[1] = n
      <4> HIDE DEF r
      <4>1. Len(Append(r, n)) = Len(r) + 1 /\ Append(r, n)[Len(r) + 1] = n
        BY ONLY <3>3, AppendProperties
      <4> QED BY ONLY <3>1, <4>1
    <3>5. \A k \in 1 .. 1 : k = 1
      OBVIOUS
    <3> QED BY ONLY <3>1, <3>2, <3>4, <3>5
  <2>2. CASE h # NULL
    <3>1. head' = h /\ new' = n /\ Chain(heap', h, r)
      BY <1>8, <2>2 DEF Entering
    <3>2. Reached(head)' = {r[k] : k \in 1 .. Len(r)}
      BY <3>1 DEF Walks
    <3> QED BY ONLY <3>1, <3>2
  <2> QED BY <2>1, <2>2
<1>10. heap'[n].ref = 0
  BY <1>8 DEF Entering
<1>11. \A k \in 1 .. Len(r) : heap'[r[k]].ref = heap[q[k + 1]].ref
  <2> SUFFICES ASSUME NEW k \in 1 .. Len(r) PROVE heap'[r[k]].ref = heap[q[k + 1]].ref
    OBVIOUS
  <2>1. heap'[r[k]] = hp[r[k]]
    BY <1>8 DEF Entering
  <2>2. Item(hp[r[k]]) = Item(heap[q[k + 1]])
    BY <1>7
  <2> QED BY ONLY <2>1, <2>2, SameItem
<1>12. Reached(head) = {q[k] : k \in 1 .. Len(q)}
  BY <1>2 DEF Walks
<1>13. ToTurn' \subseteq ToTurn
  <2> SUFFICES ASSUME NEW m \in ToTurn' PROVE m \in ToTurn
    OBVIOUS
  <2>1. m \in (Reached(head)' \cup {new'}) \ {NULL} /\ heap'[m].ref = 1
    BY <1>3 DEF ToTurn
  <2>2. PICK k \in 1 .. Len(r) : m = r[k]
    <3>1. m # n
      BY ONLY <1>10, <2>1
    <3> QED BY ONLY <1>9, <2>1, <3>1
  <2>3. k + 1 \in 1 .. Len(q) /\ m = q[k + 1] /\ heap[m].ref = 1
    BY <1>7, <1>11, <2>1, <2>2
  <2>4. m \in Reached(head) /\ m # NULL
    BY <1>4, <1>12, <2>3
  <2> QED BY <1>3, <2>3, <2>4 DEF ToTurn
<1>14. head \in ToTurn /\ head \notin ToTurn'
  <2>1. head \in Reached(head) /\ head # NULL
    BY <1>4, <1>7, <1>12
  <2>2. head \in ToTurn
    BY <1>3, <2>1 DEF ToTurn
  <2>3. ASSUME head \in ToTurn' PROVE FALSE
    <3>1. head \in (Reached(head)' \cup {new'}) \ {NULL} /\ heap'[head].ref = 1
      BY <1>3, <2>3 DEF ToTurn
    <3>2. PICK k \in 1 .. Len(r) : head = r[k]
      <4>1. head # n
        BY ONLY <1>10, <3>1
      <4> QED BY ONLY <1>9, <3>1, <4>1
    <3>3. k + 1 \in 1 .. Len(q) /\ q[k + 1] = q[1] /\ k + 1 # 1
      <4>1. k + 1 # 1
        BY k \in 1 .. Len(r)
      <4> QED BY <1>7, <3>2, <4>1
    <3> QED BY <1>4, <1>7, <3>3
  <2> QED BY <2>2, <2>3
<1> QED BY <1>13, <1>14 DEF Nearer, Fewer

LEMMA ClockStopNearer ==
  ASSUME IInv, Walks, Walks', ClockStop, UNCHANGED call
  PROVE  Nearer
<1>1. PICK q \in Seq(Node) : Chain(heap, head, q)
  BY DEF IInv, Shape
<1>2. UNCHANGED <<heap, head, new>>
  BY DEF ClockStop
<1>3. Chain(heap', head', q)
  BY <1>1, <1>2
<1>4. Reached(head)' = Reached(head)
  BY <1>1, <1>3 DEF Walks
<1>5. ToTurn' = ToTurn
  BY <1>2, <1>4 DEF ToTurn
<1>6. LoopsLeft' < LoopsLeft
  BY DEF ClockStop, LoopsLeft
<1> QED BY <1>5, <1>6 DEF Nearer

LEMMA StepNearer ==
  ASSUME ListAssumption, IInv, Walks, Walks', Step
  PROVE  Nearer
<1>1. UNCHANGED call
  BY DEF Step
<1>2. PICK q \in Seq(Node) : Shape(q)
  BY DEF IInv
<1>3. Chain(heap, head, q)
  BY <1>2 DEF Shape
<1>4. CASE InsertWalk
  <2>1. Inserting(q)
    BY <1>2, <1>4, LoopIs DEF InsertWalk
  <2>2. PICK i \in 1 .. Len(q) : cur = q[i]
    BY <2>1 DEF Inserting
  <2>3. cur' = heap[cur].next /\ UNCHANGED <<heap, new, head, pc, call>>
    BY <1>1, <1>4 DEF InsertWalk
  <2> QED BY ONLY ListAssumption, Walks, Walks', <1>3, <2>2, <2>3, WalkNearer
<1>5. CASE RemoveTailWalk
  <2>1. RemovingTail(q)
    BY <1>2, <1>5, LoopIs DEF RemoveTailWalk
  <2>2. PICK i \in 1 .. Len(q) : cur = q[i]
    BY <2>1 DEF RemovingTail
  <2>3. cur' = heap[cur].next /\ UNCHANGED <<heap, new, head, pc, call>>
    BY <1>1, <1>5 DEF RemoveTailWalk
  <2> QED BY ONLY ListAssumption, Walks, Walks', <1>3, <2>2, <2>3, WalkNearer
<1>6. CASE RemoveWalk \/ UpdateWalk
  <2>1. /\ cur' = heap[cur].next /\ UNCHANGED <<heap, new, head, pc, call>>
        /\ cur # NULL /\ heap[cur].data # call.data
    BY <1>1, <1>6 DEF RemoveWalk, UpdateWalk
  <2>2. Removing(q) \/ Updating(q)
    BY <1>2, <1>6, LoopIs DEF RemoveWalk, UpdateWalk
  <2>3. PICK i \in 1 .. Len(q) + 1 : Seeking(q, call.data, i)
    BY <2>2 DEF Removing, Updating
  <2>4. i \in 1 .. Len(q) /\ cur = q[i]
    BY <1>3, <2>1, <2>3, SeekNext
  <2> QED BY ONLY ListAssumption, Walks, Walks', <1>3, <2>1, <2>4, WalkNearer
<1>7. CASE RemoveIsHead \/ RemoveIsTail \/ RemoveMiddle \/ RemoveTailUnlink \/ UpdateFound \/ NotFound
  <2>1. call.op # "clock"
    <3>1. Removing(q) \/ RemovingTail(q) \/ Updating(q)
      BY <1>2, <1>7, LoopIs DEF RemoveIsHead, RemoveIsTail, RemoveMiddle, Found, RemoveTailUnlink, UpdateFound, NotFound
    <3> QED BY <3>1 DEF Removing, RemovingTail, Updating
  <2>2. LoopsLeft' < LoopsLeft
    BY <1>7 DEF RemoveIsHead, RemoveIsTail, RemoveMiddle, Found, RemoveTailUnlink, UpdateFound, NotFound, LoopsLeft
  <2> QED BY <1>1, <2>1, <2>2, LeaveNearer
<1>8. CASE InsertLink
  BY <1>1, <1>8, InsertLinkNearer
<1>9. CASE ClockTurn
  BY <1>1, <1>9, ClockTurnNearer
<1>10. CASE ClockStop
  BY <1>1, <1>10, ClockStopNearer
<1> QED BY <1>4, <1>5, <1>6, <1>7, <1>8, <1>9, <1>10 DEF Step

(* A step of a call turns a referenced node, leaves a loop or leaves a     *)
(* node behind: no loop of list.c, clock_list.c or clock() runs for ever,  *)
(* however long the list and whichever of its nodes are referenced.        *)
THEOREM CallsAdvance == Spec => EveryStepCounts
<1>1. Walks
  BY ListAssumption, WalksHold
<1>2. IInv /\ Walks /\ Walks' => [Step => Nearer]_vars
  BY ListAssumption, StepNearer
<1> QED BY <1>1, <1>2, Invariance, PTL DEF EveryStepCounts
===============================================================================
