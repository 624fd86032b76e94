-------------------------- MODULE WebServerProofs --------------------------
(***************************************************************************)
(* The semaphores and the lock of WebServer.tla, for any number of slots,  *)
(* workers, descriptors and connections, with and without crashes.         *)
(*                                                                         *)
(* The slots are conserved because each thread is between its wait and its *)
(* post or it is not; so the count of such threads is followed step by     *)
(* step.  That a worker is started only in a place where none was before   *)
(* (Unborn) keeps a thread from being set back to its start with a token   *)
(* in its hands.                                                           *)
(***************************************************************************)
EXTENDS WebServer, FiniteSetTheorems, TLAPS

Label  == {"bind", "accept", "wait", "lock", "critical", "post", "process",
           "opened", "serving", "dead", "unborn"}
Inside == {"lock", "critical", "post"}

(* The threads that hold a token when their program counters are p. *)
Holders(p) == {t \in Thread : p[t] \in Inside}

Types ==
  /\ sem_empty \in Nat
  /\ sem_full \in Nat
  /\ mutex \in Thread \cup {Nobody}
  /\ request \in [Slot -> Entry]
  /\ req \in [Thread -> Entry]
  /\ pc \in [Thread -> Label]
  /\ fdTable \in [Fd -> -1 .. MaxConn]
  /\ accepted \in 0 .. MaxConn
  /\ unread \subseteq 0 .. MaxConn
  /\ reading \in [Worker -> -1 .. MaxConn]
  /\ mainPc \in {"join", "loop", "returned"}
  /\ mainI \in 1 .. numThread + 1
  /\ pool \in [1 .. numThread -> Worker]
  /\ exited \in BOOLEAN
  /\ untaken \subseteq 0 .. MaxConn

OneInside == \A t \in Thread : pc[t] = "critical" <=> mutex = t
Tokens    == sem_empty + sem_full + Cardinality(Holders(pc)) = MAX_REQUEST
Unborn    == \A k \in mainI .. numThread : pc[numThread + k] = "unborn"

IInv == Types /\ OneInside /\ Tokens /\ Unborn

-----------------------------------------------------------------------------
(* The threads, and so those that hold a token, are finitely many. *)
LEMMA HoldersFinite ==
  ASSUME NEW p PROVE IsFiniteSet(Holders(p)) /\ Cardinality(Holders(p)) \in Nat
<1>1. IsFiniteSet(Worker)
  BY FS_Interval, WebServerAssumption, SMT DEF Worker
<1>2. IsFiniteSet(Worker \cup {Listener})
  BY <1>1, FS_AddElement
<1>3. Holders(p) \in SUBSET (Worker \cup {Listener})
  BY DEF Holders, Thread
<1>4. IsFiniteSet(Holders(p))
  BY <1>2, <1>3, FS_Subset
<1> QED BY <1>4, FS_CardinalityType

(* A thread that goes in takes one token, one that comes out gives it      *)
(* back, and any other step leaves the number as it was.                   *)
LEMMA HoldersStep ==
  ASSUME NEW p \in [Thread -> Label], NEW t \in Thread, NEW to \in Label
  PROVE  Cardinality(Holders([p EXCEPT ![t] = to])) =
           Cardinality(Holders(p)) + (IF to \in Inside THEN 1 ELSE 0)
                                   - (IF p[t] \in Inside THEN 1 ELSE 0)
<1> DEFINE H == Holders(p)  K == Holders([p EXCEPT ![t] = to])
<1>1. IsFiniteSet(H) /\ Cardinality(H) \in Nat
  BY HoldersFinite
<1>2. t \in H <=> p[t] \in Inside
  BY DEF Holders
<1>3. CASE to \in Inside
  <2>1. K = H \cup {t}
    BY <1>3 DEF Holders
  <2>2. Cardinality(H \cup {t}) = IF t \in H THEN Cardinality(H) ELSE Cardinality(H) + 1
    BY <1>1, FS_AddElement
  <2> HIDE DEF H, K
  <2>3. Cardinality(K) = Cardinality(H) + 1 - (IF p[t] \in Inside THEN 1 ELSE 0)
    BY <1>1, <1>2, <2>1, <2>2, SMT
  <2> QED BY <1>3, <2>3 DEF H, K
<1>4. CASE to \notin Inside
  <2>1. K = H \ {t}
    BY <1>4 DEF Holders
  <2>2. Cardinality(H \ {t}) = IF t \in H THEN Cardinality(H) - 1 ELSE Cardinality(H)
    BY <1>1, FS_RemoveElement
  <2> HIDE DEF H, K
  <2>3. Cardinality(K) = Cardinality(H) + 0 - (IF p[t] \in Inside THEN 1 ELSE 0)
    BY <1>1, <1>2, <2>1, <2>2, SMT
  <2> QED BY <1>4, <2>3 DEF H, K
<1> QED BY <1>3, <1>4

-----------------------------------------------------------------------------
LEMMA Initially == Init => IInv
<1> SUFFICES ASSUME Init PROVE IInv
  OBVIOUS
<1>1. Types
  <2>1. Unset \in Entry
    BY WebServerAssumption DEF Unset, Entry, Fd, Stdin
  <2>2. pc \in [Thread -> Label] /\ req \in [Thread -> Entry] /\ request \in [Slot -> Entry]
    BY <2>1 DEF Init, Label
  <2>3. fdTable \in [Fd -> -1 .. MaxConn] /\ reading \in [Worker -> -1 .. MaxConn]
    BY WebServerAssumption DEF Init, Fd, Stdin, Closed
  <2>4. pool \in [1 .. numThread -> Worker]
    BY WebServerAssumption DEF Init, Worker
  <2>5. /\ sem_empty \in Nat /\ sem_full \in Nat /\ mutex \in Thread \cup {Nobody}
        /\ accepted \in 0 .. MaxConn /\ mainPc \in {"join", "loop", "returned"}
        /\ mainI \in 1 .. numThread + 1 /\ exited \in BOOLEAN /\ untaken \subseteq 0 .. MaxConn
        /\ unread \subseteq 0 .. MaxConn
    <3>1. /\ sem_empty = MAX_REQUEST /\ sem_full = 0 /\ mutex = Nobody /\ accepted = 0
          /\ mainPc = "join" /\ mainI = 1 /\ exited = FALSE /\ untaken = {} /\ unread = {}
      BY DEF Init
    <3>2. exited \in BOOLEAN /\ untaken \subseteq 0 .. MaxConn /\ unread \subseteq 0 .. MaxConn
      BY ONLY <3>1, Zenon
    <3>3. mutex \in Thread \cup {Nobody} /\ mainPc \in {"join", "loop", "returned"}
      BY ONLY <3>1, Zenon
    <3>4. /\ sem_empty \in Nat /\ sem_full \in Nat /\ accepted \in 0 .. MaxConn
          /\ mainI \in 1 .. numThread + 1
      BY ONLY <3>1, WebServerAssumption
    <3> QED BY ONLY <3>2, <3>3, <3>4
  <2> QED BY ONLY <2>2, <2>3, <2>4, <2>5 DEF Types
<1>2. OneInside
  BY WebServerAssumption DEF Init, OneInside, Thread, Listener, Worker, Nobody
<1>3. Tokens
  <2>1. Holders(pc) = {}
    BY DEF Init, Holders, Inside
  <2>2. Cardinality(Holders(pc)) = 0
    BY <2>1, FS_EmptySet
  <2>3. sem_empty = MAX_REQUEST /\ sem_full = 0
    BY DEF Init
  <2> QED BY ONLY <2>2, <2>3, WebServerAssumption DEF Tokens
<1>4. Unborn
  BY WebServerAssumption DEF Init, Unborn, Thread, Listener, Worker
<1> QED BY <1>1, <1>2, <1>3, <1>4 DEF IInv

-----------------------------------------------------------------------------
(* What a thread's step from one label to another leaves of the invariant: *)
(* everything about pc but the tokens and the lock.                        *)
LEMMA GotoStep ==
  ASSUME IInv, NEW t \in Thread, NEW from \in Label, NEW to \in Label,
         from # "unborn", Goto(t, from, to), UNCHANGED control
  PROVE  /\ pc' \in [Thread -> Label]
         /\ pc[t] = from
         /\ \A u \in Thread : pc'[u] = IF u = t THEN to ELSE pc[u]
         /\ Unborn'
         /\ Cardinality(Holders(pc')) =
              Cardinality(Holders(pc)) + (IF to \in Inside THEN 1 ELSE 0)
                                       - (IF from \in Inside THEN 1 ELSE 0)
         /\ Cardinality(Holders(pc)) \in Nat
<1>1. pc \in [Thread -> Label] /\ pc[t] = from /\ pc' = [pc EXCEPT ![t] = to]
  BY DEF IInv, Types, Goto
<1>2. Unborn'
  <2>1. mainI' = mainI
    BY DEF control
  <2>2. \A k \in mainI .. numThread : numThread + k \in Thread
    BY WebServerAssumption DEF IInv, Types, Thread, Worker
  <2> QED BY <1>1, <2>1, <2>2 DEF IInv, Unborn
<1>3. Cardinality(Holders(pc')) =
        Cardinality(Holders(pc)) + (IF to \in Inside THEN 1 ELSE 0)
                                 - (IF from \in Inside THEN 1 ELSE 0)
  BY <1>1, HoldersStep
<1> QED BY <1>1, <1>2, <1>3, HoldersFinite

(* A step that neither enters nor leaves the critical section and does not *)
(* touch the lock.                                                         *)
LEMMA LockKept ==
  ASSUME IInv, NEW t \in Thread, NEW from \in Label \ {"critical", "unborn"},
         NEW to \in Label \ {"critical"}, Goto(t, from, to), UNCHANGED mutex
  PROVE  OneInside'
BY DEF IInv, Types, OneInside, Goto

(* The lock is taken by one thread when no other has it, and given up by   *)
(* the one that has it.                                                    *)
LEMMA LockStep ==
  ASSUME IInv, NEW t \in Thread, Lock(t) PROVE IInv'
<1>1. /\ Goto(t, "lock", "critical") /\ mutex = Nobody /\ mutex' = t
      /\ UNCHANGED <<sem_empty, sem_full, request, req, sockets, control,
                     exited, untaken>>
  BY DEF Lock
<1>2. "lock" \in Label /\ "critical" \in Label /\ "lock" \in Inside /\ "critical" \in Inside
  BY DEF Label, Inside
<1>3. /\ pc' \in [Thread -> Label] /\ Unborn' /\ pc[t] = "lock"
      /\ \A u \in Thread : pc'[u] = IF u = t THEN "critical" ELSE pc[u]
      /\ Cardinality(Holders(pc')) = Cardinality(Holders(pc)) + 1 - 1
      /\ Cardinality(Holders(pc)) \in Nat
  BY <1>1, <1>2, GotoStep, Zenon
<1>4. Types'
  BY <1>1, <1>3 DEF IInv, Types, control, sockets
<1>5. OneInside'
  <2>1. \A u \in Thread : u # Nobody
    BY WebServerAssumption DEF Thread, Listener, Worker, Nobody
  <2> QED BY <1>1, <1>3, <2>1 DEF IInv, OneInside
<1>6. Tokens'
  BY <1>1, <1>3 DEF IInv, Types, Tokens
<1> QED BY <1>3, <1>4, <1>5, <1>6 DEF IInv

-----------------------------------------------------------------------------
(* What does not depend on pc, in the next state. *)
OtherTypes ==
  /\ mutex \in Thread \cup {Nobody}
  /\ request \in [Slot -> Entry]
  /\ req \in [Thread -> Entry]
  /\ fdTable \in [Fd -> -1 .. MaxConn]
  /\ accepted \in 0 .. MaxConn
  /\ unread \subseteq 0 .. MaxConn
  /\ reading \in [Worker -> -1 .. MaxConn]
  /\ exited \in BOOLEAN
  /\ untaken \subseteq 0 .. MaxConn

LEMMA OtherTypesKept ==
  ASSUME IInv,
         UNCHANGED <<mutex, request, req, sockets, exited, untaken>>
  PROVE  OtherTypes'
BY DEF IInv, Types, OtherTypes, sockets

(* A step outside: no token is held before it or after it. *)
LEMMA OutsideStep ==
  ASSUME IInv, NEW t \in Thread, NEW from \in Label \ {"unborn"}, NEW to \in Label,
         from \notin Inside, to \notin Inside, Goto(t, from, to),
         UNCHANGED <<sem_empty, sem_full, mutex, control>>, OtherTypes'
  PROVE  IInv'
<1>1. /\ pc' \in [Thread -> Label] /\ Unborn'
      /\ Cardinality(Holders(pc')) = Cardinality(Holders(pc)) + 0 - 0
      /\ Cardinality(Holders(pc)) \in Nat
  BY GotoStep, Zenon
<1>2. Types'
  BY <1>1 DEF IInv, Types, OtherTypes, control
<1>3. OneInside'
  <2>1. from # "critical" /\ to # "critical"
    BY DEF Inside
  <2> QED BY <2>1, LockKept
<1>4. Tokens'
  BY <1>1 DEF IInv, Types, Tokens
<1> QED BY <1>1, <1>2, <1>3, <1>4 DEF IInv

(* sem_wait: a token passes from a semaphore to the thread. *)
LEMMA WaitStep ==
  ASSUME IInv, NEW t \in Thread, Goto(t, "wait", "lock"),
         \/ sem_empty > 0 /\ sem_empty' = sem_empty - 1 /\ sem_full' = sem_full
         \/ sem_full > 0 /\ sem_full' = sem_full - 1 /\ sem_empty' = sem_empty,
         UNCHANGED <<mutex, request, req, sockets, control, exited, untaken>>
  PROVE  IInv'
<1>0. "wait" \in Label /\ "lock" \in Label /\ "wait" \notin Inside /\ "lock" \in Inside
  BY DEF Label, Inside
<1>1. /\ pc' \in [Thread -> Label] /\ Unborn'
      /\ Cardinality(Holders(pc')) = Cardinality(Holders(pc)) + 1 - 0
      /\ Cardinality(Holders(pc)) \in Nat
  BY <1>0, GotoStep, Zenon
<1>2. Types' /\ Tokens'
  <2>1. OtherTypes'
    BY OtherTypesKept
  <2>2. /\ sem_empty \in Nat /\ sem_full \in Nat
        /\ sem_empty + sem_full + Cardinality(Holders(pc)) = MAX_REQUEST
    BY DEF IInv, Types, Tokens
  <2>3. sem_empty' \in Nat /\ sem_full' \in Nat
    BY <2>2
  <2>4. Tokens'
    BY <1>1, <2>2, WebServerAssumption DEF Tokens
  <2> QED BY <1>1, <2>1, <2>3, <2>4 DEF IInv, Types, OtherTypes, control
<1>3. OneInside'
  BY <1>0, LockKept
<1> QED BY <1>1, <1>2, <1>3 DEF IInv

(* sem_post: the thread gives its token to the other semaphore. *)
LEMMA PostStep ==
  ASSUME IInv, NEW t \in Thread, NEW to \in {"accept", "process"}, Goto(t, "post", to),
         \/ sem_empty' = sem_empty + 1 /\ sem_full' = sem_full
         \/ sem_full' = sem_full + 1 /\ sem_empty' = sem_empty,
         UNCHANGED <<mutex, request, req, sockets, control, exited, untaken>>
  PROVE  IInv'
<1>0. "post" \in Label /\ to \in Label /\ "post" \in Inside /\ to \notin Inside
  BY DEF Label, Inside
<1>1. /\ pc' \in [Thread -> Label] /\ Unborn'
      /\ Cardinality(Holders(pc')) = Cardinality(Holders(pc)) + 0 - 1
      /\ Cardinality(Holders(pc)) \in Nat
  BY <1>0, GotoStep, Zenon
<1>2. Types' /\ Tokens'
  <2>1. OtherTypes'
    BY OtherTypesKept
  <2>2. /\ sem_empty \in Nat /\ sem_full \in Nat
        /\ sem_empty + sem_full + Cardinality(Holders(pc)) = MAX_REQUEST
    BY DEF IInv, Types, Tokens
  <2>3. sem_empty' \in Nat /\ sem_full' \in Nat
    BY <2>2
  <2>4. Tokens'
    BY <1>1, <2>2, WebServerAssumption DEF Tokens
  <2> QED BY <1>1, <2>1, <2>3, <2>4 DEF IInv, Types, OtherTypes, control
<1>3. OneInside'
  BY <1>0, LockKept
<1> QED BY <1>1, <1>2, <1>3 DEF IInv

(* The critical section: the slot that sem_full names is one, because the  *)
(* thread inside holds a token itself; then the lock is given up.          *)
LEMMA SlotOfHolder ==
  ASSUME IInv, NEW t \in Thread, pc[t] \in Inside
  PROVE  sem_full \in Slot /\ sem_full < MAX_REQUEST
<1>1. t \in Holders(pc)
  BY DEF Holders
<1>2. Cardinality(Holders(pc)) # 0
  BY <1>1, HoldersFinite, FS_EmptySet
<1>3. /\ sem_empty \in Nat /\ sem_full \in Nat /\ Cardinality(Holders(pc)) \in Nat
      /\ sem_empty + sem_full + Cardinality(Holders(pc)) = MAX_REQUEST
  BY HoldersFinite DEF IInv, Types, Tokens
<1> QED BY <1>2, <1>3, WebServerAssumption DEF Slot

LEMMA LeaveStep ==
  ASSUME IInv, NEW t \in Thread, Goto(t, "critical", "post"), mutex' = Nobody,
         request' \in [Slot -> Entry], req' \in [Thread -> Entry],
         untaken' \subseteq 0 .. MaxConn,
         UNCHANGED <<sem_empty, sem_full, sockets, control, exited>>
  PROVE  IInv'
<1>0. "critical" \in Label /\ "post" \in Label /\ "critical" \in Inside /\ "post" \in Inside
  BY DEF Label, Inside
<1>1. /\ pc' \in [Thread -> Label] /\ Unborn' /\ pc[t] = "critical"
      /\ \A u \in Thread : pc'[u] = IF u = t THEN "post" ELSE pc[u]
      /\ Cardinality(Holders(pc')) = Cardinality(Holders(pc)) + 1 - 1
      /\ Cardinality(Holders(pc)) \in Nat
  BY <1>0, GotoStep, Zenon
<1>2. Types'
  BY <1>1 DEF IInv, Types, control, sockets
<1>3. OneInside'
  <2>1. \A u \in Thread : u # Nobody
    BY WebServerAssumption DEF Thread, Listener, Worker, Nobody
  <2> QED BY <1>1, <2>1 DEF IInv, OneInside
<1>4. Tokens'
  BY <1>1 DEF IInv, Types, Tokens
<1> QED BY <1>1, <1>2, <1>3, <1>4 DEF IInv

-----------------------------------------------------------------------------
(* The listener. *)
LEMMA ListenerPreserves ==
  ASSUME IInv, WaitEmpty \/ Store \/ PostFull PROVE IInv'
<1>0. Listener \in Thread
  BY DEF Thread
<1>1. CASE WaitEmpty
  BY <1>0, <1>1, WaitStep DEF WaitEmpty
<1>2. CASE Store
  <2>1. req[Listener] \in Entry
    BY <1>0 DEF IInv, Types
  <2>2. request' \in [Slot -> Entry] /\ req' \in [Thread -> Entry]
    BY <1>2, <2>1 DEF Store, IInv, Types
  <2>3. untaken' \subseteq 0 .. MaxConn
    BY <1>2, <2>1 DEF Store, IInv, Types, Entry
  <2> QED BY <1>0, <1>2, <2>2, <2>3, LeaveStep DEF Store
<1>3. CASE PostFull
  BY <1>0, <1>3, PostStep DEF PostFull
<1> QED BY <1>1, <1>2, <1>3

LEMMA AcceptPreserves ==
  ASSUME IInv, Bind \/ BindFails \/ Accept \/ AcceptFails PROVE IInv'
<1>0. /\ Listener \in Thread
      /\ {"bind", "accept", "wait", "dead"} \subseteq Label \ (Inside \cup {"unborn"})
  BY DEF Thread, Label, Inside
<1>1. CASE Bind
  <2>1. OtherTypes'
    BY <1>1, OtherTypesKept DEF Bind
  <2> QED BY <1>0, <1>1, <2>1, OutsideStep DEF Bind
<1>2. CASE BindFails
  <2>1. Types'
    BY <1>2 DEF BindFails, IInv, Types, threads, control, sockets
  <2> QED BY <1>2, <2>1 DEF BindFails, IInv, OneInside, Tokens, Unborn, threads, control
<1>3. CASE Accept
  <2>1. PICK fd \in Fd : /\ accepted < MaxConn
                         /\ accepted' = accepted + 1 /\ unread' = unread \cup {accepted + 1}
                         /\ fdTable' = [fdTable EXCEPT ![fd] = accepted + 1]
                         /\ req' = [req EXCEPT ![Listener] = [fd |-> fd, conn |-> accepted + 1]]
    BY <1>3 DEF Accept
  <2>2. /\ Goto(Listener, "accept", "wait")
        /\ UNCHANGED <<sem_empty, sem_full, mutex, request, reading, control, exited, untaken>>
    BY <1>3 DEF Accept
  <2>3. accepted + 1 \in 0 .. MaxConn /\ accepted + 1 \in -1 .. MaxConn
    BY <2>1, WebServerAssumption DEF IInv, Types
  <2>4. req' \in [Thread -> Entry]
    BY <2>1, <2>3 DEF IInv, Types, Entry
  <2>5. fdTable' \in [Fd -> -1 .. MaxConn]
    BY <2>1, <2>3 DEF IInv, Types
  <2>6. OtherTypes'
    BY <2>1, <2>2, <2>3, <2>4, <2>5 DEF IInv, Types, OtherTypes
  <2> QED BY <1>0, <2>2, <2>6, OutsideStep
<1>4. CASE AcceptFails
  <2>1. OtherTypes'
    BY <1>4, OtherTypesKept DEF AcceptFails
  <2> QED BY <1>0, <1>4, <2>1, OutsideStep DEF AcceptFails
<1> QED BY <1>1, <1>2, <1>3, <1>4

(* A worker. *)
LEMMA WorkerPreserves ==
  ASSUME IInv, NEW w \in Worker, WorkerStep(w) PROVE IInv'
<1>0. /\ w \in Thread
      /\ {"process", "opened", "serving", "wait", "dead"} \subseteq Label \ (Inside \cup {"unborn"})
  BY DEF Thread, Label, Inside
<1>1. CASE WaitFull(w)
  BY <1>0, <1>1, WaitStep DEF WaitFull
<1>2. CASE Lock(w)
  BY <1>0, <1>2, LockStep
<1>3. CASE Take(w)
  <2>1. pc[w] \in Inside
    BY <1>3 DEF Take, Goto, Inside
  <2>2. request[sem_full] \in Entry
    BY <1>0, <2>1, SlotOfHolder DEF IInv, Types
  <2>3. request' \in [Slot -> Entry] /\ req' \in [Thread -> Entry]
    BY <1>3, <2>2 DEF Take, IInv, Types
  <2>4. untaken' \subseteq 0 .. MaxConn
    BY <1>3 DEF Take, IInv, Types
  <2> QED BY <1>0, <1>3, <2>3, <2>4, LeaveStep DEF Take
<1>4. CASE PostEmpty(w)
  BY <1>0, <1>4, PostStep DEF PostEmpty
<1>5. Closed \in -1 .. MaxConn
  BY WebServerAssumption DEF Closed
<1>6. CASE Crash(w)
  <2>1. fdTable' \in [Fd -> -1 .. MaxConn] /\ exited' \in BOOLEAN
    BY <1>5, <1>6 DEF Crash, IInv, Types
  <2>2. OtherTypes'
    BY <1>6, <2>1 DEF Crash, IInv, Types, OtherTypes
  <2> QED BY <1>0, <1>6, <2>2, OutsideStep DEF Crash
<1>7. CASE Open(w)
  BY <1>0, <1>7, OtherTypesKept, OutsideStep DEF Open
<1>8. CASE OpenFails(w)
  <2>1. OtherTypes'
    BY <1>8 DEF OpenFails, IInv, Types, OtherTypes, sockets
  <2> QED BY <1>0, <1>8, <2>1, OutsideStep DEF OpenFails
<1>9. CASE Read(w)
  <2>1. fdTable[req[w].fd] \in -1 .. MaxConn
    BY <1>0 DEF IInv, Types, Entry
  <2>2. reading' \in [Worker -> -1 .. MaxConn]
    BY <1>9, <2>1 DEF Read, IInv, Types
  <2>3. OtherTypes'
    BY <1>9, <2>2 DEF Read, IInv, Types, OtherTypes
  <2> QED BY <1>0, <1>9, <2>3, OutsideStep DEF Read
<1>10. CASE Finish(w)
  <2>1. exited' \in BOOLEAN
    BY <1>10, WebServerAssumption DEF Finish
  <2>2. /\ fdTable' \in [Fd -> -1 .. MaxConn] /\ reading' \in [Worker -> -1 .. MaxConn]
        /\ unread' \subseteq 0 .. MaxConn
    BY <1>5, <1>10 DEF Finish, IInv, Types
  <2>3. OtherTypes'
    BY <1>10, <2>1, <2>2 DEF Finish, IInv, Types, OtherTypes
  <2> QED BY <1>0, <1>10, <2>3, OutsideStep DEF Finish
<1> QED BY <1>1, <1>2, <1>3, <1>4, <1>6, <1>7, <1>8, <1>9, <1>10 DEF WorkerStep

(* main: a thread is started where there was none. *)
LEMMA MainPreserves ==
  ASSUME IInv, MainStep PROVE IInv'
<1>1. CASE JoinServer
  <2>1. Types'
    BY <1>1 DEF JoinServer, IInv, Types, threads, sockets
  <2> QED BY <1>1, <2>1 DEF JoinServer, IInv, OneInside, Tokens, Unborn, threads
<1>2. CASE MainReturns
  <2>1. Types'
    BY <1>2 DEF MainReturns, IInv, Types, threads, sockets
  <2> QED BY <1>2, <2>1 DEF MainReturns, IInv, OneInside, Tokens, Unborn, threads
<1>3. CASE TryJoin
  <2>0. /\ mainI \in 1 .. numThread /\ mainI' = mainI + 1
        /\ UNCHANGED <<sem_empty, sem_full, mutex, request, req, sockets,
                       mainPc, exited, untaken>>
    BY <1>3 DEF TryJoin, IInv, Types
  <2>1. mainI' \in 1 .. numThread + 1
    BY <2>0, WebServerAssumption
  <2>2. CASE pc[pool[mainI]] = "dead"
    <3>1. pc' = pc /\ pool' = pool
      BY <1>3, <2>2 DEF TryJoin
    <3>2. Unborn'
      BY <2>0, <2>1, <3>1, WebServerAssumption DEF IInv, Unborn
    <3>3. Types'
      BY <2>0, <2>1, <3>1 DEF IInv, Types, sockets
    <3> QED BY <2>0, <3>1, <3>2, <3>3 DEF IInv, OneInside, Tokens
  <2>3. CASE pc[pool[mainI]] # "dead"
    <3> DEFINE t == numThread + mainI
    <3>1. /\ pc' = [pc EXCEPT ![t] = "wait"]
          /\ pool' = [pool EXCEPT ![mainI] = t]
      BY <1>3, <2>3 DEF TryJoin
    <3>2. t \in Worker /\ t \in Thread
      BY <2>0, WebServerAssumption DEF Worker, Thread
    <3>3. pc[t] = "unborn"
      BY <2>0, WebServerAssumption DEF IInv, Unborn
    <3>4. "wait" \in Label /\ "wait" \notin Inside /\ "unborn" \notin Inside
      BY DEF Label, Inside
    <3>5. /\ pc \in [Thread -> Label] /\ pool \in [1 .. numThread -> Worker]
      BY DEF IInv, Types
    <3>6. pc' \in [Thread -> Label] /\ pool' \in [1 .. numThread -> Worker]
      BY <2>0, <3>1, <3>2, <3>4, <3>5
    <3>7. Types'
      BY <2>0, <2>1, <3>6 DEF IInv, Types, sockets
    <3>8. Unborn'
      <4>1. ASSUME NEW k \in mainI' .. numThread PROVE pc'[numThread + k] = "unborn"
        <5>1. k \in mainI .. numThread /\ k # mainI /\ numThread + k # t
              /\ numThread + k \in Thread
          BY <2>0, <2>1, <4>1, WebServerAssumption DEF Thread, Worker
        <5>2. pc[numThread + k] = "unborn"
          BY <5>1 DEF IInv, Unborn
        <5> QED BY <3>1, <3>5, <5>1, <5>2
      <4> QED BY <4>1 DEF Unborn
    <3>9. OneInside'
      BY <2>0, <3>1, <3>2, <3>3, <3>5 DEF IInv, OneInside
    <3>10. Tokens'
      <4>1. Cardinality(Holders(pc')) = Cardinality(Holders(pc)) + 0 - 0
        BY <3>1, <3>2, <3>3, <3>4, <3>5, HoldersStep
      <4>2. Cardinality(Holders(pc')) = Cardinality(Holders(pc))
        BY <4>1, HoldersFinite
      <4> QED BY <2>0, <4>2 DEF IInv, Tokens
    <3> QED BY <3>7, <3>8, <3>9, <3>10 DEF IInv
  <2> QED BY <2>2, <2>3
<1> QED BY <1>1, <1>2, <1>3 DEF MainStep

LEMMA Inductive == IInv /\ [Next]_vars => IInv'
<1> SUFFICES ASSUME IInv, [Next]_vars PROVE IInv'
  OBVIOUS
<1>1. CASE UNCHANGED vars
  <2>1. Types'
    BY <1>1 DEF vars, threads, control, IInv, Types, sockets
  <2> QED BY <1>1, <2>1 DEF vars, threads, control, IInv, OneInside, Tokens, Unborn
<1>2. CASE Next
  <2>0. Listener \in Thread
    BY DEF Thread
  <2>1. CASE Bind \/ BindFails \/ Accept \/ AcceptFails
    BY <2>1, AcceptPreserves
  <2>2. CASE ListenerStep
    BY <2>0, <2>2, LockStep, ListenerPreserves DEF ListenerStep
  <2>3. CASE \E w \in Worker : WorkerStep(w)
    BY <2>3, WorkerPreserves
  <2>4. CASE MainStep
    BY <2>4, MainPreserves
  <2> QED BY <1>2, <2>1, <2>2, <2>3, <2>4 DEF Next
<1> QED BY <1>1, <1>2

THEOREM Invariance == Spec => []IInv
<1> QED BY Initially, Inductive, PTL DEF Spec

-----------------------------------------------------------------------------
LEMMA AtInside == At("lock") \cup At("critical") \cup At("post") = Holders(pc)
BY DEF At, Holders, Inside

(* Type correctness of the server: the semaphores stay within the number   *)
(* of slots, and the lock is held by the one thread inside, whatever       *)
(* threads crash or are started (webserver_multi.c:19-47, 93-106).         *)
THEOREM ServerTypes == Spec => []TypeOK
<1>1. IInv => TypeOK
  <2> SUFFICES ASSUME IInv PROVE TypeOK
    OBVIOUS
  <2>1. sem_empty \in 0 .. MAX_REQUEST /\ sem_full \in 0 .. MAX_REQUEST
    <3>1. /\ sem_empty \in Nat /\ sem_full \in Nat /\ Cardinality(Holders(pc)) \in Nat
          /\ sem_empty + sem_full + Cardinality(Holders(pc)) = MAX_REQUEST
      BY HoldersFinite DEF IInv, Types, Tokens
    <3> QED BY <3>1, WebServerAssumption
  <2>2. /\ mutex = Nobody <=> At("critical") = {}
        /\ mutex # Nobody => At("critical") = {mutex}
    <3>1. \A u \in Thread : u # Nobody
      BY WebServerAssumption DEF Thread, Listener, Worker, Nobody
    <3>2. mutex \in Thread \cup {Nobody}
      BY DEF IInv, Types
    <3> QED BY <3>1, <3>2 DEF IInv, OneInside, At
  <2> QED BY <2>1, <2>2 DEF IInv, Types, TypeOK, Label
<1> QED BY <1>1, Invariance, PTL

(* No token is ever lost or made: every slot is empty, full, or in the     *)
(* hands of one thread between its wait and its post, and a crash happens  *)
(* with empty hands (webserver_multi.c:20-30, 34-45, net.c:98-102).        *)
THEOREM TokensConserved == Spec => []TokenConservation
<1>1. IInv => TokenConservation
  BY AtInside DEF IInv, Tokens, TokenConservation
<1> QED BY <1>1, Invariance, PTL

(* The semaphore value that is used as an index of request[] is within it  *)
(* whenever it is used (webserver_multi.c:26, 40).                         *)
THEOREM IndexInBounds == Spec => []SlotInBounds
<1>1. IInv => SlotInBounds
  <2> SUFFICES ASSUME IInv, At("critical") # {} PROVE sem_full < MAX_REQUEST
    BY DEF SlotInBounds
  <2>1. PICK t \in Thread : pc[t] = "critical"
    BY DEF At
  <2>2. pc[t] \in Inside
    BY <2>1 DEF Inside
  <2> QED BY <2>2, SlotOfHolder
<1> QED BY <1>1, Invariance, PTL

-----------------------------------------------------------------------------
(* A worker is never where only the listener can be, so that a worker that *)
(* is neither born nor dead is waiting, inside or with a connection.       *)
WorkersInPlace == \A w \in Worker : pc[w] \notin {"bind", "accept"}

LEMMA GotoInPlace ==
  ASSUME WorkersInPlace, pc \in [Thread -> Label], NEW t \in Thread, NEW from, NEW to,
         Goto(t, from, to), t = Listener \/ to \notin {"bind", "accept"}
  PROVE  WorkersInPlace'
<1>1. Listener \notin Worker /\ Worker \subseteq Thread
  BY WebServerAssumption DEF Listener, Worker, Thread
<1>2. \A w \in Worker : pc'[w] = IF w = t THEN to ELSE pc[w]
  BY <1>1 DEF Goto
<1> QED BY <1>1, <1>2 DEF WorkersInPlace

LEMMA InPlaceInductive == IInv /\ WorkersInPlace /\ [Next]_vars => WorkersInPlace'
<1> SUFFICES ASSUME IInv, WorkersInPlace, [Next]_vars PROVE WorkersInPlace'
  OBVIOUS
<1>1. pc \in [Thread -> Label] /\ Listener \in Thread /\ Worker \subseteq Thread
  BY DEF IInv, Types, Thread
<1>2. CASE pc' = pc
  BY <1>2 DEF WorkersInPlace
<1>3. CASE Bind \/ Accept \/ AcceptFails \/ ListenerStep
  <2>1. \/ Goto(Listener, "bind", "accept") \/ Goto(Listener, "accept", "wait")
        \/ Goto(Listener, "accept", "dead") \/ Goto(Listener, "wait", "lock")
        \/ Goto(Listener, "lock", "critical") \/ Goto(Listener, "critical", "post")
        \/ Goto(Listener, "post", "accept")
    BY <1>3 DEF Bind, Accept, AcceptFails, ListenerStep, Lock, WaitEmpty, Store, PostFull
  <2> QED BY <1>1, <2>1, GotoInPlace
<1>4. CASE \E w \in Worker : WorkerStep(w)
  <2>1. PICK w \in Worker : WorkerStep(w)
    BY <1>4
  <2>2. \/ Goto(w, "wait", "lock") \/ Goto(w, "lock", "critical")
        \/ Goto(w, "critical", "post") \/ Goto(w, "post", "process")
        \/ Goto(w, "process", "dead") \/ Goto(w, "process", "opened")
        \/ Goto(w, "process", "wait") \/ Goto(w, "opened", "serving") \/ Goto(w, "serving", "wait")
    BY <2>1 DEF WorkerStep, WaitFull, Lock, Take, PostEmpty, Crash, Open, OpenFails, Read, Finish
  <2> QED BY <1>1, <2>2, GotoInPlace
<1>5. CASE TryJoin
  BY <1>1, <1>5 DEF TryJoin, WorkersInPlace
<1> QED
  BY <1>2, <1>3, <1>4, <1>5
  DEF Next, BindFails, MainStep, JoinServer, MainReturns, vars, threads

(* The three waits of the listener and the workers never close a circle:   *)
(* by the conservation of tokens either a semaphore has one to give, or    *)
(* some thread has taken one and is inside, and of those inside one has    *)
(* the lock or may take it (webserver_multi.c:20-30, 34-45).               *)
THEOREM NeverAllWaiting == Spec => []NoCircularWait
<1>1. Init => WorkersInPlace
  BY WebServerAssumption DEF Init, WorkersInPlace, Worker, Thread, Listener
<1>2. IInv /\ WorkersInPlace => NoCircularWait
  <2> SUFFICES ASSUME IInv, WorkersInPlace, pc[Listener] \in {"wait", "lock"}
               PROVE  \/ pc[Listener] = "wait" /\ sem_empty > 0
                      \/ mutex = Nobody /\ At("lock") # {}
                      \/ At("critical") \cup At("post") # {}
                      \/ /\ sem_full > 0
                         /\ \/ At("wait") \ {Listener} # {}
                            \/ Alive \subseteq At("process") \cup At("opened") \cup At("serving")
    BY DEF NoCircularWait
  <2>1. mutex # Nobody => At("critical") # {}
    BY DEF IInv, OneInside, Types, At
  <2>2. CASE Holders(pc) # {}
    BY <2>1, <2>2, AtInside
  <2>3. CASE Holders(pc) = {}
    <3>1. sem_empty \in Nat /\ sem_full \in Nat /\ sem_empty + sem_full = MAX_REQUEST
      BY <2>3, FS_EmptySet DEF IInv, Types, Tokens
    <3>2. pc[Listener] = "wait"
      BY <2>3 DEF Holders, Inside, Thread
    <3>3. sem_empty > 0 \/ sem_full > 0
      BY <3>1, WebServerAssumption
    <3>4. \/ At("wait") \ {Listener} # {}
          \/ Alive \subseteq At("process") \cup At("opened") \cup At("serving")
      <4>1. SUFFICES ASSUME At("wait") \ {Listener} = {}, NEW w \in Alive
                     PROVE  pc[w] \in {"process", "opened", "serving"}
        BY DEF Alive, At, Thread
      <4>2. w \in Worker /\ w \in Thread /\ w # Listener
        BY WebServerAssumption DEF Alive, Worker, Thread, Listener
      <4>3. pc[w] \in Label \ {"unborn", "dead", "bind", "accept", "wait", "lock", "critical", "post"}
        BY <2>3, <4>1, <4>2 DEF Alive, IInv, Types, WorkersInPlace, At, Holders, Inside
      <4> QED BY <4>3 DEF Label
    <3> QED BY <3>2, <3>3, <3>4
  <2> QED BY <2>2, <2>3
<1> QED BY <1>1, <1>2, Invariance, InPlaceInductive, PTL DEF Spec
=============================================================================
