------------------------- MODULE ClientServerProofs -------------------------
(***************************************************************************)
(* The client and the single-threaded server of ClientServer.tla, for any  *)
(* number of threads, any queue and any number of retries, with every call *)
(* that may fail failing.                                                  *)
(*                                                                         *)
(* Two things are followed.  Where an open connection is (Connections): in *)
(* the queue, once, or with the server.  And what a thread was given       *)
(* (Answers): bytes that it received or will receive, at most once for     *)
(* each connection; a connection that is shut without them tells that the  *)
(* server is gone, which is what makes a retry hopeless (Hopeless).        *)
(***************************************************************************)
EXTENDS ClientServer, FiniteSetTheorems, SequenceTheorems, TLAPS

AtWork == {"process", "read", "answer", "close"}

(* The place of thread t and the state of its socket agree. *)
Sockets ==
  \A t \in Thread :
    /\ t > created => pc[t] = "unborn"
    /\ pc[t] \in {"unborn", "connect"} => sock[t] = "none"
    /\ pc[t] \in {"send", "recv"} => sock[t] # "none"
    /\ pc[t] = "ended" => sock[t] = "shut" /\ inbox[t] = 0

Position(q) == 1 .. Len(q)

(* An open connection is in the queue once, or with the server. *)
Connections ==
  /\ \A j, k \in Position(queue) : queue[j] = queue[k] => j = k
  /\ \A k \in Position(queue) : sock[queue[k]] = "open" /\ queue[k] # serving
  /\ \A t \in Thread : sock[t] = "open" => t = serving \/ \E k \in Position(queue) : queue[k] = t
  /\ serving # Nobody => sock[serving] = "open"
  /\ serving # Nobody <=> server \in AtWork
  /\ server \in {"bind", "gone"} => queue = << >>

Answered(t) == rbyte[t] = 1 \/ inbox[t] = 1

(* A connection is answered at most once, just before it is closed. *)
Answers ==
  /\ \A t \in Thread :
       /\ sock[t] = "none" => ~Answered(t)
       /\ sock[t] = "open" => (Answered(t) <=> t = serving /\ server = "close")
       /\ sock[t] = "shut" /\ ~Answered(t) /\ client = "running" => server = "gone"
  /\ failed = 0 => served = Cardinality({t \in Thread : Answered(t)})

(* The threads that main has joined had their byte, if main read it right. *)
JoinedHadByte ==
  ~spoiled => /\ \A t \in Thread : t < mainI => rbyte[t] = 1
              /\ client = "returned" => \A t \in Thread : rbyte[t] = 1

(* A retry that a result read right asks for can only be refused. *)
Hopeless ==
  failed > 0 /\ ~spoiled => /\ server = "gone"
                            /\ created = nthread
                            /\ pc[mainI] = "connect"
                            /\ client # "returned"

IInv == TypeOK /\ Sockets /\ Connections /\ Answers /\ JoinedHadByte /\ Hopeless

-----------------------------------------------------------------------------
(* Sequences: an element is in the range of a queue when it has a place.   *)
LEMMA Places ==
  ASSUME NEW S, NEW q \in Seq(S)
  PROVE  /\ DOMAIN q = Position(q)
         /\ Len(q) \in Nat
         /\ \A k \in Position(q) : q[k] \in S
         /\ \A s : s \in Range(q) <=> \E k \in Position(q) : q[k] = s
<1>1. DOMAIN q = Position(q) /\ Len(q) \in Nat /\ \A k \in Position(q) : q[k] \in S
  BY LenProperties DEF Position
<1> QED BY <1>1 DEF Range

(* What one thread changes from not answered to answered adds one.         *)
LEMMA OneMore ==
  ASSUME NEW S \in SUBSET Thread, NEW t \in Thread \ S
  PROVE  Cardinality(S \cup {t}) = Cardinality(S) + 1 /\ Cardinality(S) \in Nat
<1>1. IsFiniteSet(Thread)
  BY FS_Interval, ClientServerAssumption, SMT DEF Thread
<1>2. IsFiniteSet(S)
  BY <1>1, FS_Subset
<1> QED BY <1>2, FS_AddElement, FS_CardinalityType

-----------------------------------------------------------------------------
LEMMA Initially == Init => IInv
<1> SUFFICES ASSUME Init PROVE IInv
  OBVIOUS
<1>1. TypeOK
  <2>1. queue \in Seq(Thread)
    BY DEF Init
  <2>2. mainI \in Thread /\ created \in 0 .. nthread /\ failed \in 0 .. MaxFailed
    BY ClientServerAssumption DEF Init, Thread
  <2> QED BY <2>1, <2>2 DEF Init, TypeOK
<1>2. Sockets
  BY DEF Init, Sockets
<1>3. Connections
  <2>1. Position(queue) = {}
    BY DEF Init, Position
  <2> QED BY <2>1 DEF Init, Connections, AtWork
<1>4. Answers
  <2>1. {t \in Thread : Answered(t)} = {}
    BY DEF Init, Answered
  <2>2. failed = 0 => served = Cardinality({t \in Thread : Answered(t)})
    BY <2>1, FS_EmptySet DEF Init
  <2> QED BY <2>2 DEF Init, Answers, Answered
<1>5. JoinedHadByte /\ Hopeless
  BY ClientServerAssumption DEF Init, JoinedHadByte, Hopeless, Thread
<1> QED BY <1>1, <1>2, <1>3, <1>4, <1>5 DEF IInv

-----------------------------------------------------------------------------
(* Conjuncts that a step leaves alone. *)
LEMMA ConnectionsKept ==
  ASSUME Connections, UNCHANGED <<sock, queue, serving, server>> PROVE Connections'
BY DEF Connections, Position

LEMMA AnswersKept ==
  ASSUME Answers, UNCHANGED <<sock, inbox, rbyte, serving, served, server, failed>>,
         client' = "running" => client = "running"
  PROVE  Answers'
BY DEF Answers, Answered

-----------------------------------------------------------------------------
(* The threads. *)

LEMMA ConnectStep ==
  ASSUME IInv, NEW t \in Thread, Connect(t), client = "running" PROVE IInv'
<1>1. /\ pc[t] = "connect" /\ pc' = [pc EXCEPT ![t] = "send"]
      /\ server \notin {"bind", "gone"}
      /\ queue' = Append(queue, t) /\ sock' = [sock EXCEPT ![t] = "open"]
      /\ UNCHANGED <<mainI, created, failed, client, rbyte, sent, inbox, server,
                     serving, served, spoiled>>
  BY DEF Connect, Goto, Listening, mainVars, serverVars
<1>2. sock[t] = "none" /\ t <= created /\ ~Answered(t)
  BY <1>1 DEF IInv, TypeOK, Sockets, Answers, Thread
<1>3. /\ Len(queue) \in Nat /\ Len(queue') = Len(queue) + 1 /\ queue' \in Seq(Thread)
      /\ queue'[Len(queue) + 1] = t /\ \A k \in Position(queue) : queue'[k] = queue[k]
  <2>1. queue \in Seq(Thread)
    BY DEF IInv, TypeOK
  <2> QED BY <1>1, <2>1, AppendProperties, LenProperties DEF Position
<1>4. TypeOK'
  BY <1>1, <1>3 DEF IInv, TypeOK
<1>5. Sockets'
  BY <1>1, <1>2 DEF IInv, TypeOK, Sockets
<1>6. Connections'
  <2>1. \A k \in Position(queue) : queue[k] \in Thread /\ queue[k] # t
    <3>1. \A k \in Position(queue) : queue[k] \in Thread
      BY LenProperties DEF IInv, TypeOK, Position
    <3> QED BY <3>1, <1>2 DEF IInv, Connections
  <2>2. \A k : k \in Position(queue') <=> k \in Position(queue) \/ k = Len(queue) + 1
    BY <1>3 DEF Position
  <2>3. \A j, k \in Position(queue') : queue'[j] = queue'[k] => j = k
    BY <1>3, <2>1, <2>2 DEF IInv, Connections
  <2>4. serving # t
    BY <1>2 DEF IInv, Connections, TypeOK, Thread, Nobody
  <2>5. \A u \in Thread : sock'[u] = IF u = t THEN "open" ELSE sock[u]
    BY <1>1 DEF IInv, TypeOK
  <2>6. \A k \in Position(queue') : sock'[queue'[k]] = "open" /\ queue'[k] # serving
    <3> SUFFICES ASSUME NEW k \in Position(queue')
                 PROVE  sock'[queue'[k]] = "open" /\ queue'[k] # serving
      OBVIOUS
    <3>1. CASE k = Len(queue) + 1
      BY ONLY <1>3, <2>4, <2>5, <3>1
    <3>2. CASE k \in Position(queue)
      BY <1>3, <2>1, <2>5, <3>2 DEF IInv, Connections
    <3> QED BY ONLY <2>2, <3>1, <3>2
  <2>7. \A u \in Thread : sock'[u] = "open" =>
           u = serving \/ \E k \in Position(queue') : queue'[k] = u
    <3> SUFFICES ASSUME NEW u \in Thread, sock'[u] = "open", u # serving
                 PROVE  \E k \in Position(queue') : queue'[k] = u
      OBVIOUS
    <3>1. CASE u = t
      BY ONLY <1>3, <2>2, <3>1
    <3>2. CASE u # t
      <4>1. \E k \in Position(queue) : queue[k] = u
        BY <2>5, <3>2 DEF IInv, Connections
      <4> QED BY ONLY <1>3, <2>2, <4>1
    <3> QED BY ONLY <3>1, <3>2
  <2>8. serving \in Thread \cup {Nobody}
    BY DEF IInv, TypeOK
  <2>9. serving # Nobody => sock'[serving] = "open"
    BY <1>1, <2>5, <2>8 DEF IInv, Connections
  <2> QED BY <1>1, <2>3, <2>6, <2>7, <2>9 DEF IInv, Connections
<1>7. Answers'
  <2>1. {u \in Thread : Answered(u)'} = {u \in Thread : Answered(u)}
    BY <1>1 DEF Answered
  <2>2. serving # t
    BY <1>2 DEF IInv, Connections, TypeOK, Thread, Nobody
  <2> QED BY <1>1, <1>2, <2>1, <2>2 DEF IInv, TypeOK, Answers, Answered
<1>8. JoinedHadByte'
  BY <1>1 DEF IInv, JoinedHadByte
<1>9. Hopeless'
  BY <1>1 DEF IInv, Hopeless
<1> QED BY <1>4, <1>5, <1>6, <1>7, <1>8, <1>9 DEF IInv

LEMMA SendStep ==
  ASSUME IInv, NEW t \in Thread, Send(t), client = "running" PROVE IInv'
<1>1. /\ pc[t] = "send" /\ pc' = [pc EXCEPT ![t] = "recv"] /\ sent' = [sent EXCEPT ![t] = TRUE]
      /\ UNCHANGED <<mainI, created, failed, client, rbyte, sock, inbox, queue, server,
                     serving, served, spoiled>>
  BY DEF Send, Goto, mainVars, serverVars
<1>2. TypeOK'
  BY <1>1 DEF IInv, TypeOK
<1>3. Sockets'
  BY <1>1 DEF IInv, TypeOK, Sockets
<1>4. Connections' /\ Answers'
  BY <1>1, ConnectionsKept, AnswersKept DEF IInv
<1>5. JoinedHadByte' /\ Hopeless'
  BY <1>1 DEF IInv, TypeOK, JoinedHadByte, Hopeless
<1> QED BY <1>2, <1>3, <1>4, <1>5 DEF IInv

(* What was in the inbox is in rbyte: the thread is answered as before. *)
LEMMA RecvStep ==
  ASSUME IInv, NEW t \in Thread, Recv(t), client = "running" PROVE IInv'
<1>1. /\ pc[t] = "recv" /\ inbox[t] = 1 /\ inbox' = [inbox EXCEPT ![t] = 0]
      /\ rbyte' = [rbyte EXCEPT ![t] = 1]
      /\ UNCHANGED <<mainI, created, failed, client, pc, sock, sent, queue, server,
                     serving, served, spoiled>>
  BY DEF Recv, mainVars, serverVars, IInv, TypeOK
<1>2. TypeOK'
  BY <1>1 DEF IInv, TypeOK
<1>3. Sockets'
  BY <1>1 DEF IInv, TypeOK, Sockets
<1>4. Connections'
  BY <1>1, ConnectionsKept DEF IInv
<1>5. \A u \in Thread : Answered(u)' <=> Answered(u)
  BY <1>1 DEF IInv, TypeOK, Answered
<1>6. {u \in Thread : Answered(u)'} = {u \in Thread : Answered(u)}
  BY <1>5
<1>7. Answers'
  BY ONLY <1>1, <1>5, <1>6, IInv DEF IInv, Answers
<1>8. JoinedHadByte' /\ Hopeless'
  BY <1>1 DEF IInv, TypeOK, JoinedHadByte, Hopeless
<1> QED BY <1>2, <1>3, <1>4, <1>7, <1>8 DEF IInv

LEMMA RecvEndsStep ==
  ASSUME IInv, NEW t \in Thread, RecvEnds(t), client = "running" PROVE IInv'
<1>1. /\ pc[t] = "recv" /\ pc' = [pc EXCEPT ![t] = "ended"] /\ inbox[t] = 0 /\ sock[t] = "shut"
      /\ UNCHANGED <<mainI, created, failed, client, rbyte, sock, sent, inbox, queue, server,
                     serving, served, spoiled>>
  BY DEF RecvEnds, Goto, mainVars, socketVars, serverVars
<1>2. TypeOK'
  BY <1>1 DEF IInv, TypeOK
<1>3. Sockets'
  BY <1>1 DEF IInv, TypeOK, Sockets
<1>4. Connections' /\ Answers'
  BY <1>1, ConnectionsKept, AnswersKept DEF IInv
<1>5. JoinedHadByte' /\ Hopeless'
  BY <1>1 DEF IInv, TypeOK, JoinedHadByte, Hopeless
<1> QED BY <1>2, <1>3, <1>4, <1>5 DEF IInv

(* The client's process ends otherwise than by returning from main. *)
LEMMA EndsStep ==
  ASSUME IInv, client = "running", client' \in {"exit", "killed"},
         spoiled' \in BOOLEAN, spoiled => spoiled',
         UNCHANGED <<mainVars, pc, rbyte, socketVars, serverVars>>
  PROVE  IInv'
<1>1. UNCHANGED <<mainI, created, failed, pc, rbyte, sock, sent, inbox, queue, server,
                  serving, served>>
  BY DEF mainVars, socketVars, serverVars
<1>2. TypeOK'
  BY <1>1 DEF IInv, TypeOK
<1>3. Sockets'
  BY <1>1 DEF IInv, Sockets
<1>4. Connections' /\ Answers'
  BY <1>1, ConnectionsKept, AnswersKept DEF IInv
<1>5. JoinedHadByte' /\ Hopeless'
  BY <1>1 DEF IInv, JoinedHadByte, Hopeless
<1> QED BY <1>2, <1>3, <1>4, <1>5 DEF IInv

LEMMA ThreadsStep ==
  ASSUME IInv, NEW t \in Thread, ThreadStep(t) \/ ThreadFails(t) PROVE IInv'
<1>1. client = "running"
  BY DEF ThreadStep, ThreadFails
<1>2. CASE Connect(t)
  BY <1>1, <1>2, ConnectStep
<1>3. CASE Send(t)
  BY <1>1, <1>3, SendStep
<1>4. CASE Recv(t)
  BY <1>1, <1>4, RecvStep
<1>5. CASE RecvEnds(t)
  BY <1>1, <1>5, RecvEndsStep
<1>6. CASE ConnectRefused(t) \/ ConnectFails(t) \/ SendFails(t)
  <2>1. ClientExits("exit")
    BY <1>6 DEF ConnectRefused, ConnectFails, SendFails
  <2>2. spoiled \in BOOLEAN
    BY DEF IInv, TypeOK
  <2> QED BY <1>1, <2>1, <2>2, EndsStep DEF ClientExits
<1> QED BY <1>2, <1>3, <1>4, <1>5, <1>6 DEF ThreadStep, ThreadFails

-----------------------------------------------------------------------------
(* main. *)

LEMMA CreateStep ==
  ASSUME IInv, Create, client = "running" PROVE IInv'
<1> DEFINE t == created + 1
<1>1. /\ created < nthread /\ created' = t /\ pc' = [pc EXCEPT ![t] = "connect"]
      /\ UNCHANGED <<mainI, failed, client, rbyte, sock, sent, inbox, queue, server,
                     serving, served, spoiled>>
  BY DEF Create, socketVars, serverVars
<1>2. t \in Thread /\ t > created /\ created \in Nat /\ created' \in 0 .. nthread
  BY <1>1, ClientServerAssumption DEF IInv, TypeOK, Thread
<1>3. pc[t] = "unborn"
  BY <1>2 DEF IInv, Sockets
<1> HIDE DEF t
<1>4. TypeOK'
  BY <1>1, <1>2 DEF IInv, TypeOK
<1>5. Sockets'
  <2>1. \A u \in Thread : u > t => u > created /\ u # t
    BY <1>2 DEF t, Thread
  <2> QED BY <1>1, <1>2, <1>3, <2>1 DEF IInv, TypeOK, Sockets
<1>6. Connections' /\ Answers'
  BY <1>1, ConnectionsKept, AnswersKept DEF IInv
<1>7. JoinedHadByte'
  BY <1>1 DEF IInv, JoinedHadByte
<1>8. Hopeless'
  <2>1. created # nthread
    BY <1>1, <1>2, ClientServerAssumption
  <2> QED BY <1>1, <2>1 DEF IInv, Hopeless
<1> QED BY <1>4, <1>5, <1>6, <1>7, <1>8 DEF IInv

(* A positive result is rbyte, or it spoils the run. *)
LEMMA JoinNextStep ==
  ASSUME IInv, NEW result \in {0, 1}, Joined(result), JoinNext(result), client = "running"
  PROVE  IInv'
<1>1. /\ pc[mainI] = "ended" /\ spoiled' = (spoiled \/ 1 # rbyte[mainI])
      /\ UNCHANGED <<created, failed, pc, rbyte, sock, sent, inbox, queue, server,
                     serving, served>>
  BY DEF Joined, JoinNext, Failed, socketVars, serverVars
<1>2. \/ mainI = nthread /\ client' = "returned" /\ mainI' = mainI
      \/ mainI # nthread /\ mainI' = mainI + 1 /\ client' = client
  BY DEF JoinNext
<1>3. spoiled' \in BOOLEAN /\ mainI' \in Thread
  BY <1>1, <1>2, ClientServerAssumption DEF IInv, TypeOK, Thread
<1>4. TypeOK'
  BY <1>1, <1>2, <1>3 DEF IInv, TypeOK
<1>5. Sockets'
  BY <1>1 DEF IInv, Sockets
<1>6. Connections' /\ Answers'
  BY <1>1, <1>2, ConnectionsKept, AnswersKept DEF IInv
<1>7. JoinedHadByte'
  <2> SUFFICES ASSUME ~spoiled' PROVE JoinedHadByte'
    BY DEF JoinedHadByte
  <2>1. rbyte[mainI] = 1 /\ \A t \in Thread : t < mainI => rbyte[t] = 1
    BY <1>1 DEF IInv, JoinedHadByte
  <2>2. \A t \in Thread : t < mainI' => t < mainI \/ t = mainI
    BY <1>2 DEF IInv, TypeOK, Thread
  <2>3. mainI = nthread => \A t \in Thread : t < mainI \/ t = mainI
    BY ClientServerAssumption DEF Thread
  <2> QED BY <1>1, <1>2, <2>1, <2>2, <2>3 DEF JoinedHadByte
<1>8. Hopeless'
  <2>1. spoiled \in BOOLEAN
    BY DEF IInv, TypeOK
  <2> QED BY <1>1, <2>1 DEF IInv, Hopeless
<1> QED BY <1>4, <1>5, <1>6, <1>7, <1>8 DEF IInv

(* The thread had nothing from a connection that is shut: a result read    *)
(* right says so, and then there is no server any more.                    *)
LEMMA StartAgainStep ==
  ASSUME IInv, NEW result \in {0, 1}, Joined(result), StartAgain(result), client = "running"
  PROVE  IInv'
<1>1. /\ created = nthread /\ pc[mainI] = "ended" /\ spoiled' = (spoiled \/ 0 # rbyte[mainI])
      /\ failed < MaxFailed /\ failed' = failed + 1 /\ pc' = [pc EXCEPT ![mainI] = "connect"]
      /\ rbyte' = [rbyte EXCEPT ![mainI] = 0] /\ sock' = [sock EXCEPT ![mainI] = "none"]
      /\ sent' = [sent EXCEPT ![mainI] = FALSE] /\ inbox' = [inbox EXCEPT ![mainI] = 0]
      /\ UNCHANGED <<mainI, created, client, queue, server, serving, served>>
  BY DEF Joined, StartAgain, Failed, serverVars
<1>2. /\ mainI \in Thread /\ mainI <= nthread /\ sock[mainI] = "shut" /\ inbox[mainI] = 0
  BY <1>1, ClientServerAssumption DEF IInv, TypeOK, Sockets, Thread
<1>3. spoiled' \in BOOLEAN
  BY <1>1
<1>4. failed' \in 0 .. MaxFailed /\ failed' > 0
  BY <1>1, ClientServerAssumption DEF IInv, TypeOK
<1>5. TypeOK'
  BY <1>1, <1>2, <1>3, <1>4 DEF IInv, TypeOK
<1>6. Sockets'
  <2>1. ~(mainI > created)
    BY <1>1, <1>2, ClientServerAssumption DEF Thread
  <2> QED BY <1>1, <1>2, <2>1 DEF IInv, TypeOK, Sockets
<1>7. \A u \in Thread : sock'[u] = IF u = mainI THEN "none" ELSE sock[u]
  BY <1>1 DEF IInv, TypeOK
<1>8. Connections'
  <2>1. \A k \in Position(queue) : queue[k] \in Thread /\ queue[k] # mainI
    <3>1. \A k \in Position(queue) : queue[k] \in Thread
      BY Places DEF IInv, TypeOK
    <3> QED BY <3>1, <1>2 DEF IInv, Connections
  <2>2. serving # mainI /\ serving \in Thread \cup {Nobody}
    BY <1>2 DEF IInv, TypeOK, Connections, Thread, Nobody
  <2> QED BY <1>1, <1>7, <2>1, <2>2 DEF IInv, Connections, Position
<1>9. Answers'
  <2>1. \A u \in Thread : Answered(u)' <=> Answered(u) /\ u # mainI
    BY <1>1 DEF IInv, TypeOK, Answered
  <2>2. failed' # 0
    BY <1>4 DEF IInv, TypeOK
  <2> QED BY <1>1, <1>7, <2>1, <2>2 DEF IInv, Answers
<1>10. JoinedHadByte'
  <2>0. \A u \in Thread : u < mainI => u # mainI
    BY ClientServerAssumption DEF IInv, TypeOK, Thread
  <2>1. spoiled \in BOOLEAN /\ \A u \in Thread : u < mainI => u # mainI
    BY <2>0 DEF IInv, TypeOK
  <2>2. \A u \in Thread : u # mainI => rbyte'[u] = rbyte[u]
    BY <1>1 DEF IInv, TypeOK
  <2> QED BY <1>1, <2>1, <2>2 DEF IInv, JoinedHadByte
<1>11. Hopeless'
  <2>1. ~spoiled' => rbyte[mainI] = 0
    BY <1>1
  <2>2. ~spoiled' => ~Answered(mainI)
    BY <1>2, <2>1 DEF Answered
  <2>3. ~spoiled' => server = "gone"
    BY <1>2, <2>2 DEF IInv, Answers
  <2>4. pc'[mainI] = "connect"
    BY <1>1, <1>2 DEF IInv, TypeOK
  <2> QED BY <1>1, <2>3, <2>4 DEF Hopeless
<1> QED BY <1>5, <1>6, <1>8, <1>9, <1>10, <1>11 DEF IInv

LEMMA MainsStep ==
  ASSUME IInv, MainStep \/ MainFaults PROVE IInv'
<1>1. CASE MainStep
  BY <1>1, CreateStep, JoinNextStep, StartAgainStep DEF MainStep
<1>2. CASE MainFaults
  <2>1. rbyte[mainI] \in {0, 1} /\ spoiled \in BOOLEAN
    BY DEF IInv, TypeOK
  <2>2. spoiled' = (spoiled \/ Fault # rbyte[mainI])
    BY <1>2 DEF MainFaults, Joined
  <2>3. spoiled'
    <3>1. Fault # rbyte[mainI]
      BY <2>1 DEF Fault
    <3> QED BY ONLY <2>2, <3>1, Zenon
  <2>4. client = "running" /\ client' = "killed" /\ UNCHANGED <<mainVars, pc, rbyte, socketVars, serverVars>>
    BY <1>2 DEF MainFaults, ReadFaults
  <2>5. spoiled' \in BOOLEAN
    BY ONLY <2>2, Zenon
  <2> QED BY <2>3, <2>4, <2>5, EndsStep
<1> QED BY <1>1, <1>2

-----------------------------------------------------------------------------
(* The server. *)

(* Whatever ends the server shuts every connection, and leaves no work. *)
LEMMA ServerEndsStep ==
  ASSUME IInv, ServerEnds PROVE IInv'
<1>1. /\ server' = "gone" /\ serving' = Nobody /\ queue' = << >>
      /\ sock' = [t \in Thread |-> IF sock[t] = "open" THEN "shut" ELSE sock[t]]
      /\ UNCHANGED <<mainI, created, failed, client, pc, rbyte, sent, inbox, served, spoiled>>
  BY DEF ServerEnds, mainVars
<1>2. TypeOK'
  BY <1>1 DEF IInv, TypeOK
<1>3. Sockets'
  BY <1>1 DEF IInv, TypeOK, Sockets
<1>4. Connections'
  <2>1. Position(queue') = {}
    BY <1>1 DEF Position
  <2>2. \A t \in Thread : sock'[t] # "open"
    BY <1>1
  <2> QED BY <1>1, <2>1, <2>2 DEF Connections, AtWork
<1>5. Answers'
  <2>1. \A t \in Thread : Answered(t)' <=> Answered(t)
    BY <1>1 DEF Answered
  <2>2. {t \in Thread : Answered(t)'} = {t \in Thread : Answered(t)}
    BY <2>1
  <2> QED BY ONLY <1>1, <2>1, <2>2, IInv DEF IInv, TypeOK, Answers
<1>6. JoinedHadByte' /\ Hopeless'
  BY <1>1 DEF IInv, JoinedHadByte, Hopeless
<1> QED BY <1>2, <1>3, <1>4, <1>5, <1>6 DEF IInv

(* The conjuncts that no step of a server that goes on disturbs. *)
LEMMA ServeKeeps ==
  ASSUME IInv, NEW from, NEW to, Serve(from, to), from # "gone"
  PROVE  JoinedHadByte' /\ Hopeless'
BY DEF IInv, JoinedHadByte, Hopeless, Serve, mainVars

(* A step that only takes the server further, but not to or from "close". *)
LEMMA GoesOnStep ==
  ASSUME IInv, UNCHANGED <<socketVars, serving, served>>,
         \/ Serve("bind", "accept") \/ Serve("process", "read") \/ Serve("read", "answer")
  PROVE  IInv'
<1>1. UNCHANGED <<mainI, created, failed, client, pc, rbyte, sock, sent, inbox, queue,
                  serving, served, spoiled>>
  BY DEF Serve, mainVars, socketVars
<1>2. \/ server = "bind" /\ server' = "accept"
      \/ server = "process" /\ server' = "read"
      \/ server = "read" /\ server' = "answer"
  BY DEF Serve
<1>3. TypeOK'
  BY <1>1, <1>2 DEF IInv, TypeOK
<1>4. Sockets'
  BY <1>1 DEF IInv, Sockets
<1>5. Connections'
  BY <1>1, <1>2 DEF IInv, Connections, Position, AtWork
<1>6. Answers'
  BY <1>1, <1>2 DEF IInv, Answers, Answered
<1>7. JoinedHadByte' /\ Hopeless'
  BY ServeKeeps
<1> QED BY <1>3, <1>4, <1>5, <1>6, <1>7 DEF IInv

LEMMA AcceptStep ==
  ASSUME IInv, Accept PROVE IInv'
<1>1. /\ server = "accept" /\ server' = "process" /\ queue # << >>
      /\ serving' = Head(queue) /\ queue' = Tail(queue)
      /\ UNCHANGED <<mainI, created, failed, client, pc, rbyte, sock, sent, inbox, served, spoiled>>
  BY DEF Accept, Serve, mainVars
<1>2. /\ Len(queue) \in Nat /\ Len(queue) >= 1 /\ queue' \in Seq(Thread)
      /\ Len(queue') = Len(queue) - 1 /\ serving' = queue[1]
      /\ \A k \in Position(queue') : queue'[k] = queue[k + 1]
  <2>1. queue \in Seq(Thread)
    BY DEF IInv, TypeOK
  <2>2. Len(queue) \in Nat /\ Len(queue) # 0 /\ Len(Tail(queue)) = Len(queue) - 1 /\ Tail(queue) \in Seq(Thread)
    BY <1>1, <2>1, EmptySeq, LenProperties, HeadTailProperties
  <2> QED BY <1>1, <2>1, <2>2, HeadTailProperties DEF Position
<1>3. /\ 1 \in Position(queue)
      /\ \A k \in Position(queue) : k = 1 \/ \E j \in Position(queue') : k = j + 1
      /\ \A k \in Position(queue') : k + 1 \in Position(queue) /\ k + 1 # 1
      /\ \A j, k \in Position(queue') : j + 1 = k + 1 => j = k
  <2>1. Len(queue) \in Nat /\ Len(queue) >= 1 /\ Len(queue') = Len(queue) - 1
    BY <1>2
  <2>2. \A k \in Position(queue) : k = 1 \/ (k - 1 \in Position(queue') /\ k = (k - 1) + 1)
    BY ONLY <2>1 DEF Position
  <2>3. 1 \in Position(queue) /\ \A k \in Position(queue') : k + 1 \in Position(queue) /\ k + 1 # 1
    BY ONLY <2>1 DEF Position
  <2>4. \A j, k \in Position(queue') : j + 1 = k + 1 => j = k
    BY ONLY <2>1 DEF Position
  <2> QED BY ONLY <2>2, <2>3, <2>4
<1>4. serving = Nobody
  BY <1>1 DEF IInv, Connections, AtWork
<1>5. queue[1] \in Thread /\ queue[1] # Nobody
  <2>1. queue[1] \in Thread
    BY <1>3, Places DEF IInv, TypeOK
  <2> QED BY <2>1 DEF Thread, Nobody
<1>6. TypeOK'
  BY <1>1, <1>2, <1>5 DEF IInv, TypeOK
<1>7. Sockets'
  BY <1>1 DEF IInv, Sockets
<1>8. Connections'
  <2>1. \A j, k \in Position(queue') : queue'[j] = queue'[k] => j = k
    <3> SUFFICES ASSUME NEW j \in Position(queue'), NEW k \in Position(queue'),
                        queue'[j] = queue'[k]
                 PROVE  j = k
      OBVIOUS
    <3>1. j + 1 \in Position(queue) /\ k + 1 \in Position(queue) /\ queue[j + 1] = queue[k + 1]
      BY ONLY <1>2, <1>3, queue'[j] = queue'[k], j \in Position(queue'), k \in Position(queue')
    <3>2. j + 1 = k + 1
      BY <3>1 DEF IInv, Connections
    <3> QED BY ONLY <1>3, <3>2, j \in Position(queue'), k \in Position(queue')
  <2>2. \A k \in Position(queue') : sock'[queue'[k]] = "open" /\ queue'[k] # serving'
    <3> SUFFICES ASSUME NEW k \in Position(queue')
                 PROVE  sock'[queue'[k]] = "open" /\ queue'[k] # serving'
      OBVIOUS
    <3>1. k + 1 \in Position(queue) /\ k + 1 # 1 /\ queue'[k] = queue[k + 1]
      BY ONLY <1>2, <1>3, k \in Position(queue')
    <3>2. sock[queue[k + 1]] = "open" /\ queue[k + 1] # queue[1]
      BY <1>3, <3>1 DEF IInv, Connections
    <3> QED BY ONLY <1>1, <1>2, <3>1, <3>2
  <2>3. \A t \in Thread : sock'[t] = "open" =>
          t = serving' \/ \E k \in Position(queue') : queue'[k] = t
    <3> SUFFICES ASSUME NEW t \in Thread, sock'[t] = "open", t # serving'
                 PROVE  \E k \in Position(queue') : queue'[k] = t
      OBVIOUS
    <3>1. PICK k \in Position(queue) : queue[k] = t
      BY <1>1, <1>4 DEF IInv, Connections, Thread, Nobody
    <3>2. k # 1
      BY <1>2, <3>1
    <3> QED BY <1>2, <1>3, <3>1, <3>2
  <2>4. sock'[serving'] = "open"
    BY <1>1, <1>2, <1>3 DEF IInv, Connections
  <2> QED BY <1>1, <1>2, <1>5, <2>1, <2>2, <2>3, <2>4 DEF Connections, AtWork
<1>9. Answers'
  BY <1>1 DEF IInv, Answers, Answered
<1>10. JoinedHadByte' /\ Hopeless'
  BY ServeKeeps DEF Accept
<1> QED BY <1>6, <1>7, <1>8, <1>9, <1>10 DEF IInv

(* The connection being served was not answered before. *)
LEMMA AnswerStep ==
  ASSUME IInv, Answer PROVE IInv'
<1>1. /\ server = "answer" /\ server' = "close" /\ inbox' = [inbox EXCEPT ![serving] = 1]
      /\ served' = served + 1
      /\ UNCHANGED <<mainI, created, failed, client, pc, rbyte, sock, sent, queue, serving, spoiled>>
  BY DEF Answer, Serve, mainVars
<1>2. serving \in Thread /\ sock[serving] = "open" /\ ~Answered(serving)
  <2>1. serving # Nobody /\ serving \in Thread \cup {Nobody}
    BY <1>1 DEF IInv, TypeOK, Connections, AtWork
  <2> QED BY <1>1, <2>1 DEF IInv, Connections, Answers
<1>3. TypeOK'
  BY <1>1, <1>2 DEF IInv, TypeOK
<1>4. Sockets'
  BY <1>1, <1>2 DEF IInv, TypeOK, Sockets
<1>5. Connections'
  BY <1>1 DEF IInv, Connections, Position, AtWork
<1>6. \A t \in Thread : Answered(t)' <=> Answered(t) \/ t = serving
  BY <1>1, <1>2 DEF IInv, TypeOK, Answered
<1>7. Answers'
  <2> DEFINE S == {t \in Thread : Answered(t)}
  <2>1. {t \in Thread : Answered(t)'} = S \cup {serving} /\ serving \notin S
    BY <1>2, <1>6
  <2>2. Cardinality(S \cup {serving}) = Cardinality(S) + 1 /\ Cardinality(S) \in Nat
    BY <1>2, <2>1, OneMore
  <2>3. failed' = 0 => served' = Cardinality({t \in Thread : Answered(t)'})
    BY <1>1, <2>1, <2>2 DEF IInv, Answers
  <2> QED BY <1>1, <1>2, <1>6, <2>3 DEF IInv, Answers
<1>8. JoinedHadByte' /\ Hopeless'
  BY ServeKeeps DEF Answer
<1> QED BY <1>3, <1>4, <1>5, <1>7, <1>8 DEF IInv

(* The server closes the connection it has, answered or left by its client. *)
LEMMA ClosesStep ==
  ASSUME IInv, Close \/ ReadFails PROVE IInv'
<1>1. /\ server' = "accept" /\ sock' = [sock EXCEPT ![serving] = "shut"] /\ serving' = Nobody
      /\ UNCHANGED <<mainI, created, failed, client, pc, rbyte, sent, inbox, queue, served, spoiled>>
  BY DEF Close, ReadFails, Serve, mainVars
<1>2. server = "close" \/ (server = "read" /\ client # "running")
  BY DEF Close, ReadFails, Serve
<1>3. serving \in Thread /\ sock[serving] = "open"
  <2>1. serving # Nobody /\ serving \in Thread \cup {Nobody}
    BY <1>2 DEF IInv, TypeOK, Connections, AtWork
  <2> QED BY <2>1 DEF IInv, Connections
<1>4. \A t \in Thread : sock'[t] = IF t = serving THEN "shut" ELSE sock[t]
  BY <1>1 DEF IInv, TypeOK
<1>5. TypeOK'
  BY <1>1, <1>3 DEF IInv, TypeOK
<1>6. Sockets'
  BY <1>1, <1>3, <1>4 DEF IInv, Sockets
<1>7. Connections'
  <2>1. \A k \in Position(queue) : queue[k] \in Thread
    BY Places DEF IInv, TypeOK
  <2>2. \A k \in Position(queue) : sock'[queue[k]] = "open" /\ queue[k] # Nobody
    BY <1>4, <2>1 DEF IInv, Connections, Thread, Nobody
  <2> QED BY <1>1, <1>4, <2>2 DEF IInv, Connections, Position, AtWork
<1>8. Answers'
  <2>1. Answered(serving) \/ client # "running"
    BY <1>2, <1>3 DEF IInv, Answers
  <2>2. \A t \in Thread : sock[t] = "open" /\ t # serving => ~Answered(t)
    BY DEF IInv, Answers
  <2>3. \A t \in Thread : Answered(t)' <=> Answered(t)
    BY <1>1 DEF Answered
  <2>4. server # "gone"
    BY <1>2
  <2>5. {t \in Thread : Answered(t)'} = {t \in Thread : Answered(t)}
    BY <2>3
  <2> QED BY <1>1, <1>4, <2>1, <2>2, <2>3, <2>4, <2>5 DEF IInv, Answers
<1>9. JoinedHadByte' /\ Hopeless'
  BY ServeKeeps DEF Close, ReadFails
<1> QED BY <1>5, <1>6, <1>7, <1>8, <1>9 DEF IInv

-----------------------------------------------------------------------------
LEMMA Unmoved == ASSUME IInv, UNCHANGED vars PROVE IInv'
<1>1. UNCHANGED <<mainI, created, failed, client, pc, rbyte, sock, sent, inbox, queue, server,
                  serving, served, spoiled>>
  BY DEF vars, mainVars, socketVars, serverVars
<1> QED BY <1>1, ConnectionsKept, AnswersKept
        DEF IInv, TypeOK, Sockets, JoinedHadByte, Hopeless

LEMMA Inductive == IInv /\ [Next]_vars => IInv'
<1> SUFFICES ASSUME IInv, [Next]_vars PROVE IInv'
  OBVIOUS
<1>1. CASE MainStep \/ MainFaults
  BY <1>1, MainsStep
<1>2. CASE \E t \in Thread : ThreadStep(t) \/ ThreadFails(t)
  BY <1>2, ThreadsStep
<1>3. CASE ServerStep
  BY <1>3, GoesOnStep, AcceptStep, AnswerStep, ClosesStep DEF ServerStep, Listen, Open, ReadLine
<1>4. CASE ServerFails
  BY <1>4, ServerEndsStep DEF ServerFails, BindFails, CallFails, Crash, Sigpipe
<1>5. CASE UNCHANGED vars
  BY <1>5, Unmoved
<1> QED BY <1>1, <1>2, <1>3, <1>4, <1>5 DEF Next

LEMMA Invariance == Spec => []IInv
BY Initially, Inductive, PTL DEF Spec

-----------------------------------------------------------------------------
(* The client of client.c and the server of webserver.c stay within their  *)
(* types; main joins only threads there are (client.c:62-72).              *)
THEOREM TypeCorrect == Spec => []TypeOK
<1>1. IInv => TypeOK
  BY DEF IInv
<1> QED BY <1>1, Invariance, PTL

(* No connection is forgotten (webserver.c:25-41): an open one is in the   *)
(* queue, once, or with the server; with any number of threads and any     *)
(* backlog.                                                                *)
THEOREM OpenIsSomewhere == Spec => []NoneForgotten
<1>1. IInv => NoneForgotten
  <2> SUFFICES ASSUME IInv, NEW t \in Thread, sock[t] = "open"
               PROVE  IF serving = t THEN t \notin Range(queue)
                      ELSE \E k \in DOMAIN queue :
                             queue[k] = t /\ \A j \in DOMAIN queue \ {k} : queue[j] # t
    BY DEF NoneForgotten
  <2>1. queue \in Seq(Thread)
    BY DEF IInv, TypeOK
  <2>2. DOMAIN queue = Position(queue)
    BY <2>1, Places
  <2>3. CASE serving = t
    <3>1. t \notin Range(queue)
      BY <2>1, <2>3, Places DEF IInv, Connections
    <3> QED BY <2>3, <3>1
  <2>4. CASE serving # t
    <3>1. PICK k \in Position(queue) : queue[k] = t
      BY <2>4 DEF IInv, Connections
    <3>2. \A j \in Position(queue) \ {k} : queue[j] # t
      BY <3>1 DEF IInv, Connections
    <3> QED BY <2>2, <2>4, <3>1, <3>2
  <2> QED BY <2>3, <2>4
<1> QED BY <1>1, Invariance, PTL

(* What main prints is true (client.c:74): when it says that nthread       *)
(* requests were handled, the server answered that many and none was asked *)
(* again, for any number of threads, crashes and failing calls, if every   *)
(* result was read right.                                                  *)
THEOREM MainTellsTheTruth == Spec => []PrintIsTrue
<1>1. IInv => PrintIsTrue
  <2> SUFFICES ASSUME IInv, client = "returned", ~spoiled PROVE served = nthread /\ failed = 0
    BY DEF PrintIsTrue
  <2>1. failed = 0
    BY DEF IInv, TypeOK, Hopeless
  <2>2. {t \in Thread : Answered(t)} = Thread
    BY DEF IInv, JoinedHadByte, Answered
  <2>3. Cardinality(Thread) = nthread
    <3>1. Cardinality(1 .. nthread) = nthread - 1 + 1
      BY FS_Interval, ClientServerAssumption, SMT
    <3> QED BY <3>1, ClientServerAssumption DEF Thread
  <2> QED BY <2>1, <2>2, <2>3 DEF IInv, Answers
<1> QED BY <1>1, Invariance, PTL
=============================================================================
