----------------------------- MODULE WebServer -----------------------------
(***************************************************************************)
(* The multi-threaded web server of p2, webserver_multi.c with process()   *)
(* of net.c: a listener that accepts connections into a shared buffer, a   *)
(* pool of workers that take them out, and main, which waits for the       *)
(* listener.  A step is a system call or a stretch of code that no other   *)
(* thread can observe: the code between lock and unlock is one step, since *)
(* request[] is touched nowhere else and sem_getvalue is called once in it.*)
(*                                                                         *)
(* The semaphores, the mutex and the file descriptors are the operating    *)
(* system's.  Descriptor 0 is the standard input; a connection takes the   *)
(* lowest free descriptor, as accept() does (1, 2 and the listening socket *)
(* are left out of the numbering).                                         *)
(***************************************************************************)
EXTENDS Integers, FiniteSets

CONSTANTS
  MAX_REQUEST,    \* slots of the shared buffer
  numThread,      \* workers in the pool
  CRASH,          \* TRUE when the crash rate is not 0
  AcceptMayFail,  \* TRUE when accept() may fail with descriptors left
  ClientsLeave,   \* TRUE when a client may go before it is answered
  MaxFd,          \* the largest descriptor of a connection
  MaxConn         \* bound: connections made by the clients

ASSUME WebServerAssumption ==
  /\ MAX_REQUEST \in Nat \ {0}
  /\ numThread \in Nat \ {0}
  /\ CRASH \in BOOLEAN
  /\ AcceptMayFail \in BOOLEAN
  /\ ClientsLeave \in BOOLEAN
  /\ MaxFd \in Nat \ {0}
  /\ MaxConn \in Nat

Listener == 0
Worker   == 1 .. 2 * numThread   \* main may start a second thread per slot
Thread   == {Listener} \cup Worker
Nobody   == -1
Fd       == 0 .. MaxFd
Slot     == 0 .. MAX_REQUEST - 1

VARIABLES
  sem_empty, sem_full,  \* the values of the two semaphores
  mutex,                \* the thread that holds the lock, or Nobody
  request,              \* the shared buffer
  req,                  \* req[t]: s of producer(), req of consumer()
  pc,                   \* pc[t]: the call that thread t is in
  fdTable,              \* the connection behind each descriptor
  accepted,             \* number of connections accepted
  unread,               \* the connections whose request is still to be read
  reading,              \* reading[w]: the connection that w waits for a line of
  mainPc, mainI, pool,  \* thread_control: its place, its i and its pool[]
  exited,               \* the whole process has ended
  untaken               \* history: connections stored and not yet taken

threads == <<pc, req>>
sockets == <<fdTable, accepted, unread, reading>>
control == <<mainPc, mainI, pool>>
vars == <<sem_empty, sem_full, mutex, request, threads, sockets, control, exited, untaken>>

(* A connection is its number; 0 is the terminal and -1 a closed one.  A   *)
(* slot holds a descriptor; conn, which connection it stood for when it    *)
(* was stored, is there for the properties only.                           *)
Stdin   == 0
Closed  == -1
Entry   == [fd : Fd, conn : 0 .. MaxConn]
Unset   == [fd |-> 0, conn |-> Stdin]   \* request[] starts as zeros

Init ==
  /\ sem_empty = MAX_REQUEST
  /\ sem_full = 0
  /\ mutex = Nobody
  /\ request = [k \in Slot |-> Unset]
  /\ req = [t \in Thread |-> Unset]
  /\ pc = [t \in Thread |-> IF t = Listener THEN "bind"
                            ELSE IF t <= numThread THEN "wait" ELSE "unborn"]
  /\ fdTable = [fd \in Fd |-> IF fd = 0 THEN Stdin ELSE Closed]
  /\ accepted = 0
  /\ unread = {}
  /\ reading = [w \in Worker |-> Closed]
  /\ mainPc = "join"
  /\ mainI = 1
  /\ pool = [k \in 1 .. numThread |-> k]
  /\ exited = FALSE
  /\ untaken = {}

-----------------------------------------------------------------------------
Goto(t, from, to) == pc[t] = from /\ pc' = [pc EXCEPT ![t] = to]

(* Mutant: the lock is not taken. *)
LockIgnored(t) ==
  /\ Goto(t, "lock", "critical")
  /\ mutex' = t
  /\ UNCHANGED <<sem_empty, sem_full, request, req, sockets, control, exited, untaken>>

(* pthread_mutex_lock, in producer() and in consumer(). *)
Lock(t) ==
  /\ Goto(t, "lock", "critical")
  /\ mutex = Nobody
  /\ mutex' = t
  /\ UNCHANGED <<sem_empty, sem_full, request, req, sockets, control, exited, untaken>>

(* listener(): bind() and listen() succeed, or the program exits. *)
Bind ==
  /\ Goto(Listener, "bind", "accept")
  /\ UNCHANGED <<sem_empty, sem_full, mutex, request, req, sockets,
                 control, exited, untaken>>

BindFails ==
  /\ pc[Listener] = "bind"
  /\ exited' = TRUE
  /\ UNCHANGED <<sem_empty, sem_full, mutex, request, threads, sockets,
                 control, untaken>>

(* listener(): a client connects; the descriptor is the lowest free one. *)
Accept ==
  \E fd \in Fd :
    /\ fdTable[fd] = Closed
    /\ \A lower \in 0 .. fd - 1 : fdTable[lower] # Closed
    /\ accepted < MaxConn
    /\ Goto(Listener, "accept", "wait")
    /\ accepted' = accepted + 1
    /\ fdTable' = [fdTable EXCEPT ![fd] = accepted + 1]
    /\ unread' = unread \cup {accepted + 1}
    /\ req' = [req EXCEPT ![Listener] = [fd |-> fd, conn |-> accepted + 1]]
    /\ UNCHANGED <<sem_empty, sem_full, mutex, request, reading, control, exited, untaken>>

(* accept() fails, for want of a descriptor or for an aborted connection:  *)
(* the listener leaves its loop and ends.                                  *)
AcceptFails ==
  /\ AcceptMayFail \/ \A fd \in Fd : fdTable[fd] # Closed
  /\ Goto(Listener, "accept", "dead")
  /\ UNCHANGED <<sem_empty, sem_full, mutex, request, req, sockets,
                 control, exited, untaken>>

(* Mutant: sem_wait(&sem_empty) is forgotten. *)
WaitNothing ==
  /\ Goto(Listener, "wait", "lock")
  /\ UNCHANGED <<sem_empty, sem_full, mutex, request, req, sockets,
                 control, exited, untaken>>

(* producer(). *)
WaitEmpty ==
  /\ Goto(Listener, "wait", "lock")
  /\ sem_empty > 0
  /\ sem_empty' = sem_empty - 1
  /\ UNCHANGED <<sem_full, mutex, request, req, sockets, control, exited, untaken>>

Store ==
  /\ Goto(Listener, "critical", "post")
  /\ request' = [request EXCEPT ![sem_full] = req[Listener]]
  /\ untaken' = untaken \cup {req[Listener].conn}
  /\ mutex' = Nobody
  /\ UNCHANGED <<sem_empty, sem_full, req, sockets, control, exited>>

PostFull ==
  /\ Goto(Listener, "post", "accept")
  /\ sem_full' = sem_full + 1
  /\ UNCHANGED <<sem_empty, mutex, request, req, sockets, control, exited, untaken>>

-----------------------------------------------------------------------------
(* consumer(). *)
WaitFull(w) ==
  /\ Goto(w, "wait", "lock")
  /\ sem_full > 0
  /\ sem_full' = sem_full - 1
  /\ UNCHANGED <<sem_empty, mutex, request, req, sockets, control, exited, untaken>>

(* Mutant: the mutex is not unlocked. *)
TakeKeepsLock(w) ==
  /\ Goto(w, "critical", "post")
  /\ req' = [req EXCEPT ![w] = request[sem_full]]
  /\ untaken' = untaken \ {request[sem_full].conn}
  /\ UNCHANGED <<sem_empty, sem_full, mutex, request, sockets, control, exited>>

(* The slot is chosen by the value sem_full has now, not when it was       *)
(* decremented.                                                            *)
Take(w) ==
  /\ Goto(w, "critical", "post")
  /\ req' = [req EXCEPT ![w] = request[sem_full]]
  /\ untaken' = untaken \ {request[sem_full].conn}
  /\ mutex' = Nobody
  /\ UNCHANGED <<sem_empty, sem_full, request, sockets, control, exited>>

(* Mutant: sem_post(&sem_empty) is forgotten. *)
PostNothing(w) ==
  /\ Goto(w, "post", "process")
  /\ UNCHANGED <<sem_empty, sem_full, mutex, request, req, sockets,
                 control, exited, untaken>>

PostEmpty(w) ==
  /\ Goto(w, "post", "process")
  /\ sem_empty' = sem_empty + 1
  /\ UNCHANGED <<sem_full, mutex, request, req, sockets, control, exited, untaken>>

(* process(): the simulated crash closes the connection and ends the thread. *)
Crash(w) ==
  /\ CRASH
  /\ Goto(w, "process", "dead")
  /\ fdTable' = [fdTable EXCEPT ![req[w].fd] = Closed]
  /\ UNCHANGED <<sem_empty, sem_full, mutex, request, req, accepted, unread, reading,
                 control, exited, untaken>>

(* process(): fdopen() gives a stream on a descriptor that is open. *)
Open(w) ==
  /\ fdTable[req[w].fd] # Closed
  /\ Goto(w, "process", "opened")
  /\ UNCHANGED <<sem_empty, sem_full, mutex, request, req, sockets,
                 control, exited, untaken>>

(* process(): fdopen() fails on a descriptor that is closed, and the       *)
(* message prints the number as a string (net.c:112): the C library prints *)
(* a null pointer as text, and any other number is a wild read that kills  *)
(* the process.                                                            *)
OpenFails(w) ==
  /\ fdTable[req[w].fd] = Closed
  /\ Goto(w, "process", "wait")
  /\ exited' = (req[w].fd # 0)
  /\ UNCHANGED <<sem_empty, sem_full, mutex, request, req, sockets, control, untaken>>

(* process(), after its usleep(): fgets() begins to read what the          *)
(* descriptor stands for by then.                                          *)
Read(w) ==
  /\ Goto(w, "opened", "serving")
  /\ reading' = [reading EXCEPT ![w] = fdTable[req[w].fd]]
  /\ UNCHANGED <<sem_empty, sem_full, mutex, request, req, fdTable, accepted, unread,
                 control, exited, untaken>>

(* The read is bound to end: it fails, or finds the one request that each  *)
(* client sends.  A read of a request that another worker took, or of the  *)
(* terminal, need not end.                                                 *)
ReadEnds(w) == reading[w] \in unread \cup {Closed}
ReadMayEnd(w) == ReadEnds(w) \/ reading[w] = Stdin \/ ClientsLeave

(* Mutant: the worker stays with its client. *)
ServeForever(w) ==
  /\ Goto(w, "serving", "serving")
  /\ UNCHANGED <<sem_empty, sem_full, mutex, request, req, sockets, control, exited, untaken>>

(* process(): the request line is read and answered, or the client or the  *)
(* terminal is at its end; fclose() closes the descriptor, whoever has it. *)
(* Nobody handles SIGPIPE: when the client has gone, the answer may kill   *)
(* the process.                                                            *)
Finish(w) ==
  /\ Goto(w, "serving", "wait")
  /\ ReadMayEnd(w)
  /\ unread' = unread \ {reading[w]}
  /\ reading' = [reading EXCEPT ![w] = Closed]
  /\ fdTable' = [fdTable EXCEPT ![req[w].fd] = Closed]
  /\ exited' \in {FALSE, ClientsLeave}
  /\ UNCHANGED <<sem_empty, sem_full, mutex, request, req, accepted, control, untaken>>

-----------------------------------------------------------------------------
(* thread_control(). *)
JoinServer ==
  /\ mainPc = "join"
  /\ pc[Listener] = "dead"
  /\ mainPc' = "loop"
  /\ UNCHANGED <<sem_empty, sem_full, mutex, request, threads, sockets,
                 mainI, pool, exited, untaken>>

(* pthread_tryjoin_np answers 0 for a thread that has ended: it is joined, *)
(* and a consumer is started in the slot of a thread that has not.         *)
TryJoin ==
  /\ mainPc = "loop"
  /\ mainI <= numThread
  /\ mainI' = mainI + 1
  /\ IF pc[pool[mainI]] = "dead"
     THEN UNCHANGED <<pc, pool>>
     ELSE /\ pool' = [pool EXCEPT ![mainI] = numThread + mainI]
          /\ pc' = [pc EXCEPT ![numThread + mainI] = "wait"]
  /\ UNCHANGED <<sem_empty, sem_full, mutex, request, req, sockets,
                 mainPc, exited, untaken>>

(* main returns and takes every thread with it. *)
MainReturns ==
  /\ mainPc = "loop"
  /\ mainI > numThread
  /\ mainPc' = "returned"
  /\ exited' = TRUE
  /\ UNCHANGED <<sem_empty, sem_full, mutex, request, threads, sockets,
                 mainI, pool, untaken>>

-----------------------------------------------------------------------------
ListenerStep == Lock(Listener) \/ WaitEmpty \/ Store \/ PostFull

WorkerStep(w) ==
  WaitFull(w) \/ Lock(w) \/ Take(w) \/ PostEmpty(w)
    \/ Crash(w) \/ Open(w) \/ OpenFails(w) \/ Read(w) \/ Finish(w)

MainStep == JoinServer \/ TryJoin \/ MainReturns

Next ==
  /\ ~exited
  /\ \/ Bind \/ BindFails \/ Accept \/ AcceptFails \/ ListenerStep
     \/ \E w \in Worker : WorkerStep(w)
     \/ MainStep

Spec == Init /\ [][Next]_vars

(* The scheduler runs every thread that can run.  Whether and when a       *)
(* client connects is its own affair, but each sends its request or goes   *)
(* away, so the first worker to read it gets a line or the end.  Nothing   *)
(* ends a read of the terminal, nor a second read of a connection.         *)
FairSpec ==
  /\ Spec
  /\ WF_vars(~exited /\ ListenerStep)
  /\ \A w \in Worker :
       WF_vars(~exited /\ (pc[w] = "serving" => ReadEnds(w)) /\ WorkerStep(w))
  /\ WF_vars(~exited /\ MainStep)

-----------------------------------------------------------------------------
(* Properties. *)

Alive == {w \in Worker : pc[w] \notin {"unborn", "dead"}}
Stuck == {w \in Worker : pc[w] = "serving" /\ ~ReadEnds(w)}
At(label) == {t \in Thread : pc[t] = label}

(* Types; the lock is held exactly while its holder is between lock and    *)
(* unlock.                                                                 *)
TypeOK ==
  /\ sem_empty \in 0 .. MAX_REQUEST
  /\ sem_full \in 0 .. MAX_REQUEST
  /\ mutex \in Thread \cup {Nobody}
  /\ request \in [Slot -> Entry]
  /\ req \in [Thread -> Entry]
  /\ pc \in [Thread -> {"bind", "accept", "wait", "lock", "critical", "post", "process",
                        "opened", "serving", "dead", "unborn"}]
  /\ fdTable \in [Fd -> -1 .. MaxConn]
  /\ accepted \in 0 .. MaxConn
  /\ unread \subseteq 0 .. MaxConn
  /\ reading \in [Worker -> -1 .. MaxConn]
  /\ mainPc \in {"join", "loop", "returned"}
  /\ mainI \in 1 .. numThread + 1
  /\ pool \in [1 .. numThread -> Worker]
  /\ exited \in BOOLEAN
  /\ untaken \subseteq 0 .. MaxConn
  /\ mutex = Nobody <=> At("critical") = {}
  /\ mutex # Nobody => At("critical") = {mutex}

(* Every slot is accounted for by a token of sem_empty, a token of         *)
(* sem_full, or a thread between its sem_wait and its sem_post, whatever   *)
(* threads crash or are started meanwhile: a crash comes only after the    *)
(* token was given back (webserver_multi.c:43-45, net.c:98-102).           *)
TokenConservation ==
  sem_empty + sem_full + Cardinality(At("lock") \cup At("critical") \cup At("post"))
    = MAX_REQUEST

(* The value of sem_full that producer() and consumer() use as an index is *)
(* within request[] (webserver_multi.c:26, 40): it is read when other      *)
(* threads may already have waited or posted.                              *)
SlotInBounds == At("critical") # {} => sem_full < MAX_REQUEST

(* The three waits never close a circle: while the listener waits for an   *)
(* empty slot or for the lock, some thread that is not in process() and    *)
(* not dead can take its next step, or every worker is dead or busy.       *)
NoCircularWait ==
  pc[Listener] \in {"wait", "lock"} =>
    \/ pc[Listener] = "wait" /\ sem_empty > 0
    \/ mutex = Nobody /\ At("lock") # {}
    \/ At("critical") \cup At("post") # {}
    \/ sem_full > 0 /\ (At("wait") \ {Listener} # {} \/ Alive \subseteq At("process") \cup At("opened") \cup At("serving"))

(* Each connection that was stored is taken once: a worker takes only one  *)
(* that nobody took, and one that nobody took stays in the buffer          *)
(* (webserver_multi.c:26, 40: the slot is not fixed when the token is      *)
(* taken, so neither holds).                                               *)
EachRequestTakenOnce ==
  [][/\ \A w \in Worker :
          pc[w] = "critical" /\ pc'[w] = "post" => req'[w].conn \in untaken
     /\ \A conn \in untaken' : \E k \in Slot : request'[k].conn = conn]_vars

(* A crashed worker is replaced: the pool is soon at its size again. *)
CrashedAreReplaced ==
  Cardinality(Alive) < numThread ~> (Cardinality(Alive) = numThread \/ exited)

(* The listener is not stuck while a worker can go on: it stores every     *)
(* connection it accepts and comes back to accept(), unless the process    *)
(* ends or each worker has crashed or reads what nothing may come from: a  *)
(* slot that was never set, or a connection that was taken twice.          *)
ListenerReturns ==
  pc[Listener] \in {"wait", "lock", "critical", "post"} ~>
    (pc[Listener] = "accept" \/ exited \/ Alive \subseteq Stuck)

(* The buffer drains while a worker can go on: no count of sem_full is     *)
(* left over while such a worker is idle.                                  *)
BufferDrains == sem_full > 0 ~> (sem_full = 0 \/ exited \/ Alive \subseteq Stuck)
=============================================================================
