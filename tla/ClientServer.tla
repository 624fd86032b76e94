---------------------------- MODULE ClientServer ----------------------------
(***************************************************************************)
(* The client of p2, client.c, and the web server it was written for, the  *)
(* single-threaded one: webserver.c with process() of net.c.  The client   *)
(* starts nthread threads that ask for one page each, joins them in order, *)
(* and starts a thread again when its result says that nothing came.  The  *)
(* server serves one connection at a time.  When a process ends, however   *)
(* it does, the kernel closes what it had open.                            *)
(*                                                                         *)
(* A step is a system call, or a stretch of code nobody else can observe.  *)
(* A request is a line that was sent or not; an answer is some bytes.      *)
(***************************************************************************)
EXTENDS Integers, Sequences, SequencesExt

CONSTANTS
  nthread,       \* threads of the client
  Backlog,       \* listen(): connections that wait before others are kept out
  CRASH,         \* TRUE when the crash rate is not 0
  CallsMayFail,  \* TRUE when a call may fail for want of memory or descriptors
  MaxFailed      \* bound: threads started again

ASSUME ClientServerAssumption ==
  /\ nthread \in Nat \ {0}
  /\ Backlog \in Nat
  /\ CRASH \in BOOLEAN
  /\ CallsMayFail \in BOOLEAN
  /\ MaxFailed \in Nat

Thread == 1 .. nthread
Nobody == 0
Fault  == -1     \* what reading an address that is no longer mapped gives

VARIABLES
  mainI,     \* main's i; the threads below it are joined
  created,   \* threads that main has started the first time
  failed,    \* threads started again
  client,    \* "running", or how the client's process ended
  pc,        \* pc[t]: the call that thread t is in
  rbyte,     \* rbyte[t]: 0 while nothing was received, then 1
  sock,      \* sock[t]: "none", "open", or "shut" when the server has closed it
  sent,      \* sent[t]: the request line is on its way or has arrived
  inbox,     \* inbox[t]: bytes that arrived and were not received
  queue,     \* connections made that the server has not accepted
  server,    \* the call the server is in, "gone" when its process has ended
  serving,   \* the thread whose connection is being processed, or Nobody
  served,    \* history: connections that were answered
  spoiled    \* history: a result was read that is not what the thread left

mainVars   == <<mainI, created, failed>>
socketVars == <<sock, sent, inbox, queue>>
serverVars == <<server, serving, served>>
vars == <<mainVars, client, pc, rbyte, socketVars, serverVars, spoiled>>

Init ==
  /\ mainI = 1 /\ created = 0 /\ failed = 0
  /\ client = "running"
  /\ pc = [t \in Thread |-> "unborn"]
  /\ rbyte = [t \in Thread |-> 0]
  /\ sock = [t \in Thread |-> "none"]
  /\ sent = [t \in Thread |-> FALSE]
  /\ inbox = [t \in Thread |-> 0]
  /\ queue = << >>
  /\ server = "bind" /\ serving = Nobody /\ served = 0
  /\ spoiled = FALSE

-----------------------------------------------------------------------------
(* client.c, the threads. *)

(* exit(1) or a signal in one thread ends them all. *)
ClientExits(how) ==
  /\ client' = how
  /\ UNCHANGED <<mainVars, pc, rbyte, socketVars, serverVars, spoiled>>

Goto(t, from, to) == pc[t] = from /\ pc' = [pc EXCEPT ![t] = to]

Listening == server \notin {"bind", "gone"}
QueueFull == Len(queue) > Backlog

(* The kernel makes the connection; the server has not accepted it yet. *)
Connect(t) ==
  /\ Goto(t, "connect", "send")
  /\ Listening /\ ~QueueFull
  /\ queue' = Append(queue, t)
  /\ sock' = [sock EXCEPT ![t] = "open"]
  /\ UNCHANGED <<mainVars, client, rbyte, sent, inbox, serverVars, spoiled>>

ConnectRefused(t) ==
  /\ pc[t] = "connect"
  /\ ~Listening
  /\ ClientExits("exit")

(* The connection times out in a full queue, or a call before it fails:    *)
(* socket(), or the look-up of the host's address.                         *)
ConnectFails(t) ==
  /\ pc[t] = "connect"
  /\ QueueFull \/ CallsMayFail
  /\ ClientExits("exit")

(* Mutant: the request is not sent. *)
SendNothing(t) ==
  /\ Goto(t, "send", "recv")
  /\ UNCHANGED <<mainVars, client, rbyte, socketVars, serverVars, spoiled>>

(* What is sent to a socket that is shut goes nowhere ... *)
Send(t) ==
  /\ Goto(t, "send", "recv")
  /\ sent' = [sent EXCEPT ![t] = TRUE]
  /\ UNCHANGED <<mainVars, client, rbyte, sock, inbox, queue, serverVars, spoiled>>

(* ... unless its reset has come back: an error, or a SIGPIPE. *)
SendFails(t) ==
  /\ pc[t] = "send"
  /\ sock[t] = "shut"
  /\ ClientExits("exit")

Recv(t) ==
  /\ pc[t] = "recv"
  /\ inbox[t] > 0
  /\ rbyte' = [rbyte EXCEPT ![t] = 1]
  /\ inbox' = [inbox EXCEPT ![t] = 0]
  /\ UNCHANGED <<mainVars, client, pc, sock, sent, queue, serverVars, spoiled>>

(* The end of the bytes, or an error, which is only reported. *)
RecvEnds(t) ==
  /\ Goto(t, "recv", "ended")
  /\ inbox[t] = 0
  /\ sock[t] = "shut"
  /\ UNCHANGED <<mainVars, client, rbyte, socketVars, serverVars, spoiled>>

ThreadStep(t) ==
  /\ client = "running"
  /\ Connect(t) \/ ConnectRefused(t) \/ Send(t) \/ Recv(t) \/ RecvEnds(t)

ThreadFails(t) ==
  /\ client = "running"
  /\ ConnectFails(t) \/ SendFails(t)

-----------------------------------------------------------------------------
(* client.c, main. *)

Create ==
  /\ created < nthread
  /\ created' = created + 1
  /\ pc' = [pc EXCEPT ![created + 1] = "connect"]
  /\ UNCHANGED <<mainI, failed, client, rbyte, socketVars, serverVars, spoiled>>

(* Mutant: only a negative result is a failure. *)
NegativeFailed(result) == result < 0

Failed(result) == result <= 0

(* The thread has ended and *tret is on the stack it had: what is read     *)
(* there need not be its rbyte, if the stack is there at all.              *)
Joined(result) ==
  /\ created = nthread
  /\ pc[mainI] = "ended"
  /\ spoiled' = (spoiled \/ result # rbyte[mainI])

(* Mutant: one thread too many is joined. *)
JoinOneMore(result) ==
  /\ ~Failed(result)
  /\ mainI' = mainI + 1
  /\ client' = IF mainI > nthread THEN "returned" ELSE "running"
  /\ UNCHANGED <<created, failed, pc, rbyte, socketVars, serverVars>>

JoinNext(result) ==
  /\ ~Failed(result)
  /\ IF mainI = nthread
     THEN client' = "returned" /\ UNCHANGED mainI
     ELSE mainI' = mainI + 1 /\ UNCHANGED client
  /\ UNCHANGED <<created, failed, pc, rbyte, socketVars, serverVars>>

StartAgain(result) ==
  /\ Failed(result)
  /\ failed < MaxFailed
  /\ failed' = failed + 1
  /\ pc' = [pc EXCEPT ![mainI] = "connect"]
  /\ rbyte' = [rbyte EXCEPT ![mainI] = 0]
  /\ sock' = [sock EXCEPT ![mainI] = "none"]
  /\ sent' = [sent EXCEPT ![mainI] = FALSE]
  /\ inbox' = [inbox EXCEPT ![mainI] = 0]
  /\ UNCHANGED <<mainI, created, client, queue, serverVars>>

ReadFaults ==
  /\ client' = "killed"
  /\ UNCHANGED <<mainVars, pc, rbyte, socketVars, serverVars>>

MainStep ==
  /\ client = "running"
  /\ \/ Create
     \/ \E result \in {0, 1} : Joined(result) /\ (JoinNext(result) \/ StartAgain(result))

MainFaults == client = "running" /\ Joined(Fault) /\ ReadFaults

-----------------------------------------------------------------------------
(* webserver.c: req_handler(), and process() of net.c. *)

(* The process ends; connections that wait are reset. *)
ServerEnds ==
  /\ server' = "gone"
  /\ serving' = Nobody
  /\ queue' = << >>
  /\ sock' = [t \in Thread |-> IF sock[t] = "open" THEN "shut" ELSE sock[t]]
  /\ UNCHANGED <<mainVars, client, pc, rbyte, sent, inbox, served, spoiled>>

Serve(from, to) ==
  /\ server = from /\ server' = to
  /\ UNCHANGED <<mainVars, client, pc, rbyte, spoiled>>

Listen == Serve("bind", "accept") /\ UNCHANGED <<socketVars, serving, served>>

BindFails == server = "bind" /\ ServerEnds

Accept ==
  /\ Serve("accept", "process")
  /\ queue # << >>
  /\ serving' = Head(queue)
  /\ queue' = Tail(queue)
  /\ UNCHANGED <<sock, sent, inbox, served>>

(* accept() fails and the loop ends; or fdopen() fails, and the descriptor *)
(* is printed as if it were a string.                                      *)
CallFails ==
  /\ CallsMayFail
  /\ server \in {"accept", "process"}
  /\ ServerEnds

(* The thread that ends is the only one. *)
Crash == CRASH /\ server = "process" /\ ServerEnds

Open == Serve("process", "read") /\ UNCHANGED <<socketVars, serving, served>>

ReadLine ==
  /\ Serve("read", "answer")
  /\ sent[serving]
  /\ UNCHANGED <<socketVars, serving, served>>

Answer ==
  /\ Serve("answer", "close")
  /\ inbox' = [inbox EXCEPT ![serving] = 1]
  /\ served' = served + 1
  /\ UNCHANGED <<sock, sent, queue, serving>>

(* Nobody handles the SIGPIPE that a client leaves behind. *)
Sigpipe ==
  /\ server \in {"answer", "close"}
  /\ client # "running"
  /\ ServerEnds

(* Mutant: a stream that is not closed. *)
CloseNothing ==
  /\ Serve("close", "accept")
  /\ serving' = Nobody
  /\ UNCHANGED <<socketVars, served>>

Close ==
  /\ Serve("close", "accept")
  /\ sock' = [sock EXCEPT ![serving] = "shut"]
  /\ serving' = Nobody
  /\ UNCHANGED <<sent, inbox, queue, served>>

(* The client has gone and left no line. *)
ReadFails ==
  /\ Serve("read", "accept")
  /\ client # "running" /\ ~sent[serving]
  /\ sock' = [sock EXCEPT ![serving] = "shut"]
  /\ serving' = Nobody
  /\ UNCHANGED <<sent, inbox, queue, served>>

ServerStep == Listen \/ Accept \/ Open \/ ReadLine \/ ReadFails \/ Answer \/ Close

ServerFails == BindFails \/ CallFails \/ Crash \/ Sigpipe

-----------------------------------------------------------------------------
Next ==
  \/ MainStep \/ MainFaults
  \/ \E t \in Thread : ThreadStep(t) \/ ThreadFails(t)
  \/ ServerStep \/ ServerFails

Spec == Init /\ [][Next]_vars

(* The scheduler runs main, each thread and the server when they can run;  *)
(* nothing has to fail.                                                    *)
FairSpec ==
  /\ Spec
  /\ WF_vars(MainStep)
  /\ \A t \in Thread : WF_vars(ThreadStep(t))
  /\ WF_vars(ServerStep)

-----------------------------------------------------------------------------
(* Properties. *)

(* Types; main joins only threads that there are. *)
TypeOK ==
  /\ mainI \in Thread
  /\ created \in 0 .. nthread
  /\ failed \in 0 .. MaxFailed
  /\ client \in {"running", "returned", "exit", "killed"}
  /\ pc \in [Thread -> {"unborn", "connect", "send", "recv", "ended"}]
  /\ rbyte \in [Thread -> {0, 1}]
  /\ sock \in [Thread -> {"none", "open", "shut"}]
  /\ sent \in [Thread -> BOOLEAN]
  /\ inbox \in [Thread -> {0, 1}]
  /\ queue \in Seq(Thread)
  /\ server \in {"bind", "accept", "process", "read", "answer", "close", "gone"}
  /\ serving \in Thread \cup {Nobody}
  /\ served \in Nat
  /\ spoiled \in BOOLEAN

(* No connection is forgotten: one that is open waits in the queue, once,  *)
(* or is being processed, and the server that is gone holds none; a client *)
(* whose connection were open and neither would wait for ever.             *)
NoneForgotten ==
  \A t \in Thread :
    sock[t] = "open" => IF serving = t THEN t \notin Range(queue)
                        ELSE \E k \in DOMAIN queue :
                               queue[k] = t /\ \A j \in DOMAIN queue \ {k} : queue[j] # t

(* What main prints is true (client.c:74): when it says that nthread       *)
(* requests were handled, the server has answered that many, whatever      *)
(* crashed and was started again, if every *tret was what the thread left  *)
(* there.  No retry is ever among them: this server does not outlive a     *)
(* failure, and the client does not outlive a server that is gone.         *)
PrintIsTrue ==
  client = "returned" /\ ~spoiled => served = nthread /\ failed = 0

(* No thread waits in recv() for ever: it is answered, or its connection   *)
(* is closed, by whoever ends.                                             *)
RecvReturns ==
  \A t \in Thread : pc[t] = "recv" ~> (pc[t] # "recv" \/ client # "running")

(* The server is never stuck in the read of one connection while others    *)
(* wait (net.c:116): a client that connects sends its line or goes away.   *)
ServerComesBack ==
  server \in {"process", "read", "answer", "close"} ~> server \in {"accept", "gone"}

(* The client ends, unless a result it misread keeps it in its loop.       *)
ClientEnds == <>(client # "running" \/ spoiled)
=============================================================================
