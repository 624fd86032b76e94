----------------------------- MODULE WordCount -----------------------------
(***************************************************************************)
(* The multi-process word counter of p1, wc_multi.c: the parent forks one  *)
(* child for each part of the file, waits for the children in turn, forks  *)
(* a new one for a part whose child was killed, and reads one count from   *)
(* the pipe of each part.  A child counts its part with word_count(),      *)
(* writes the count into its pipe and exits; abort() or a signal from      *)
(* outside may end it before any of these steps.                           *)
(*                                                                         *)
(* fork(), waitpid(), pipe(), read() and write() are modelled as the       *)
(* parent sees them: waitpid(-1), which the parent calls when fork() has   *)
(* failed, waits for any child, and a waitpid() that has no child to wait  *)
(* for returns at once and leaves the status as it was.                    *)
(***************************************************************************)
EXTENDS WordCountCore

CONSTANTS
  nChildProc,  \* number of parts, 1 to 10 in main()
  Files,       \* the contents a file may have: sequences of Byte
  INT_MAX,     \* the largest int
  MaxKills,    \* bound: children ended by a signal
  MaxFailures  \* bound: calls of fork() that fail

ASSUME WordCountAssumption ==
  /\ nChildProc \in Nat \ {0}
  /\ Files \subseteq Seq(Byte)
  /\ INT_MAX \in Nat
  /\ MaxKills \in Nat
  /\ MaxFailures \in Nat

Part == 0 .. nChildProc - 1

\* bound: never reached, since a part is forked again only after a kill
\* or a failure
MaxForks == nChildProc + MaxKills + MaxFailures

VARIABLES
  file,      \* the file's contents
  pc, i,     \* the parent's place in main() and its loop variable
  status,    \* what the last successful waitpid() reported
  pids,      \* the child of each part, or -1
  pipes,     \* the pipe of each part, as an index of pipe
  pipe,      \* what each pipe holds, a sequence of counts
  children,  \* every child ever forked
  count,     \* the total
  failures   \* calls of fork() that have failed

parent == <<pc, i, status, pids, pipes, count, failures>>
vars   == <<file, parent, pipe, children>>

Child    == 1 .. Len(children)
InState(c, S) == children[c].state \in S
Running  == {"count", "write", "exit"}   \* the call that the child is in
Zombie   == {"exited", "signaled"}
KillsSoFar == Cardinality({c \in Child : children[c].killed})

Init ==
  /\ file \in Files
  /\ pc = "fork"
  /\ i = 0
  /\ status = "exited"          \* int status = 0
  /\ pids = [k \in Part |-> -1]
  /\ pipes = [k \in Part |-> 0]
  /\ pipe = <<>>
  /\ children = <<>>
  /\ count = NoCount
  /\ failures = 0

-----------------------------------------------------------------------------
(* The arithmetic of a part. *)

fsize == Len(file)

(* What is left of an integer in an int. *)
ToInt(x) == ((x + INT_MAX + 1) % (2 * (INT_MAX + 1))) - (INT_MAX + 1)

size == ToInt(fsize \div nChildProc)

(* int offset = i * size: undefined when it overflows; the compiled code   *)
(* wraps it or, since it is used as a long, keeps it.                      *)
Offsets(part) == {part * size, ToInt(part * size)}

(* Mutant: the last part does not take the rest of the file. *)
SameSize(part, offset) == size

PartSize(part, offset) ==
  IF part = nChildProc - 1 THEN ToInt(fsize - offset) ELSE size

Add(a, b) == [f \in DOMAIN a |-> a[f] + b[f]]

-----------------------------------------------------------------------------
(* A child. *)

Become(c, state) == children' = [children EXCEPT ![c].state = state]

Count(c) ==
  /\ InState(c, {"count"})
  /\ \E offset \in Offsets(children[c].part) :
       children' = [children EXCEPT
         ![c].state = "write",
         ![c].wc = word_count(file, offset, PartSize(children[c].part, offset))]
  /\ UNCHANGED <<file, parent, pipe>>

(* A count fits in a pipe many times over: the write does not block. *)
Write(c) ==
  /\ InState(c, {"write"})
  /\ pipe' = [pipe EXCEPT ![children[c].pipe] = Append(@, children[c].wc)]
  /\ Become(c, "exit")
  /\ UNCHANGED <<file, parent>>

Exit(c) ==
  /\ InState(c, {"exit"})
  /\ Become(c, "exited")
  /\ UNCHANGED <<file, parent, pipe>>

(* abort() at the end of word_count(), or a signal at any other moment. *)
Killed(c) ==
  /\ InState(c, Running)
  /\ KillsSoFar < MaxKills
  /\ children' = [children EXCEPT ![c].state = "signaled", ![c].killed = TRUE]
  /\ UNCHANGED <<file, parent, pipe>>

-----------------------------------------------------------------------------
(* The parent. *)

(* Mutant: the new child is given the pipe of the one it replaces. *)
SamePipe(part) ==
  /\ pipe' = IF pipes[part] = 0 THEN Append(pipe, <<>>) ELSE pipe
  /\ pipes' = [pipes EXCEPT ![part] = IF @ = 0 THEN Len(pipe) + 1 ELSE @]

(* pipe(pipes[i]) *)
NewPipe(part) ==
  /\ pipe' = Append(pipe, <<>>)
  /\ pipes' = [pipes EXCEPT ![part] = Len(pipe) + 1]

(* pids[i] = fork(), with the pipe created just before it.  The result is  *)
(* not checked against -1.                                                 *)
fork(part) ==
  /\ Len(children) < MaxForks
  /\ NewPipe(part)
  /\ \/ /\ children' = Append(children,
             [part |-> part, pipe |-> pipes'[part], state |-> "count",
              wc |-> NoCount, killed |-> FALSE])
        /\ pids' = [pids EXCEPT ![part] = Len(children) + 1]
        /\ UNCHANGED failures
     \/ /\ failures < MaxFailures
        /\ failures' = failures + 1
        /\ pids' = [pids EXCEPT ![part] = -1]
        /\ UNCHANGED children

(* Mutant: wait() where the code calls waitpid(). *)
WaitForAny(pid) == {c \in Child : ~InState(c, {"reaped"})}

(* The children that waitpid(pid) may report. *)
WaitedFor(pid) ==
  {c \in Child : (c = pid \/ pid = -1) /\ ~InState(c, {"reaped"})}

(* Mutant: WNOHANG, the parent does not wait. *)
WaitNoHang(pid) ==
  \/ \E c \in WaitedFor(pid) :
       /\ InState(c, Zombie)
       /\ status' = children[c].state
       /\ Become(c, "reaped")
  \/ /\ \A c \in WaitedFor(pid) : ~InState(c, Zombie)
     /\ UNCHANGED <<status, children>>

waitpid(pid) ==
  \/ \E c \in WaitedFor(pid) :
       /\ InState(c, Zombie)
       /\ status' = children[c].state
       /\ Become(c, "reaped")
  \/ /\ WaitedFor(pid) = {}
     /\ UNCHANGED <<status, children>>

(* Mutant: the loop runs once too often. *)
OnePartMore(loop, after) ==
  IF i < nChildProc
  THEN /\ pc' = loop
       /\ i' = i + 1
  ELSE /\ pc' = after
       /\ i' = 0

(* To the next part of a loop, and after its last part to the next loop. *)
NextPart(loop, after) ==
  IF i < nChildProc - 1
  THEN /\ pc' = loop
       /\ i' = i + 1
  ELSE /\ pc' = after
       /\ i' = 0

Fork ==
  /\ pc = "fork"
  /\ fork(i)
  /\ NextPart("fork", "wait")
  /\ UNCHANGED <<file, status, count>>

Wait ==
  /\ pc = "wait"
  /\ waitpid(pids[i])
  /\ IF status' = "signaled"
     THEN /\ pc' = "retry"
          /\ UNCHANGED i
     ELSE NextPart("wait", "read")
  /\ UNCHANGED <<file, pids, pipes, pipe, count, failures>>

Retry ==
  /\ pc = "retry"
  /\ fork(i)
  /\ pc' = "waitRetry"
  /\ UNCHANGED <<file, i, status, count>>

(* Mutant: only the child, in its own memory, ends the loop. *)
LoopForever == pc' = "retry" /\ UNCHANGED i

(* isNotCrashing = false in the parent. *)
EndOfRetry ==
  IF status' = "signaled"
  THEN pc' = "retry" /\ UNCHANGED i
  ELSE NextPart("wait", "read")

WaitRetry ==
  /\ pc = "waitRetry"
  /\ waitpid(pids[i])
  /\ EndOfRetry
  /\ UNCHANGED <<file, pids, pipes, pipe, count, failures>>

(* read() blocks while the pipe is empty: the parent holds the write ends  *)
(* of all the pipes itself, so it never meets an end of file.              *)
Read ==
  /\ pc = "read"
  /\ pipe[pipes[i]] # <<>>
  /\ count' = Add(count, Head(pipe[pipes[i]]))
  /\ pipe' = [pipe EXCEPT ![pipes[i]] = Tail(@)]
  /\ NextPart("read", "done")
  /\ UNCHANGED <<file, status, pids, pipes, children, failures>>

Parent == Fork \/ Wait \/ Retry \/ WaitRetry \/ Read
Step(c) == Count(c) \/ Write(c) \/ Exit(c)

Next ==
  \/ Parent
  \/ \E c \in Child : Step(c) \/ Killed(c)

Spec == Init /\ [][Next]_vars

(* The operating system runs every process that can run. *)
FairSpec ==
  /\ Spec
  /\ WF_vars(Parent)
  /\ \A c \in 1 .. MaxForks : WF_vars(c \in Child /\ Step(c))

-----------------------------------------------------------------------------
(* Properties. *)

ChildRecord ==
  [part : Part, pipe : Nat, state : Running \cup Zombie \cup {"reaped"},
   wc : count_t, killed : BOOLEAN]

TypeOK ==
  /\ file \in Files
  /\ pc \in {"fork", "wait", "retry", "waitRetry", "read", "done"}
  /\ i \in Part
  /\ status \in Zombie
  /\ pids \in [Part -> Child \cup {-1}]
  /\ pipes \in [Part -> 0 .. Len(pipe)]
  /\ pipe \in Seq(Seq(count_t))
  /\ children \in Seq(ChildRecord)
  /\ count \in count_t
  /\ failures \in 0 .. MaxFailures

(* However the children are scheduled and killed, the total printed is     *)
(* that of the whole file: the parts overlap nowhere, leave nothing out,   *)
(* and no part is missing or counted twice (wc_multi.c:125-131).           *)
TotalIsWholeFile == pc = "done" => count = CountOf(file, 1 .. fsize)

(* wc_multi prints what wc prints of the same file, and nothing before     *)
(* that: the parts, their children and the retries do not show, whatever   *)
(* byte a part begins or ends with.                                        *)
Single == INSTANCE SingleWordCount WITH
  crashRate <- FALSE,
  pc <- IF pc = "done" THEN "done" ELSE "count",
  count <- IF pc = "done" THEN count ELSE NoCount
PrintsLikeWc == Single!Spec

(* When the parent starts to read, each pipe it has not read yet holds     *)
(* exactly one count, so that no read() blocks; also after a child that    *)
(* was killed between its write() and its exit() was replaced              *)
(* (wc_multi.c:97, 127).  It takes a fork() that does not fail.            *)
OneCountPerPipe ==
  pc = "read" /\ failures = 0 =>
    \A part \in i .. nChildProc - 1 : Len(pipe[pipes[part]]) = 1

(* A new child is forked for a part only if the child that had it was      *)
(* killed by a signal: work that was done is never done again              *)
(* (wc_multi.c:93, 115).                                                   *)
OnlyKilledAreRedone ==
  [][\A part \in Part :
       pids[part] # -1 /\ pids'[part] # pids[part]
         => children[pids[part]].killed]_vars

(* The handout, OS_Project_1.pdf: "If an exit status of a child process is *)
(* abnormal termination by a signal, the parent process creates a new      *)
(* child process to re-do the incomplete job."  So when the reading starts *)
(* no part is left with a child that was killed.                           *)
KilledAreRedone ==
  pc = "read" => \A part \in Part :
                    pids[part] # -1 => ~children[pids[part]].killed

(* When the counts are read no child is running and none is left a zombie  *)
(* (wc_multi.c:92, 114).                                                   *)
EveryChildIsReaped ==
  pc \in {"read", "done"} => \A c \in Child : InState(c, {"reaped"})

(* The program ends, as long as children are not killed for ever and       *)
(* fork() does not fail: every retry loop is left (wc_multi.c:96-121) and  *)
(* no waitpid() or read() blocks for good.                                 *)
Terminates == <>(pc = "done" \/ failures > 0)
=============================================================================
