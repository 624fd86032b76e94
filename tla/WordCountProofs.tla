--------------------------- MODULE WordCountProofs ---------------------------
(***************************************************************************)
(* The theorems about wc_multi.c, for any number of parts, any files, any  *)
(* number of children killed at any moment and of calls of fork() that     *)
(* fail.                                                                   *)
(*                                                                         *)
(* Every fork() has a pipe of its own, so a pipe has one writer, which     *)
(* writes once: that alone makes a count that is read the right one.  That *)
(* there is one to read takes the bookkeeping of the waits.                *)
(***************************************************************************)
EXTENDS WordCount, SequenceTheorems, FiniteSetTheorems, TLAPS

State(c)    == children[c].state
PartOf(c)   == children[c].part
PipeOf(c)   == children[c].pipe
Contents(c) == pipe[PipeOf(c)]
Written(c)  == <<children[c].wc>>

(* Each child has a pipe of its own, each part the pipe of its last fork(). *)
PipesApart ==
  /\ \A c \in Child : PipeOf(c) \in 1 .. Len(pipe)
  /\ \A c, d \in Child : PipeOf(c) = PipeOf(d) => c = d
  /\ \A p, q \in Part : pipes[p] = pipes[q] /\ pipes[p] # 0 => p = q
  /\ \A c \in Child, p \in Part : pipes[p] = PipeOf(c) => PartOf(c) = p
  /\ \A p \in Part : pids[p] # -1 => PartOf(pids[p]) = p /\ PipeOf(pids[p]) = pipes[p]

(* The first loop has come to part i. *)
ForkedSoFar ==
  /\ pc = "fork"  => \A p \in Part : IF p < i THEN pipes[p] # 0 ELSE pipes[p] = 0 /\ pids[p] = -1
  /\ pc # "fork" => \A p \in Part : pipes[p] # 0

(* A pipe is empty or holds what its child wrote, and does so from the      *)
(* write to the read.                                                       *)
ContentsOnce ==
  /\ \A k \in 1 .. Len(pipe) : pipe[k] = << >> \/ \E c \in Child : PipeOf(c) = k /\ pipe[k] = Written(c)
  /\ \A c \in Child : State(c) \in {"count", "write"} => Contents(c) = << >>
  /\ \A c \in Child :
       /\ State(c) \notin {"count", "write"} /\ ~children[c].killed
       /\ pc = "read" => PartOf(c) >= i
       /\ pc # "done"
       => Contents(c) = Written(c)
  /\ \A c \in Child : State(c) \in Running \cup {"exited"} => ~children[c].killed
  /\ \A c \in Child : State(c) = "signaled" => children[c].killed

(* The children that are not reaped are those of the parts to be waited for. *)
Pending ==
  \A c \in Child : State(c) # "reaped" =>
    /\ pids[PartOf(c)] = c
    /\ pc \notin {"read", "done"}
    /\ pc \in {"wait", "waitRetry"} => PartOf(c) >= i
    /\ pc = "retry" => PartOf(c) > i

(* A part is retried because its child was killed, if it had one. *)
Retried ==
  /\ pc \in {"fork", "wait"} => status = "exited"
  /\ pc = "retry" /\ pids[i] # -1 => children[pids[i]].killed
  /\ pc = "waitRetry" /\ pids[i] # -1 => State(pids[i]) # "reaped"

Done(p)   == pids[p] # -1 /\ State(pids[p]) = "reaped" /\ ~children[pids[p]].killed
Awaited(p) == pids[p] # -1 /\ State(pids[p]) # "reaped"

(* If no fork() failed, each part was waited for or is yet to be. *)
WaitedInTurn ==
  failures = 0 => \A p \in Part :
    /\ pc = "fork" /\ p < i                                => Awaited(p)
    /\ pc \in {"wait", "waitRetry"} /\ p >= i              => Awaited(p)
    /\ pc = "retry" /\ p > i                               => Awaited(p)
    /\ pc \in {"wait", "retry", "waitRetry"} /\ p < i      => Done(p)
    /\ pc \in {"read", "done"}                             => Done(p)
    /\ pc = "retry" => pids[i] # -1

(* Inductive without any assumption on the files. *)
IInv ==
  /\ TypeOK /\ PipesApart /\ ForkedSoFar /\ ContentsOnce
  /\ Pending /\ Retried /\ WaitedInTurn

(* The stretch of the file that a part stands for. *)
From(p) == p * (fsize \div nChildProc)
Upto(p) == IF p = nChildProc - 1 THEN fsize ELSE (p + 1) * (fsize \div nChildProc)
Bytes(m, n)  == CountOf(file, m + 1 .. n)

(* What is written is the count of the part. *)
RightCounts ==
  \A c \in Child : State(c) = "write" \/ Contents(c) # << >> =>
    children[c].wc = Bytes(From(PartOf(c)), Upto(PartOf(c)))

(* The total of the parts read so far. *)
RightTotal ==
  count = CASE pc = "read" -> Bytes(0, From(i))
            [] pc = "done" -> Bytes(0, fsize)
            [] OTHER       -> NoCount

CountInv == IInv /\ RightCounts /\ RightTotal

-----------------------------------------------------------------------------
(* Counts and integers. *)

LEMMA CountType ==
  ASSUME NEW f, NEW K, IsFiniteSet(K)
  PROVE  CountOf(f, K) \in count_t
<1>1. \A S \in SUBSET K : Cardinality(S) \in Nat
  BY FS_Subset, FS_CardinalityType
<1>2. /\ {k \in K : f[k] = Line} \in SUBSET K
      /\ {k \in K : f[k] \in {Space, Line}} \in SUBSET K
      /\ {k \in K : f[k] \notin {Space, Line}} \in SUBSET K
  OBVIOUS
<1> QED BY <1>1, <1>2 DEF CountOf, count_t

LEMMA WordCountType ==
  ASSUME NEW f, NEW offset \in Int, NEW bytes \in Int
  PROVE  word_count(f, offset, bytes) \in count_t
<1> DEFINE from == IF offset < 0 THEN 0 ELSE offset
<1>1. from + 1 \in Int /\ from + bytes \in Int
  OBVIOUS
<1>2. IsFiniteSet(from + 1 .. from + bytes)
  BY <1>1, FS_Interval
<1>3. BytesRead(f, offset, bytes) \in SUBSET (from + 1 .. from + bytes)
  BY DEF BytesRead
<1>4. IsFiniteSet(BytesRead(f, offset, bytes))
  BY ONLY <1>2, <1>3, FS_Subset
<1> QED BY <1>4, CountType DEF word_count

LEMMA AddType ==
  ASSUME NEW a \in count_t, NEW b \in count_t
  PROVE  /\ Add(a, b) \in count_t
         /\ Add(a, b) = [linecount |-> a.linecount + b.linecount,
                         wordcount |-> a.wordcount + b.wordcount,
                         charcount |-> a.charcount + b.charcount]
<1>1. DOMAIN a = {"linecount", "wordcount", "charcount"}
  BY DEF count_t
<1>2. Add(a, b) = [linecount |-> a.linecount + b.linecount,
                   wordcount |-> a.wordcount + b.wordcount,
                   charcount |-> a.charcount + b.charcount]
  BY <1>1 DEF Add
<1> QED BY <1>2 DEF count_t

LEMMA IntTypes ==
  ASSUME file \in Files, NEW p \in Part
  PROVE  /\ Len(file) \in Nat /\ file \in Seq(Byte)
         /\ size \in Int
         /\ \A x \in Int : ToInt(x) \in Int
         /\ \A offset \in Offsets(p) : offset \in Int /\ PartSize(p, offset) \in Int
<1>1. file \in Seq(Byte) /\ Len(file) \in Nat
  BY WordCountAssumption
<1>2. \A x \in Int : ToInt(x) \in Int
  BY WordCountAssumption DEF ToInt
<1>3. fsize \in Int /\ size \in Int
  BY <1>1, <1>2, WordCountAssumption DEF fsize, size
<1>4. p * size \in Int
  BY <1>3, WordCountAssumption DEF Part
<1>5. ASSUME NEW offset \in Offsets(p)
      PROVE  offset \in Int /\ PartSize(p, offset) \in Int
  <2>1. offset \in Int
    BY <1>2, <1>4 DEF Offsets
  <2> QED BY <1>2, <1>3, <2>1 DEF PartSize
<1> QED BY <1>1, <1>2, <1>3, <1>5

-----------------------------------------------------------------------------
(* The steps of a child. *)

(* Child c has become r, and no other has changed. *)
Changed(c, r) ==
  /\ children' \in Seq(ChildRecord) /\ Len(children') = Len(children)
  /\ children'[c] = r /\ \A d \in Child : d # c => children'[d] = children[d]

LEMMA ChildChanged ==
  ASSUME TypeOK, NEW c \in Child, NEW r \in ChildRecord, children' = [children EXCEPT ![c] = r]
  PROVE  Changed(c, r)
BY ExceptSeq DEF TypeOK, Child, Changed

(* What a child that runs does to itself changes nothing that the parent   *)
(* relies on.                                                              *)
LEMMA ChildMoves ==
  ASSUME IInv, NEW c \in Child, State(c) \in Running,
         NEW r \in ChildRecord, r.part = PartOf(c), r.pipe = PipeOf(c), r.state # "reaped",
         Changed(c, r), UNCHANGED <<file, parent>>,
         pipe' \in Seq(Seq(count_t)), Len(pipe') = Len(pipe)
  PROVE  /\ TypeOK' /\ PipesApart' /\ ForkedSoFar' /\ Pending' /\ Retried' /\ WaitedInTurn'
         /\ Child' = Child /\ \A d \in Child : PipeOf(d)' = PipeOf(d) /\ PartOf(d)' = PartOf(d)
<1>1. /\ TypeOK /\ PipesApart /\ ForkedSoFar /\ ContentsOnce /\ Pending /\ Retried /\ WaitedInTurn
      /\ UNCHANGED <<file, pc, i, status, pids, pipes, count, failures>>
  BY DEF IInv, parent
<1>2. Child' = Child
  BY DEF Changed, Child
<1>3. /\ children'[c] = r /\ \A d \in Child : d # c => children'[d] = children[d]
  BY DEF Changed
<1>4. /\ \A d \in Child : PipeOf(d)' = PipeOf(d) /\ PartOf(d)' = PartOf(d)
      /\ \A d \in Child : State(d)' # "reaped" <=> State(d) # "reaped"
  BY <1>3 DEF PipeOf, PartOf, State, Running
<1>5. ~children[c].killed
  BY <1>1 DEF ContentsOnce
<1>6. \A d \in Child : children[d].killed => children'[d].killed
  BY <1>3, <1>5
<1>7. \A d \in Child : State(d) = "reaped" => children'[d] = children[d]
  BY <1>3 DEF Running, State
<1>8. /\ \A p \in Part : pids[p] # -1 => pids[p] \in Child
      /\ i \in Part
  BY <1>1 DEF TypeOK
<1>9. TypeOK'
  BY <1>1, <1>2 DEF TypeOK, Changed
<1>10. PipesApart'
  BY <1>1, <1>2, <1>4, <1>8 DEF PipesApart
<1>11. ForkedSoFar'
  BY <1>1 DEF ForkedSoFar
<1>12. Pending'
  BY <1>1, <1>2, <1>4 DEF Pending
<1>13. Retried'
  BY <1>1, <1>4, <1>6, <1>8 DEF Retried
<1>14. \A p \in Part : (Done(p) => Done(p)') /\ (Awaited(p) => Awaited(p)')
  BY <1>1, <1>4, <1>7, <1>8 DEF Done, Awaited, State
<1>15. WaitedInTurn'
  BY <1>1, <1>14 DEF WaitedInTurn
<1> QED BY <1>2, <1>4, <1>9, <1>10, <1>11, <1>12, <1>13, <1>15

(* A child counts its part. *)
LEMMA CountIInv ==
  ASSUME IInv, NEW c \in Child, Count(c)
  PROVE  IInv'
<1>1. TypeOK /\ PipesApart /\ ContentsOnce /\ children \in Seq(ChildRecord) /\ children[c] \in ChildRecord
  BY ElementOfSeq DEF IInv, TypeOK, Child
<1>2. PICK offset \in Offsets(PartOf(c)) :
        children' = [children EXCEPT
          ![c].state = "write",
          ![c].wc = word_count(file, offset, PartSize(PartOf(c), offset))]
  BY DEF Count, PartOf
<1> DEFINE w == word_count(file, offset, PartSize(PartOf(c), offset))
           r == [children[c] EXCEPT !.state = "write", !.wc = w]
<1>3. w \in count_t
  <2>1. PartOf(c) \in Part /\ file \in Files
    BY <1>1 DEF PartOf, ChildRecord, TypeOK
  <2>2. offset \in Int /\ PartSize(PartOf(c), offset) \in Int
    BY <2>1, IntTypes
  <2> QED BY <2>2, WordCountType
<1> HIDE DEF w
<1>4. r \in ChildRecord /\ r.part = PartOf(c) /\ r.pipe = PipeOf(c) /\ r.state = "write" /\ ~r.killed
  <2>1. State(c) = "count" /\ ~children[c].killed
    BY <1>1 DEF Count, InState, ContentsOnce, Running, State
  <2> QED BY <1>1, <1>3, <2>1 DEF ChildRecord, PartOf, PipeOf, Running
<1>5. children' = [children EXCEPT ![c] = r]
  BY <1>1, <1>2 DEF w, Child
<1> HIDE DEF r
<1>6. Changed(c, r)
  BY <1>1, <1>4, <1>5, ChildChanged
<1>7. UNCHANGED <<file, parent, pipe>> /\ State(c) = "count"
  BY DEF Count, InState, State
<1>8. /\ TypeOK' /\ PipesApart' /\ ForkedSoFar' /\ Pending' /\ Retried' /\ WaitedInTurn'
      /\ Child' = Child /\ \A d \in Child : PipeOf(d)' = PipeOf(d) /\ PartOf(d)' = PartOf(d)
  BY <1>1, <1>4, <1>6, <1>7, ChildMoves DEF Running, TypeOK
<1>9. ContentsOnce'
  <2>1. /\ children'[c] = r /\ \A d \in Child : d # c => children'[d] = children[d]
        /\ pipe' = pipe /\ pc' = pc /\ i' = i
    BY <1>6, <1>7 DEF Changed, parent
  <2>2. Contents(c) = << >> /\ \A d \in Child : Contents(d)' = Contents(d)
    BY <1>1, <1>7, <1>8, <2>1 DEF ContentsOnce, Contents
  <2>3. ASSUME NEW k \in 1 .. Len(pipe)
        PROVE  pipe[k] = << >> \/ \E d \in Child : PipeOf(d)' = k /\ pipe[k] = Written(d)'
    <3>1. CASE pipe[k] # << >>
      <4>1. PICK d \in Child : PipeOf(d) = k /\ pipe[k] = Written(d)
        BY <1>1, <3>1 DEF ContentsOnce
      <4>2. d # c
        BY <2>2, <3>1, <4>1 DEF Contents
      <4> QED BY <1>8, <2>1, <4>1, <4>2 DEF Written
    <3> QED BY <3>1
  <2>4. \A d \in Child : d # c => State(d)' = State(d) /\ Written(d)' = Written(d)
    BY <2>1 DEF State, Written
  <2>5. State(c)' = "write" /\ ~children'[c].killed
    BY <1>4, <2>1 DEF State
  <2> QED BY <1>1, <1>8, <2>1, <2>2, <2>3, <2>4, <2>5 DEF ContentsOnce, Running
<1> QED BY <1>8, <1>9 DEF IInv

(* A child writes its count. *)
LEMMA WriteIInv ==
  ASSUME IInv, NEW c \in Child, Write(c)
  PROVE  /\ IInv'
         /\ pipe' = [pipe EXCEPT ![PipeOf(c)] = Written(c)]
         /\ children' = [children EXCEPT ![c] = [children[c] EXCEPT !.state = "exit"]]
<1>1. TypeOK /\ PipesApart /\ ContentsOnce /\ children \in Seq(ChildRecord) /\ children[c] \in ChildRecord
  BY ElementOfSeq DEF IInv, TypeOK, Child
<1> DEFINE r == [children[c] EXCEPT !.state = "exit"]
<1>2. State(c) = "write" /\ ~children[c].killed /\ Contents(c) = << >>
  BY <1>1 DEF Write, InState, State, ContentsOnce, Running
<1>3. r \in ChildRecord /\ r.part = PartOf(c) /\ r.pipe = PipeOf(c) /\ r.state = "exit" /\ ~r.killed /\ r.wc = children[c].wc
  BY <1>1, <1>2 DEF ChildRecord, PartOf, PipeOf, Running
<1>4. children' = [children EXCEPT ![c] = r]
  BY <1>1 DEF Write, Become, Child
<1> HIDE DEF r
<1>5. Changed(c, r)
  BY <1>1, <1>3, <1>4, ChildChanged
<1>6. PipeOf(c) \in 1 .. Len(pipe) /\ pipe \in Seq(Seq(count_t)) /\ Written(c) \in Seq(count_t)
  BY <1>1 DEF PipesApart, TypeOK, Written, ChildRecord
<1>7. pipe' = [pipe EXCEPT ![PipeOf(c)] = Written(c)]
  <2>1. Append(<< >>, children[c].wc) = <<children[c].wc>>
    OBVIOUS
  <2>2. pipe' = [pipe EXCEPT ![PipeOf(c)] = Append(Contents(c), children[c].wc)]
    BY <1>6 DEF Write, PipeOf, Contents
  <2> QED BY <1>2, <2>1, <2>2 DEF Written
<1>8. /\ pipe' \in Seq(Seq(count_t)) /\ Len(pipe') = Len(pipe)
      /\ pipe'[PipeOf(c)] = Written(c)
      /\ \A k \in 1 .. Len(pipe) : k # PipeOf(c) => pipe'[k] = pipe[k]
  BY <1>6, <1>7, ExceptSeq
<1>9. UNCHANGED <<file, parent>>
  BY DEF Write
<1>10. /\ TypeOK' /\ PipesApart' /\ ForkedSoFar' /\ Pending' /\ Retried' /\ WaitedInTurn'
       /\ Child' = Child /\ \A d \in Child : PipeOf(d)' = PipeOf(d) /\ PartOf(d)' = PartOf(d)
  BY <1>2, <1>3, <1>5, <1>8, <1>9, ChildMoves DEF Running
<1>11. ContentsOnce'
  <2>1. /\ children'[c] = r /\ \A d \in Child : d # c => children'[d] = children[d]
        /\ pc' = pc /\ i' = i
    BY <1>5, <1>9 DEF Changed, parent
  <2>2. \A d \in Child : Written(d)' = Written(d)
    BY <1>3, <2>1 DEF Written
  <2>3. Contents(c)' = Written(c) /\ \A d \in Child : d # c => Contents(d)' = Contents(d)
    <3>1. \A d \in Child : d # c => PipeOf(d) # PipeOf(c) /\ PipeOf(d) \in 1 .. Len(pipe)
      BY <1>1 DEF PipesApart
    <3> QED BY <1>8, <1>10, <3>1 DEF Contents
  <2>4. ASSUME NEW k \in 1 .. Len(pipe)
        PROVE  pipe'[k] = << >> \/ \E d \in Child : PipeOf(d)' = k /\ pipe'[k] = Written(d)'
    <3>1. CASE k = PipeOf(c)
      BY <1>8, <1>10, <2>2, <3>1
    <3>2. CASE k # PipeOf(c) /\ pipe[k] # << >>
      <4>1. PICK d \in Child : PipeOf(d) = k /\ pipe[k] = Written(d)
        BY <1>1, <3>2 DEF ContentsOnce
      <4> QED BY <1>8, <1>10, <2>2, <3>2, <4>1
    <3>3. CASE k # PipeOf(c) /\ pipe[k] = << >>
      BY <1>8, <3>3
    <3> QED BY <3>1, <3>2, <3>3
  <2>5. \A d \in Child : d # c => State(d)' = State(d) /\ children'[d].killed = children[d].killed
    BY <2>1 DEF State
  <2>6. State(c)' = "exit" /\ ~children'[c].killed
    BY <1>3, <2>1 DEF State
  <2> QED BY <1>1, <1>8, <1>10, <2>1, <2>2, <2>3, <2>4, <2>5, <2>6 DEF ContentsOnce, Running
<1>12. IInv'
  BY <1>10, <1>11 DEF IInv
<1> QED BY <1>4, <1>7, <1>12 DEF r

(* A child leaves its call, by exit() or a signal, and writes nothing. *)
Ended(c, r) ==
  \/ State(c) = "exit" /\ r = [children[c] EXCEPT !.state = "exited"]
  \/ State(c) \in Running /\ r = [children[c] EXCEPT !.state = "signaled", !.killed = TRUE]

LEMMA EndIInv ==
  ASSUME IInv, NEW c \in Child, NEW r, Ended(c, r), children' = [children EXCEPT ![c] = r],
         UNCHANGED <<file, parent, pipe>>
  PROVE  IInv'
<1>1. TypeOK /\ PipesApart /\ ContentsOnce /\ children \in Seq(ChildRecord) /\ children[c] \in ChildRecord
  BY ElementOfSeq DEF IInv, TypeOK, Child
<1>2. /\ r \in ChildRecord /\ r.part = PartOf(c) /\ r.pipe = PipeOf(c) /\ r.wc = children[c].wc
      /\ \/ State(c) = "exit" /\ r.state = "exited" /\ r.killed = children[c].killed
         \/ State(c) \in Running /\ r.state = "signaled" /\ r.killed
  BY <1>1 DEF Ended, ChildRecord, PartOf, PipeOf, Running, Zombie, State
<1>3. State(c) \in Running /\ r.state # "reaped" /\ ~children[c].killed
  BY <1>1, <1>2 DEF Running, ContentsOnce
<1>4. Changed(c, r)
  BY <1>1, <1>2, ChildChanged
<1>5. /\ TypeOK' /\ PipesApart' /\ ForkedSoFar' /\ Pending' /\ Retried' /\ WaitedInTurn'
      /\ Child' = Child /\ \A d \in Child : PipeOf(d)' = PipeOf(d) /\ PartOf(d)' = PartOf(d)
  BY <1>1, <1>2, <1>3, <1>4, ChildMoves DEF TypeOK
<1>6. ContentsOnce'
  <2>1. /\ children'[c] = r /\ \A d \in Child : d # c => children'[d] = children[d]
        /\ pipe' = pipe /\ pc' = pc /\ i' = i
    BY <1>4 DEF Changed, parent
  <2>2. \A d \in Child : Contents(d)' = Contents(d) /\ Written(d)' = Written(d)
    BY <1>2, <1>5, <2>1 DEF Contents, Written
  <2>3. \A d \in Child : d # c => State(d)' = State(d) /\ children'[d].killed = children[d].killed
    BY <2>1 DEF State
  <2>4. \/ State(c) = "exit" /\ State(c)' = "exited" /\ children'[c].killed = children[c].killed
        \/ State(c) \in Running /\ State(c)' = "signaled" /\ children'[c].killed
    BY <1>2, <2>1 DEF State
  <2>5. \A k \in 1 .. Len(pipe)' : pipe'[k] = << >> \/ \E d \in Child' : PipeOf(d)' = k /\ pipe'[k] = Written(d)'
    BY <1>1, <1>5, <2>1, <2>2 DEF ContentsOnce
  <2> QED BY <1>1, <1>3, <1>5, <2>1, <2>2, <2>3, <2>4, <2>5 DEF ContentsOnce, Running
<1> QED BY <1>5, <1>6 DEF IInv

LEMMA ExitIInv ==
  ASSUME IInv, NEW c \in Child, Exit(c)
  PROVE  IInv'
<1> DEFINE r == [children[c] EXCEPT !.state = "exited"]
<1>1. children' = [children EXCEPT ![c] = r] /\ UNCHANGED <<file, parent, pipe>>
  BY DEF Exit, Become, Child
<1>2. Ended(c, r)
  BY DEF Exit, InState, Ended, State
<1> QED BY <1>1, <1>2, EndIInv

LEMMA KilledIInv ==
  ASSUME IInv, NEW c \in Child, Killed(c)
  PROVE  IInv'
<1> DEFINE r == [children[c] EXCEPT !.state = "signaled", !.killed = TRUE]
<1>1. children' = [children EXCEPT ![c] = r] /\ UNCHANGED <<file, parent, pipe>>
  BY DEF Killed
<1>2. Ended(c, r)
  BY DEF Killed, InState, Ended, State
<1> QED BY <1>1, <1>2, EndIInv

-----------------------------------------------------------------------------
(* The steps of the parent. *)

LEMMA NextPartStep ==
  ASSUME i \in Part, NEW loop, NEW after, NextPart(loop, after)
  PROVE  /\ i' \in Part
         /\ \/ pc' = loop /\ i' = i + 1
            \/ pc' = after /\ i' = 0 /\ i = nChildProc - 1
BY WordCountAssumption DEF NextPart, Part

(* What the parent has done when fork() returns: child n is new, or there  *)
(* is none.                                                                *)
NewChild(n) ==
  [part |-> i, pipe |-> Len(pipe) + 1, state |-> "count", wc |-> NoCount, killed |-> FALSE]

Forked(n) ==
  /\ n = Len(children) + 1 /\ Child' = Child \cup {n} /\ n \notin Child
  /\ children'[n] = NewChild(n) /\ pids'[i] = n /\ failures' = failures

NotForked == Child' = Child /\ pids'[i] = -1 /\ failures' # 0

LEMMA ForkEffect ==
  ASSUME TypeOK, fork(i)
  PROVE  /\ pipe' \in Seq(Seq(count_t)) /\ Len(pipe') = Len(pipe) + 1
         /\ pipe'[Len(pipe) + 1] = << >> /\ \A k \in 1 .. Len(pipe) : pipe'[k] = pipe[k]
         /\ children' \in Seq(ChildRecord) /\ \A d \in Child : children'[d] = children[d]
         /\ pipes' \in [Part -> 0 .. Len(pipe')] /\ pids' \in [Part -> Child' \cup {-1}]
         /\ pipes'[i] = Len(pipe) + 1
         /\ \A p \in Part : p # i => pids'[p] = pids[p] /\ pipes'[p] = pipes[p]
         /\ failures' \in 0 .. MaxFailures
         /\ Forked(Len(children) + 1) \/ NotForked
<1> DEFINE n == Len(children) + 1
           k == Len(pipe) + 1
<1>1. /\ pipe \in Seq(Seq(count_t)) /\ children \in Seq(ChildRecord) /\ i \in Part
      /\ pids \in [Part -> Child \cup {-1}] /\ pipes \in [Part -> 0 .. Len(pipe)]
      /\ failures \in 0 .. MaxFailures /\ Len(children) \in Nat /\ Len(pipe) \in Nat
  BY DEF TypeOK
<1>2. /\ pipe' \in Seq(Seq(count_t)) /\ Len(pipe') = k
      /\ pipe'[k] = << >> /\ \A q \in 1 .. Len(pipe) : pipe'[q] = pipe[q]
  <2>1. pipe' = Append(pipe, << >>) /\ << >> \in Seq(count_t)
    BY DEF fork, NewPipe
  <2> QED BY <1>1, <2>1, AppendProperties
<1>3. pipes' = [pipes EXCEPT ![i] = k]
  BY DEF fork, NewPipe
<1>4. /\ pipes' \in [Part -> 0 .. Len(pipe')] /\ pipes'[i] = k
      /\ \A p \in Part : p # i => pipes'[p] = pipes[p]
  BY <1>1, <1>2, <1>3
<1>5. CASE /\ children' = Append(children, [part |-> i, pipe |-> pipes'[i], state |-> "count",
                                            wc |-> NoCount, killed |-> FALSE])
           /\ pids' = [pids EXCEPT ![i] = n]
           /\ UNCHANGED failures
  <2>1. NewChild(n) \in ChildRecord /\ children' = Append(children, NewChild(n))
    BY <1>1, <1>4, <1>5 DEF NewChild, ChildRecord, Running, NoCount, count_t
  <2>2. /\ children' \in Seq(ChildRecord) /\ Len(children') = n /\ children'[n] = NewChild(n)
        /\ \A d \in Child : children'[d] = children[d]
    BY <1>1, <2>1, AppendProperties DEF Child
  <2>3. Child' = Child \cup {n} /\ n \notin Child
    BY <1>1, <2>2 DEF Child
  <2>4. pids' \in [Part -> Child' \cup {-1}] /\ pids'[i] = n /\ \A p \in Part : p # i => pids'[p] = pids[p]
    BY <1>1, <1>5, <2>3
  <2>5. Forked(n)
    BY <1>5, <2>2, <2>3, <2>4 DEF Forked
  <2> QED BY <1>1, <1>2, <1>4, <1>5, <2>2, <2>4, <2>5
<1>6. CASE /\ failures < MaxFailures
           /\ failures' = failures + 1
           /\ pids' = [pids EXCEPT ![i] = -1]
           /\ UNCHANGED children
  <2>1. Child' = Child /\ children' \in Seq(ChildRecord) /\ \A d \in Child : children'[d] = children[d]
    BY <1>1, <1>6 DEF Child
  <2>2. pids' \in [Part -> Child' \cup {-1}] /\ pids'[i] = -1 /\ \A p \in Part : p # i => pids'[p] = pids[p]
    BY <1>1, <1>6, <2>1
  <2>3. failures' \in 0 .. MaxFailures /\ failures' # 0
    BY <1>1, <1>6, WordCountAssumption
  <2>4. NotForked
    BY <2>1, <2>2, <2>3 DEF NotForked
  <2> QED BY <1>2, <1>4, <2>1, <2>2, <2>3, <2>4
<1> QED BY <1>5, <1>6 DEF fork

(* A fork() for part i, whose child, if it has one, is reaped. *)
LEMMA ForkKeeps ==
  ASSUME IInv, fork(i), i' \in Part, pc' \in {"fork", "wait", "waitRetry"}, pc \in {"fork", "retry"},
         UNCHANGED <<file, status, count>>
  PROVE  /\ TypeOK' /\ PipesApart' /\ ContentsOnce'
         /\ \A p \in Part : p # i => (Done(p) => Done(p)') /\ (Awaited(p) => Awaited(p)')
         /\ failures' = 0 => failures = 0 /\ \A p \in Part : p = i => Awaited(p)'
<1>0. PICK n : n = Len(children) + 1
  OBVIOUS
<1> DEFINE k == Len(pipe) + 1
<1>1. TypeOK /\ PipesApart /\ ContentsOnce
  BY DEF IInv
<1>2. /\ pipe' \in Seq(Seq(count_t)) /\ Len(pipe') = k
      /\ pipe'[k] = << >> /\ \A q \in 1 .. Len(pipe) : pipe'[q] = pipe[q]
      /\ children' \in Seq(ChildRecord) /\ \A d \in Child : children'[d] = children[d]
      /\ pipes' \in [Part -> 0 .. Len(pipe')] /\ pids' \in [Part -> Child' \cup {-1}]
      /\ pipes'[i] = k
      /\ \A p \in Part : p # i => pids'[p] = pids[p] /\ pipes'[p] = pipes[p]
      /\ failures' \in 0 .. MaxFailures
      /\ Forked(n) \/ NotForked
  BY <1>0, <1>1, ForkEffect
<1>3. /\ Len(pipe) \in Nat /\ i \in Part /\ failures \in Nat
      /\ \A p \in Part : pids[p] # -1 => pids[p] \in Child
      /\ \A p \in Part : pipes[p] \in 0 .. Len(pipe)
  BY <1>1 DEF TypeOK
<1>4. \A d \in Child : /\ PipeOf(d)' = PipeOf(d) /\ PartOf(d)' = PartOf(d) /\ State(d)' = State(d)
                       /\ Written(d)' = Written(d) /\ children'[d].killed = children[d].killed
                       /\ PipeOf(d) \in 1 .. Len(pipe)
  BY <1>1, <1>2 DEF PipeOf, PartOf, State, Written, PipesApart
<1>5. \A d \in Child : Contents(d)' = Contents(d)
  BY <1>2, <1>4 DEF Contents
<1>6. \A p \in Part : p # i => pipes'[p] = pipes[p] /\ pipes'[p] # k
  BY ONLY <1>2, <1>3
<1>7. pipes'[i] = k
  BY <1>2
<1>8. TypeOK'
  BY <1>1, <1>2 DEF TypeOK
<1>9. CASE Forked(n)
  <2>1. /\ Child' = Child \cup {n} /\ n \notin Child /\ pids'[i] = n /\ failures' = failures /\ n # -1
        /\ PipeOf(n)' = k /\ PartOf(n)' = i /\ State(n)' = "count" /\ children'[n].killed = FALSE
    <3>1. children'[n] = NewChild(n)
      BY <1>9 DEF Forked
    <3>2. Len(children) \in Nat
      BY <1>1 DEF TypeOK
    <3> QED BY <1>0, <1>9, <3>1, <3>2 DEF Forked, NewChild, PipeOf, PartOf, State
  <2>2. Contents(n)' = << >>
    BY <1>2, <2>1 DEF Contents
  <2>3. PipesApart'
    <3>1. \A c \in Child' : PipeOf(c)' \in 1 .. Len(pipe')
      BY <1>2, <1>3, <1>4, <2>1
    <3>2. \A c, d \in Child' : PipeOf(c)' = PipeOf(d)' => c = d
      <4>1. \A c \in Child : PipeOf(c)' # k
        BY <1>3, <1>4
      <4> QED BY <1>1, <1>4, <2>1, <4>1 DEF PipesApart
    <3>3. \A p, q \in Part : pipes'[p] = pipes'[q] /\ pipes'[p] # 0 => p = q
      BY ONLY <1>6, <1>7, <1>1, <1>3 DEF PipesApart
    <3>4. \A c \in Child', p \in Part : pipes'[p] = PipeOf(c)' => PartOf(c)' = p
      BY ONLY <1>1, <1>3, <1>4, <1>6, <1>7, <2>1 DEF PipesApart
    <3>5. \A p \in Part : pids'[p] # -1 => children'[pids'[p]].part = p /\ children'[pids'[p]].pipe = pipes'[p]
      <4> SUFFICES ASSUME NEW p \in Part, pids'[p] # -1
                   PROVE  \A d : d = pids'[p] => children'[d].part = p /\ children'[d].pipe = pipes'[p]
        OBVIOUS
      <4>1. CASE p = i
        BY <1>2, <2>1, <4>1 DEF PartOf, PipeOf
      <4>2. CASE p # i
        <5>1. pids'[p] = pids[p] /\ pids[p] \in Child /\ pipes'[p] = pipes[p]
          BY <1>2, <1>3, <4>2
        <5> QED BY <1>1, <1>4, <5>1 DEF PipesApart, PartOf, PipeOf
      <4> QED BY <4>1, <4>2
    <3> QED BY <3>1, <3>2, <3>3, <3>4, <3>5 DEF PipesApart, PartOf, PipeOf
  <2>4. ContentsOnce'
    <3>1. \A q \in 1 .. Len(pipe') : pipe'[q] = << >> \/ \E c \in Child' : PipeOf(c)' = q /\ pipe'[q] = Written(c)'
      <4> SUFFICES ASSUME NEW q \in 1 .. Len(pipe'), pipe'[q] # << >>
                   PROVE  \E c \in Child' : PipeOf(c)' = q /\ pipe'[q] = Written(c)'
        OBVIOUS
      <4>1. q \in 1 .. Len(pipe) /\ pipe'[q] = pipe[q]
        BY <1>2, <1>3
      <4>2. PICK c \in Child : PipeOf(c) = q /\ pipe[q] = Written(c)
        BY <1>1, <4>1 DEF ContentsOnce
      <4> QED BY <1>4, <2>1, <4>1, <4>2
    <3>2. /\ \A c \in Child' : State(c)' \in {"count", "write"} => Contents(c)' = << >>
          /\ \A c \in Child' : State(c)' \in Running \cup {"exited"} => ~children'[c].killed
          /\ \A c \in Child' : State(c)' = "signaled" => children'[c].killed
      BY <1>1, <1>4, <1>5, <2>1, <2>2 DEF ContentsOnce
    <3>3. \A c \in Child' : State(c)' \notin {"count", "write"} /\ ~children'[c].killed => Contents(c)' = Written(c)'
      BY <1>1, <1>4, <1>5, <2>1 DEF ContentsOnce
    <3> QED BY <3>1, <3>2, <3>3 DEF ContentsOnce
  <2>5. \A p \in Part : p = i => Awaited(p)'
    BY <2>1 DEF Awaited, State
  <2>6. \A p \in Part : p # i => (Done(p) => Done(p)') /\ (Awaited(p) => Awaited(p)')
    BY <1>2, <1>3, <1>4 DEF Done, Awaited, State
  <2> QED BY <1>8, <2>1, <2>3, <2>4, <2>5, <2>6
<1>10. CASE NotForked
  <2>1. Child' = Child /\ pids'[i] = -1 /\ failures' # 0
    BY <1>10 DEF NotForked
  <2>2. PipesApart'
    <3>1. \A c \in Child' : PipeOf(c)' \in 1 .. Len(pipe')
      BY <1>2, <1>3, <1>4, <2>1
    <3>2. \A c, d \in Child' : PipeOf(c)' = PipeOf(d)' => c = d
      BY <1>1, <1>4, <2>1 DEF PipesApart
    <3>3. \A p, q \in Part : pipes'[p] = pipes'[q] /\ pipes'[p] # 0 => p = q
      BY ONLY <1>6, <1>7, <1>1, <1>3 DEF PipesApart
    <3>4. \A c \in Child', p \in Part : pipes'[p] = PipeOf(c)' => PartOf(c)' = p
      BY ONLY <1>1, <1>3, <1>4, <1>6, <1>7, <2>1 DEF PipesApart
    <3>5. \A p \in Part : pids'[p] # -1 => children'[pids'[p]].part = p /\ children'[pids'[p]].pipe = pipes'[p]
      <4> SUFFICES ASSUME NEW p \in Part, pids'[p] # -1
                   PROVE  \A d : d = pids'[p] => children'[d].part = p /\ children'[d].pipe = pipes'[p]
        OBVIOUS
      <4>1. pids'[p] = pids[p] /\ pids[p] \in Child /\ pipes'[p] = pipes[p]
        BY <1>2, <1>3, <2>1
      <4> QED BY <1>1, <1>4, <4>1 DEF PipesApart, PartOf, PipeOf
    <3> QED BY <3>1, <3>2, <3>3, <3>4, <3>5 DEF PipesApart, PartOf, PipeOf
  <2>3. ContentsOnce'
    <3>1. \A q \in 1 .. Len(pipe') : pipe'[q] = << >> \/ \E c \in Child' : PipeOf(c)' = q /\ pipe'[q] = Written(c)'
      <4> SUFFICES ASSUME NEW q \in 1 .. Len(pipe'), pipe'[q] # << >>
                   PROVE  \E c \in Child' : PipeOf(c)' = q /\ pipe'[q] = Written(c)'
        OBVIOUS
      <4>1. q \in 1 .. Len(pipe) /\ pipe'[q] = pipe[q]
        BY <1>2, <1>3
      <4>2. PICK c \in Child : PipeOf(c) = q /\ pipe[q] = Written(c)
        BY <1>1, <4>1 DEF ContentsOnce
      <4> QED BY <1>4, <2>1, <4>1, <4>2
    <3> QED BY <1>1, <1>4, <1>5, <2>1, <3>1 DEF ContentsOnce
  <2>4. \A p \in Part : p # i => (Done(p) => Done(p)') /\ (Awaited(p) => Awaited(p)')
    BY <1>2, <1>3, <1>4 DEF Done, Awaited, State
  <2> QED BY <1>8, <2>1, <2>2, <2>3, <2>4
<1> QED BY <1>2, <1>9, <1>10

(* The forks of the first loop. *)
LEMMA ForkIInv ==
  ASSUME IInv, Fork
  PROVE  IInv'
<1>1. TypeOK /\ ForkedSoFar /\ Pending /\ Retried /\ WaitedInTurn
  BY DEF IInv
<1>2. /\ pc = "fork" /\ fork(i) /\ UNCHANGED <<file, status, count>> /\ i \in Part
      /\ i' \in Part
      /\ \/ pc' = "fork" /\ i' = i + 1
         \/ pc' = "wait" /\ i' = 0 /\ i = nChildProc - 1
  BY <1>1, NextPartStep DEF Fork, TypeOK
<1>3. /\ TypeOK' /\ PipesApart' /\ ContentsOnce'
      /\ \A p \in Part : p # i => (Done(p) => Done(p)') /\ (Awaited(p) => Awaited(p)')
      /\ failures' = 0 => failures = 0 /\ \A p \in Part : p = i => Awaited(p)'
  BY <1>2, ForkKeeps
<1>4. PICK n : n = Len(children) + 1
  OBVIOUS
<1>5. /\ Forked(n) \/ NotForked
      /\ \A d \in Child : children'[d] = children[d]
      /\ \A p \in Part : p # i => pids'[p] = pids[p] /\ pipes'[p] = pipes[p]
      /\ pipes'[i] = Len(pipe) + 1
  BY <1>1, <1>2, <1>4, ForkEffect
<1>6. /\ \A p \in Part : p \in Nat /\ p <= nChildProc - 1
      /\ Len(pipe) \in Nat
  BY <1>1, WordCountAssumption DEF Part, TypeOK
<1>7. ForkedSoFar'
  BY <1>1, <1>2, <1>5, <1>6 DEF ForkedSoFar
<1>8. Pending'
  <2> SUFFICES ASSUME NEW d \in Child', State(d)' # "reaped"
               PROVE  /\ \A p : p = PartOf(d)' => pids'[p] = d
                      /\ PartOf(d)' \in Part
    BY <1>2, <1>6 DEF Pending
  <2>1. CASE d \in Child
    <3>1. State(d) # "reaped" /\ PartOf(d)' = PartOf(d)
      BY <1>5, <2>1 DEF State, PartOf
    <3>2. children[d] \in ChildRecord
      BY <1>1, <2>1, ElementOfSeq DEF TypeOK, Child
    <3>3. PartOf(d) \in Part
      BY <3>2 DEF PartOf, ChildRecord
    <3>4. pids[PartOf(d)] = d /\ d # -1
      BY <1>1, <2>1, <3>1 DEF Pending, Child
    <3>5. PartOf(d) # i
      BY <1>1, <1>2, <1>6, <3>4 DEF ForkedSoFar
    <3> QED BY <1>5, <3>1, <3>3, <3>4, <3>5
  <2>2. CASE d \notin Child
    <3>1. d = n /\ children'[d] = NewChild(n) /\ pids'[i] = d
      BY <1>5, <2>2 DEF Forked, NotForked
    <3> QED BY <1>2, <3>1 DEF PartOf, NewChild
  <2> QED BY <2>1, <2>2
<1>9. Retried'
  BY <1>1, <1>2 DEF Retried
<1>10. WaitedInTurn'
  <2> SUFFICES ASSUME failures' = 0
               PROVE  \A p \in Part : (pc' = "fork" => p < i') => Awaited(p)'
    BY <1>2, <1>6 DEF WaitedInTurn
  <2>1. \A p \in Part : p < i => Awaited(p)'
    BY <1>1, <1>2, <1>3, <1>6 DEF WaitedInTurn
  <2>2. \A p \in Part : p = i => Awaited(p)'
    BY <1>3
  <2> QED BY <1>2, <1>6, <2>1, <2>2
<1> QED BY <1>3, <1>7, <1>8, <1>9, <1>10 DEF IInv

(* The fork of a part whose child was killed. *)
LEMMA RetryIInv ==
  ASSUME IInv, Retry
  PROVE  IInv'
<1>1. TypeOK /\ ForkedSoFar /\ Pending /\ Retried /\ WaitedInTurn
  BY DEF IInv
<1>2. /\ pc = "retry" /\ pc' = "waitRetry" /\ fork(i) /\ UNCHANGED <<file, status, count>> /\ i \in Part
      /\ i' = i
  BY <1>1 DEF Retry, TypeOK
<1>3. /\ TypeOK' /\ PipesApart' /\ ContentsOnce'
      /\ \A p \in Part : p # i => (Done(p) => Done(p)') /\ (Awaited(p) => Awaited(p)')
      /\ failures' = 0 => failures = 0 /\ \A p \in Part : p = i => Awaited(p)'
  BY <1>2, ForkKeeps
<1>4. PICK n : n = Len(children) + 1
  OBVIOUS
<1>5. /\ Forked(n) \/ NotForked
      /\ \A d \in Child : children'[d] = children[d]
      /\ \A p \in Part : p # i => pids'[p] = pids[p] /\ pipes'[p] = pipes[p]
      /\ pipes'[i] = Len(pipe) + 1
  BY <1>1, <1>2, <1>4, ForkEffect
<1>6. /\ \A p \in Part : p \in Nat /\ p <= nChildProc - 1
      /\ Len(pipe) \in Nat
  BY <1>1, WordCountAssumption DEF Part, TypeOK
<1>7. ForkedSoFar'
  BY <1>1, <1>2, <1>5, <1>6 DEF ForkedSoFar
<1>8. Pending'
  <2> SUFFICES ASSUME NEW d \in Child', State(d)' # "reaped"
               PROVE  /\ \A p : p = PartOf(d)' => pids'[p] = d
                      /\ PartOf(d)' >= i
    BY <1>2, <1>6 DEF Pending
  <2>1. CASE d \in Child
    <3>1. State(d) # "reaped" /\ PartOf(d)' = PartOf(d)
      BY <1>5, <2>1 DEF State, PartOf
    <3>2. children[d] \in ChildRecord
      BY <1>1, <2>1, ElementOfSeq DEF TypeOK, Child
    <3>3. PartOf(d) \in Part
      BY <3>2 DEF PartOf, ChildRecord
    <3>4. pids[PartOf(d)] = d /\ PartOf(d) > i
      BY <1>1, <1>2, <2>1, <3>1 DEF Pending
    <3> QED BY <1>2, <1>5, <1>6, <3>1, <3>3, <3>4
  <2>2. CASE d \notin Child
    <3>1. d = n /\ children'[d] = NewChild(n) /\ pids'[i] = d
      BY <1>5, <2>2 DEF Forked, NotForked
    <3> QED BY <1>2, <1>6, <3>1 DEF PartOf, NewChild
  <2> QED BY <2>1, <2>2
<1>9. Retried'
  <2> SUFFICES ASSUME pids'[i] # -1
               PROVE  \A d : d = pids'[i] => State(d)' # "reaped"
    BY <1>2 DEF Retried, State
  <2>1. children'[n] = NewChild(n) /\ pids'[i] = n
    BY <1>5 DEF Forked, NotForked
  <2> QED BY <2>1 DEF State, NewChild
<1>10. WaitedInTurn'
  <2> SUFFICES ASSUME failures' = 0
               PROVE  \A p \in Part : (p >= i => Awaited(p)') /\ (p < i => Done(p)')
    BY <1>2, <1>6 DEF WaitedInTurn
  <2>1. \A p \in Part : (p > i => Awaited(p)') /\ (p < i => Done(p)')
    BY <1>1, <1>2, <1>3, <1>6 DEF WaitedInTurn
  <2>2. \A p \in Part : p = i => Awaited(p)'
    BY <1>3
  <2> QED BY <1>2, <1>6, <2>1, <2>2
<1> QED BY <1>3, <1>7, <1>8, <1>9, <1>10 DEF IInv

(* waitpid(): child c is reaped, or there is none to wait for. *)
Reaped(c) ==
  /\ c \in WaitedFor(pids[i]) /\ State(c) \in Zombie /\ status' = State(c)
  /\ Changed(c, [children[c] EXCEPT !.state = "reaped"])

NoneToReap == WaitedFor(pids[i]) = {} /\ UNCHANGED <<status, children>>

LEMMA WaitEffect ==
  ASSUME TypeOK, waitpid(pids[i])
  PROVE  (\E c \in Child : Reaped(c)) \/ NoneToReap
<1>1. CASE \E c \in WaitedFor(pids[i]) :
             InState(c, Zombie) /\ status' = children[c].state /\ Become(c, "reaped")
  <2>1. PICK c \in WaitedFor(pids[i]) :
          InState(c, Zombie) /\ status' = children[c].state /\ Become(c, "reaped")
    BY <1>1
  <2>2. c \in Child /\ children \in Seq(ChildRecord) /\ children[c] \in ChildRecord
    BY <2>1, ElementOfSeq DEF WaitedFor, TypeOK, Child
  <2> DEFINE r == [children[c] EXCEPT !.state = "reaped"]
  <2>3. r \in ChildRecord /\ children' = [children EXCEPT ![c] = r]
    BY <2>1, <2>2 DEF ChildRecord, Become, Child
  <2>4. Changed(c, r)
    BY <2>2, <2>3, ChildChanged
  <2> QED BY <2>1, <2>2, <2>4 DEF Reaped, State, InState
<1>2. CASE WaitedFor(pids[i]) = {} /\ UNCHANGED <<status, children>>
  BY <1>2 DEF NoneToReap
<1> QED BY <1>1, <1>2 DEF waitpid

(* The child of part i is waited for, in either loop, and the loop goes on *)
(* to the retry of the part or to the next one.                            *)
LEMMA WaitKeeps ==
  ASSUME IInv, pc \in {"wait", "waitRetry"}, waitpid(pids[i]),
         IF status' = "signaled" THEN pc' = "retry" /\ UNCHANGED i ELSE NextPart("wait", "read"),
         UNCHANGED <<file, pids, pipes, pipe, count, failures>>
  PROVE  IInv'
<1>1. TypeOK /\ PipesApart /\ ForkedSoFar /\ ContentsOnce /\ Pending /\ Retried /\ WaitedInTurn
  BY DEF IInv
<1>2. /\ i \in Part /\ i' \in Part
      /\ \/ pc' = "retry" /\ i' = i /\ status' = "signaled"
         \/ pc' = "wait" /\ i' = i + 1 /\ status' # "signaled"
         \/ pc' = "read" /\ i' = 0 /\ i = nChildProc - 1 /\ status' # "signaled"
  BY <1>1, NextPartStep DEF TypeOK
<1>3. (\E c \in Child : Reaped(c)) \/ NoneToReap
  BY <1>1, WaitEffect
<1>4. /\ \A p \in Part : p \in Nat /\ p <= nChildProc - 1
      /\ \A p \in Part : pids[p] # -1 => pids[p] \in Child /\ PartOf(pids[p]) = p
  BY <1>1, WordCountAssumption DEF Part, TypeOK, PipesApart
<1>5. \A d \in Child : PartOf(d) \in Part /\ d # -1
  <2>1. \A d \in Child : children[d] \in ChildRecord
    BY <1>1, ElementOfSeq DEF TypeOK, Child
  <2> QED BY <2>1 DEF PartOf, ChildRecord, Child
(* The child of part i, if it has one to wait for, is the one reaped. *)
<1>6. \A d \in Child : State(d) # "reaped" /\ PartOf(d) = i => d \in WaitedFor(pids[i]) /\ WaitedFor(pids[i]) = {d}
  BY <1>1, <1>5 DEF Pending, WaitedFor, InState, State
<1>7. /\ Child' = Child /\ children' \in Seq(ChildRecord) /\ status' \in Zombie
      /\ \A d \in Child : /\ PipeOf(d)' = PipeOf(d) /\ PartOf(d)' = PartOf(d) /\ Written(d)' = Written(d)
                          /\ children'[d].killed = children[d].killed
                          /\ State(d)' = State(d) \/ (State(d) \in Zombie /\ State(d)' = "reaped")
                          /\ PartOf(d) = i => State(d)' = "reaped"
                          /\ PartOf(d) # i /\ (\E e \in Child : PartOf(e) = i /\ State(e) # "reaped")
                               => State(d)' = State(d)
  <2>1. CASE NoneToReap
    <3>1. \A d \in Child : PartOf(d) = i => State(d) = "reaped"
      BY <1>6, <2>1 DEF NoneToReap
    <3> QED BY <1>1, <2>1, <3>1 DEF NoneToReap, Child, TypeOK, PipeOf, PartOf, Written, State
  <2>2. ASSUME NEW c \in Child, Reaped(c)
        PROVE  <1>7!:
    <3>1. /\ c \in WaitedFor(pids[i]) /\ State(c) \in Zombie /\ status' = State(c)
          /\ children' \in Seq(ChildRecord) /\ Child' = Child
          /\ children'[c] = [children[c] EXCEPT !.state = "reaped"]
          /\ \A d \in Child : d # c => children'[d] = children[d]
      BY <2>2 DEF Reaped, Changed, Child
    <3>2. children[c] \in ChildRecord
      BY <1>1, ElementOfSeq DEF TypeOK, Child
    <3>3. /\ children'[c].part = children[c].part /\ children'[c].pipe = children[c].pipe
          /\ children'[c].wc = children[c].wc /\ children'[c].killed = children[c].killed
          /\ children'[c].state = "reaped"
      BY <3>1, <3>2 DEF ChildRecord
    <3>4. ASSUME NEW d \in Child
          PROVE  /\ PipeOf(d)' = PipeOf(d) /\ PartOf(d)' = PartOf(d) /\ Written(d)' = Written(d)
                 /\ children'[d].killed = children[d].killed
                 /\ State(d)' = State(d) \/ (State(d) \in Zombie /\ State(d)' = "reaped")
      BY <3>1, <3>3 DEF PipeOf, PartOf, Written, State
    <3>5. ASSUME NEW d \in Child, PartOf(d) = i
          PROVE  State(d)' = "reaped"
      <4>1. CASE State(d) = "reaped"
        BY <3>4, <4>1
      <4>2. CASE State(d) # "reaped"
        BY <1>6, <3>1, <3>3, <3>5, <4>2 DEF State
      <4> QED BY <4>1, <4>2
    <3>6. ASSUME NEW d \in Child, PartOf(d) # i, NEW e \in Child, PartOf(e) = i, State(e) # "reaped"
          PROVE  State(d)' = State(d)
      BY <1>6, <3>1, <3>6 DEF State
    <3> QED BY <3>1, <3>4, <3>5, <3>6
  <2> QED BY <1>3, <2>1, <2>2
<1>8. \A d \in Child : PipeOf(d)' = PipeOf(d) /\ Contents(d)' = Contents(d)
  BY <1>7 DEF Contents
<1>9. TypeOK'
  BY <1>1, <1>2, <1>7 DEF TypeOK
<1>10. PipesApart'
  BY <1>1, <1>4, <1>7 DEF PipesApart
<1>11. ForkedSoFar'
  BY <1>1, <1>2 DEF ForkedSoFar
<1>12. ContentsOnce'
  <2>1. \A k \in 1 .. Len(pipe') : pipe'[k] = << >> \/ \E c \in Child' : PipeOf(c)' = k /\ pipe'[k] = Written(c)'
    BY <1>1, <1>7 DEF ContentsOnce
  <2>2. /\ \A c \in Child' : State(c)' \in {"count", "write"} => Contents(c)' = << >>
        /\ \A c \in Child' : State(c)' \in Running \cup {"exited"} => ~children'[c].killed
        /\ \A c \in Child' : State(c)' = "signaled" => children'[c].killed
    BY <1>1, <1>7, <1>8 DEF ContentsOnce, Running
  <2>3. \A c \in Child' : State(c)' \notin {"count", "write"} /\ ~children'[c].killed => Contents(c)' = Written(c)'
    BY <1>1, <1>7, <1>8 DEF ContentsOnce, Zombie
  <2> QED BY <2>1, <2>2, <2>3 DEF ContentsOnce
<1>13. \A d \in Child : State(d)' # "reaped" => State(d) # "reaped" /\ PartOf(d) > i /\ pids[PartOf(d)] = d
  <2> SUFFICES ASSUME NEW d \in Child, State(d)' # "reaped"
               PROVE  State(d) # "reaped" /\ PartOf(d) > i /\ pids[PartOf(d)] = d
    OBVIOUS
  <2>1. State(d) # "reaped" /\ PartOf(d) # i
    BY <1>7
  <2>2. PartOf(d) >= i /\ pids[PartOf(d)] = d
    BY <1>1, <2>1 DEF Pending
  <2> QED BY <1>2, <1>4, <1>5, <2>1, <2>2
<1>14. Pending'
  <2> SUFFICES ASSUME NEW d \in Child, State(d)' # "reaped"
               PROVE  /\ pids[PartOf(d)] = d /\ pc' \notin {"read", "done"}
                      /\ PartOf(d) >= i' /\ (pc' = "retry" => PartOf(d) > i')
    BY <1>7 DEF Pending
  <2>1. PartOf(d) > i /\ PartOf(d) \in Part /\ pids[PartOf(d)] = d
    BY <1>5, <1>13
  <2> QED BY <1>2, <1>4, <2>1
<1>15. Retried'
  <2>1. status' = "exited" \/ pc' = "retry"
    BY <1>2, <1>7 DEF Zombie
  <2>2. ASSUME pc' = "retry", pids[i] # -1
        PROVE  children'[pids[i]].killed
    <3>1. pids[i] \in Child /\ PartOf(pids[i]) = i
      BY <1>2, <1>4, <2>2
    <3>2. CASE NoneToReap
      <4>1. State(pids[i]) = "reaped"
        BY <1>6, <3>1, <3>2 DEF NoneToReap
      <4>2. status = "signaled" /\ pc = "wait"
        BY <1>1, <1>2, <2>2, <3>2, <4>1 DEF NoneToReap, Retried
      <4> QED BY <1>1, <4>2 DEF Retried
    <3>3. ASSUME NEW c \in Child, Reaped(c)
          PROVE  children'[pids[i]].killed
      <4>1. c = pids[i] /\ State(c) = "signaled"
        BY <1>2, <2>2, <3>1, <3>3 DEF Reaped, WaitedFor
      <4> QED BY <1>1, <1>7, <4>1 DEF ContentsOnce
    <3> QED BY <1>3, <3>2, <3>3
  <2> QED BY <1>2, <2>1, <2>2 DEF Retried
<1>16. WaitedInTurn'
  <2> SUFFICES ASSUME failures = 0
               PROVE  WaitedInTurn'
    BY DEF WaitedInTurn
  <2>1. \A p \in Part : (p >= i => Awaited(p)) /\ (p < i => Done(p))
    BY <1>1 DEF WaitedInTurn
  <2>2. Awaited(i) /\ pids[i] # -1 /\ pids[i] \in Child /\ PartOf(pids[i]) = i /\ State(pids[i]) # "reaped"
    BY <1>2, <1>4, <2>1 DEF Awaited
  <2>3. \A d \in Child : PartOf(d) # i => State(d)' = State(d)
    BY <1>7, <2>2
  <2>4. \A p \in Part : p # i => (Awaited(p) => Awaited(p)') /\ (Done(p) => Done(p)')
    BY <1>4, <1>7, <2>3 DEF Awaited, Done, State
  <2>5. status' # "signaled" => \A p \in Part : p = i => Done(p)'
    <3> SUFFICES ASSUME status' # "signaled"
                 PROVE  /\ children'[pids[i]].state = "reaped"
                        /\ ~children'[pids[i]].killed
      BY <2>2 DEF Done, State
    <3>1. children'[pids[i]].state = "reaped"
      BY <1>7, <2>2 DEF State
    <3>2. ~NoneToReap
      BY <1>6, <2>2 DEF NoneToReap
    <3>3. State(pids[i]) = "exited"
      <4>1. PICK c \in Child : Reaped(c)
        BY <1>3, <3>2
      <4>2. c = pids[i]
        BY <1>6, <2>2, <4>1 DEF Reaped
      <4> QED BY <4>1, <4>2 DEF Reaped, Zombie
    <3>4. ~children[pids[i]].killed
      BY <1>1, <2>2, <3>3 DEF ContentsOnce
    <3> QED BY <1>7, <2>2, <3>1, <3>4
  <2>6. \A p \in Part : (p > i => Awaited(p)') /\ (p < i => Done(p)')
    BY <1>2, <1>4, <2>1, <2>4
  <2> QED BY <1>2, <1>4, <2>2, <2>5, <2>6 DEF WaitedInTurn
<1> QED BY <1>9, <1>10, <1>11, <1>12, <1>14, <1>15, <1>16 DEF IInv

LEMMA WaitIInv ==
  ASSUME IInv, Wait \/ WaitRetry
  PROVE  IInv'
<1>1. CASE Wait
  BY <1>1, WaitKeeps DEF Wait
<1>2. CASE WaitRetry
  BY <1>2, WaitKeeps DEF WaitRetry, EndOfRetry
<1> QED BY <1>1, <1>2

(* The count that is read is that of a child of part i, and it was alone   *)
(* in its pipe.                                                            *)
LEMMA ReadEffect ==
  ASSUME IInv, Read
  PROVE  /\ pipes[i] \in 1 .. Len(pipe)
         /\ \E c \in Child :
              /\ PartOf(c) = i /\ PipeOf(c) = pipes[i] /\ Contents(c) = Written(c)
              /\ count' = Add(count, children[c].wc) /\ children[c].wc \in count_t
         /\ pipe' = [pipe EXCEPT ![pipes[i]] = << >>]
         /\ pipe' \in Seq(Seq(count_t)) /\ Len(pipe') = Len(pipe)
         /\ pipe'[pipes[i]] = << >>
         /\ \A k \in 1 .. Len(pipe) : k # pipes[i] => pipe'[k] = pipe[k]
<1>1. TypeOK /\ PipesApart /\ ForkedSoFar /\ ContentsOnce /\ i \in Part
  BY DEF IInv, TypeOK
<1>2. pc = "read" /\ pipe[pipes[i]] # << >>
  BY DEF Read
<1>3. pipes[i] \in 1 .. Len(pipe) /\ Len(pipe) \in Nat /\ pipe \in Seq(Seq(count_t))
  BY <1>1, <1>2 DEF TypeOK, ForkedSoFar
<1>4. PICK c \in Child : PipeOf(c) = pipes[i] /\ pipe[pipes[i]] = Written(c)
  BY <1>1, <1>2, <1>3 DEF ContentsOnce
<1>5. PartOf(c) = i
  BY <1>1, <1>4 DEF PipesApart
<1>6. children[c].wc \in count_t
  <2>1. children[c] \in ChildRecord
    BY <1>1, ElementOfSeq DEF TypeOK, Child
  <2> QED BY <2>1 DEF ChildRecord
<1>7. Head(Written(c)) = children[c].wc /\ Tail(Written(c)) = << >>
  BY DEF Written
<1>8. count' = Add(count, children[c].wc) /\ pipe' = [pipe EXCEPT ![pipes[i]] = << >>]
  BY <1>4, <1>7 DEF Read
<1>9. << >> \in Seq(count_t)
  OBVIOUS
<1>10. /\ pipe' \in Seq(Seq(count_t)) /\ Len(pipe') = Len(pipe) /\ pipe'[pipes[i]] = << >>
       /\ \A k \in 1 .. Len(pipe) : k # pipes[i] => pipe'[k] = pipe[k]
  BY <1>3, <1>8, <1>9, ExceptSeq
<1> QED BY <1>3, <1>4, <1>5, <1>6, <1>8, <1>10 DEF Contents

LEMMA ReadIInv ==
  ASSUME IInv, Read
  PROVE  IInv'
<1>1. TypeOK /\ PipesApart /\ ForkedSoFar /\ ContentsOnce /\ Pending /\ Retried /\ WaitedInTurn
  BY DEF IInv
<1>2. /\ i \in Part /\ i' \in Part /\ pc = "read"
      /\ \/ pc' = "read" /\ i' = i + 1
         \/ pc' = "done" /\ i' = 0 /\ i = nChildProc - 1
      /\ UNCHANGED <<file, status, pids, pipes, children, failures>>
  BY <1>1, NextPartStep DEF TypeOK, Read
<1>3. /\ pipes[i] \in 1 .. Len(pipe) /\ pipe' \in Seq(Seq(count_t)) /\ Len(pipe') = Len(pipe)
      /\ pipe'[pipes[i]] = << >>
      /\ \A k \in 1 .. Len(pipe) : k # pipes[i] => pipe'[k] = pipe[k]
  BY ReadEffect
<1>4. count' \in count_t
  <2>1. PICK w \in count_t : count' = Add(count, w)
    BY ReadEffect
  <2> QED BY <1>1, <2>1, AddType DEF TypeOK
<1>5. /\ Child' = Child
      /\ \A d \in Child : PipeOf(d)' = PipeOf(d) /\ PartOf(d)' = PartOf(d) /\ Written(d)' = Written(d) /\ State(d)' = State(d)
  BY <1>2 DEF Child, PipeOf, PartOf, Written, State
<1>6. /\ \A p \in Part : p \in Nat /\ p <= nChildProc - 1
      /\ \A d \in Child : PartOf(d) \in Part
  <2>1. \A d \in Child : children[d] \in ChildRecord
    BY <1>1, ElementOfSeq DEF TypeOK, Child
  <2> QED BY <2>1, WordCountAssumption DEF PartOf, ChildRecord, Part
<1>7. \A d \in Child : /\ PartOf(d) # i => Contents(d)' = Contents(d)
                       /\ Contents(d) = << >> => Contents(d)' = << >>
  <2> SUFFICES ASSUME NEW d \in Child
               PROVE  /\ PartOf(d) # i => Contents(d)' = Contents(d)
                      /\ Contents(d) = << >> => Contents(d)' = << >>
    OBVIOUS
  <2>1. PipeOf(d) \in 1 .. Len(pipe) /\ (PipeOf(d) = pipes[i] => PartOf(d) = i)
    BY <1>1, <1>2 DEF PipesApart
  <2> QED BY <1>3, <1>5, <2>1 DEF Contents
<1>8. TypeOK'
  BY <1>1, <1>2, <1>3, <1>4, <1>5 DEF TypeOK
<1>9. PipesApart'
  BY <1>1, <1>2, <1>3, <1>5 DEF PipesApart, PartOf, PipeOf
<1>10. ForkedSoFar' /\ Pending' /\ Retried'
  BY <1>1, <1>2, <1>5 DEF ForkedSoFar, Pending, Retried
<1>11. WaitedInTurn'
  <2>1. \A p \in Part : Done(p)' <=> Done(p)
    BY <1>2 DEF Done, State
  <2> QED BY <1>1, <1>2, <2>1 DEF WaitedInTurn
<1>12. ContentsOnce'
  <2>1. \A k \in 1 .. Len(pipe') : pipe'[k] = << >> \/ \E c \in Child' : PipeOf(c)' = k /\ pipe'[k] = Written(c)'
    <3> SUFFICES ASSUME NEW k \in 1 .. Len(pipe'), pipe'[k] # << >>
                 PROVE  \E c \in Child' : PipeOf(c)' = k /\ pipe'[k] = Written(c)'
      OBVIOUS
    <3>1. k \in 1 .. Len(pipe) /\ pipe'[k] = pipe[k]
      BY <1>3
    <3>2. PICK c \in Child : PipeOf(c) = k /\ pipe[k] = Written(c)
      BY <1>1, <3>1 DEF ContentsOnce
    <3> QED BY <1>5, <3>1, <3>2
  <2>2. /\ \A c \in Child' : State(c)' \in {"count", "write"} => Contents(c)' = << >>
        /\ \A c \in Child' : State(c)' \in Running \cup {"exited"} => ~children'[c].killed
        /\ \A c \in Child' : State(c)' = "signaled" => children'[c].killed
    BY <1>1, <1>2, <1>5, <1>7 DEF ContentsOnce
  <2>3. ASSUME NEW c \in Child', State(c)' \notin {"count", "write"}, ~children'[c].killed,
               pc' = "read", PartOf(c)' >= i'
        PROVE  Contents(c)' = Written(c)'
    <3>1. PartOf(c) >= i /\ PartOf(c) # i
      BY <1>2, <1>5, <1>6, <2>3
    <3> QED BY <1>1, <1>2, <1>5, <1>7, <2>3, <3>1 DEF ContentsOnce
  <2> QED BY <1>2, <2>1, <2>2, <2>3 DEF ContentsOnce
<1> QED BY <1>8, <1>9, <1>10, <1>11, <1>12 DEF IInv

-----------------------------------------------------------------------------
(* The program. *)

LEMMA InitIInv ==
  ASSUME Init
  PROVE  IInv
<1>1. /\ pc = "fork" /\ i = 0 /\ status = "exited" /\ failures = 0 /\ file \in Files
      /\ pids = [k \in Part |-> -1] /\ pipes = [k \in Part |-> 0]
      /\ pipe = << >> /\ children = << >> /\ count = NoCount
  BY DEF Init
<1>2. Child = {} /\ Len(pipe) = 0
  BY <1>1 DEF Child
<1>3. 0 \in Part /\ \A p \in Part : p \in Nat
  BY WordCountAssumption DEF Part
<1>4. TypeOK
  BY <1>1, <1>2, <1>3, WordCountAssumption DEF TypeOK, Zombie, NoCount, count_t
<1>5. PipesApart /\ ContentsOnce /\ Pending
  BY <1>1, <1>2 DEF PipesApart, ContentsOnce, Pending
<1>6. ForkedSoFar /\ Retried
  BY <1>1, <1>3 DEF ForkedSoFar, Retried
<1>7. WaitedInTurn
  BY <1>1, <1>3 DEF WaitedInTurn
<1> QED BY <1>4, <1>5, <1>6, <1>7 DEF IInv

LEMMA NextIInv ==
  ASSUME IInv, [Next]_vars
  PROVE  IInv'
<1>1. CASE Fork
  BY <1>1, ForkIInv
<1>2. CASE Wait \/ WaitRetry
  BY <1>2, WaitIInv
<1>3. CASE Retry
  BY <1>3, RetryIInv
<1>4. CASE Read
  BY <1>4, ReadIInv
<1>5. ASSUME NEW c \in Child, Count(c)
      PROVE  IInv'
  BY <1>5, CountIInv
<1>6. ASSUME NEW c \in Child, Write(c)
      PROVE  IInv'
  BY <1>6, WriteIInv
<1>7. ASSUME NEW c \in Child, Exit(c) \/ Killed(c)
      PROVE  IInv'
  BY <1>7, ExitIInv, KilledIInv
<1>8. CASE UNCHANGED vars
  <2>1. UNCHANGED <<file, pc, i, status, pids, pipes, count, failures, pipe, children>>
    BY <1>8 DEF vars, parent
  <2> QED BY <2>1 DEF IInv, TypeOK, PipesApart, ForkedSoFar, ContentsOnce, Pending, Retried, WaitedInTurn,
                      Child, PipeOf, PartOf, Contents, Written, State, Done, Awaited
<1> QED BY <1>1, <1>2, <1>3, <1>4, <1>5, <1>6, <1>7, <1>8 DEF Next, Parent, Step

(* The bookkeeping of pids, pipes and waits, whatever is killed and        *)
(* whichever fork() fails (wc_multi.c:68-131).                             *)
THEOREM Invariance == Spec => []IInv
<1>1. Init => IInv
  BY InitIInv
<1>2. IInv /\ [Next]_vars => IInv'
  BY NextIInv
<1> QED BY <1>1, <1>2, PTL DEF Spec

(* The variables keep their types: pids and pipes never name a child or a  *)
(* pipe that does not exist (wc_multi.c:68-131).                           *)
THEOREM TypeCorrect == Spec => []TypeOK
<1>1. IInv => TypeOK
  BY DEF IInv
<1> QED BY <1>1, Invariance, PTL

(* No read() of the last loop blocks and none finds the count of another   *)
(* child before its own (wc_multi.c:127).                                  *)
THEOREM ReadsNeverBlock == Spec => []OneCountPerPipe
<1>1. IInv => OneCountPerPipe
  <2> SUFFICES ASSUME IInv, pc = "read", failures = 0, NEW part \in i .. nChildProc - 1
               PROVE  Len(pipe[pipes[part]]) = 1
    BY DEF OneCountPerPipe
  <2>1. /\ TypeOK /\ PipesApart /\ ContentsOnce /\ WaitedInTurn
        /\ i \in Part /\ part \in Part /\ part >= i
    BY WordCountAssumption DEF IInv, TypeOK, Part
  <2>2. Done(part) /\ pids[part] \in Child
    BY <2>1 DEF WaitedInTurn, Done, TypeOK
  <2>3. PartOf(pids[part]) = part /\ PipeOf(pids[part]) = pipes[part]
    BY <2>1, <2>2 DEF PipesApart, Done
  <2>4. Contents(pids[part]) = Written(pids[part])
    BY <2>1, <2>2, <2>3 DEF ContentsOnce, Done
  <2> QED BY <2>3, <2>4 DEF Contents, Written
<1> QED BY <1>1, Invariance, PTL

(* No child outlives the waits or is left a zombie by them, also when some *)
(* fork() failed and a waitpid(-1) took the child of another part          *)
(* (wc_multi.c:92, 114).                                                   *)
THEOREM NoneLeftBehind == Spec => []EveryChildIsReaped
<1>1. IInv => EveryChildIsReaped
  BY DEF IInv, Pending, EveryChildIsReaped, InState, State
<1> QED BY <1>1, Invariance, PTL

(* Only the part of a child that was killed is given to another            *)
(* (wc_multi.c:93, 115).                                                   *)
THEOREM OnlyAfterAKill == Spec => OnlyKilledAreRedone
<1>1. IInv /\ [Next]_vars
        => [\A part \in Part : pids[part] # -1 /\ pids'[part] # pids[part] => children[pids[part]].killed]_vars
  <2> SUFFICES ASSUME IInv, [Next]_vars, NEW part \in Part, pids[part] # -1, pids'[part] # pids[part]
               PROVE  children[pids[part]].killed
    OBVIOUS
  <2>1. TypeOK /\ ForkedSoFar /\ Retried /\ i \in Part /\ i \in Int
    BY WordCountAssumption DEF IInv, TypeOK, Part
  <2>2. pids' # pids
    OBVIOUS
  <2>3. Fork \/ Retry
    BY <2>2 DEF Next, Parent, Step, Wait, WaitRetry, Read, Count, Write, Exit, Killed, parent, vars
  <2>4. part = i
    BY <2>1, <2>3, ForkEffect DEF Fork, Retry
  <2>5. CASE Fork
    BY <2>1, <2>4, <2>5 DEF Fork, ForkedSoFar
  <2>6. CASE Retry
    BY <2>1, <2>4, <2>6 DEF Retry, Retried
  <2> QED BY <2>3, <2>5, <2>6
<1> QED BY <1>1, Invariance, PTL DEF Spec, OnlyKilledAreRedone

-----------------------------------------------------------------------------
(* What the counts add up to. *)

(* The files whose counts wc_multi.c gets right: an int holds their size,  *)
(* and no byte of theirs is taken for EOF.                                 *)
OnlyText ==
  \A f \in Files : Len(f) <= INT_MAX /\ \A k \in 1 .. Len(f) : f[k] # Eof

LEMMA Remainder ==
  ASSUME NEW N \in Nat \ {0}, NEW r \in 0 .. N - 1
  PROVE  r % N = r
OBVIOUS

LEMMA SmallInt ==
  ASSUME NEW x \in 0 .. INT_MAX
  PROVE  ToInt(x) = x
<1>1. INT_MAX \in Nat
  BY WordCountAssumption
<1> DEFINE N == 2 * (INT_MAX + 1)
           r == x + INT_MAX + 1
<1>2. N \in Nat \ {0} /\ r \in 0 .. N - 1
  BY <1>1
<1>3. r % N = r
  BY ONLY <1>2, Remainder
<1>4. ToInt(x) = r - (INT_MAX + 1)
  BY <1>3 DEF ToInt
<1> QED BY <1>1, <1>4

LEMMA Times ==
  ASSUME NEW a \in Nat, NEW b \in Nat, NEW c \in Nat, a <= b
  PROVE  a * c <= b * c /\ a * c \in Nat
<1>1. PICK d \in Nat : b = a + d
  <2>1. b - a \in Nat /\ b = a + (b - a)
    OBVIOUS
  <2> QED BY <2>1
<1>2. b * c = a * c + d * c /\ d * c \in Nat /\ a * c \in Nat
  BY <1>1
<1> QED BY <1>2

(* The parts follow one another from the start of the file to its end.     *)
LEMMA Parts ==
  ASSUME file \in Files, NEW p \in Part
  PROVE  /\ fsize \in Nat /\ fsize \div nChildProc \in 0 .. fsize
         /\ From(p) \in Nat /\ Upto(p) \in Nat /\ From(p) <= Upto(p) /\ Upto(p) <= fsize
         /\ From(0) = 0
         /\ p # nChildProc - 1 => Upto(p) = From(p + 1) /\ Upto(p) = From(p) + (fsize \div nChildProc)
<1>1. fsize \in Nat /\ nChildProc \in Nat \ {0} /\ p \in Nat /\ p <= nChildProc - 1
  BY WordCountAssumption DEF fsize, Part
<1> DEFINE q == fsize \div nChildProc
<1>2. q \in Nat /\ fsize = (q * nChildProc) + (fsize % nChildProc) /\ fsize % nChildProc \in Nat
  BY <1>1
<1> HIDE DEF q
<1>3. q * nChildProc <= fsize
  <2>1. q * nChildProc \in Nat
    BY <1>1, <1>2
  <2> QED BY ONLY <1>1, <1>2, <2>1
<1>4. q <= q * nChildProc
  <2>1. PICK n \in Nat : nChildProc = n + 1
    <3>1. nChildProc - 1 \in Nat /\ nChildProc = (nChildProc - 1) + 1
      BY <1>1
    <3> QED BY <3>1
  <2>2. q * (n + 1) = q * n + q /\ q * n \in Nat
    BY <1>2
  <2> QED BY <1>2, <2>1, <2>2
<1>5. p * q \in Nat /\ (p + 1) * q = p * q + q /\ (p + 1) * q <= nChildProc * q /\ nChildProc * q = q * nChildProc
  <2>1. p + 1 \in Nat /\ p + 1 <= nChildProc
    BY <1>1
  <2> QED BY <1>1, <1>2, <2>1, Times
<1>6. p * q + q <= fsize /\ q <= fsize
  <2>1. q * nChildProc \in Nat
    BY <1>1, <1>2
  <2> QED BY ONLY <1>1, <1>2, <1>3, <1>4, <1>5, <2>1
<1>7. From(p) = p * q /\ From(0) = 0 * q /\ From(p + 1) = (p + 1) * q
      /\ Upto(p) = IF p = nChildProc - 1 THEN fsize ELSE (p + 1) * q
  BY DEF From, Upto, q
<1>8. 0 * q = 0
  BY <1>2
<1>9. /\ q \in 0 .. fsize
      /\ From(p) \in Nat /\ Upto(p) \in Nat /\ From(p) <= Upto(p) /\ Upto(p) <= fsize
      /\ p # nChildProc - 1 => Upto(p) = From(p + 1) /\ Upto(p) = From(p) + q
  <2>1. CASE p = nChildProc - 1
    BY ONLY <1>1, <1>2, <1>5, <1>6, <1>7, <2>1
  <2>2. CASE p # nChildProc - 1
    BY ONLY <1>1, <1>2, <1>5, <1>6, <1>7, <2>2
  <2> QED BY <2>1, <2>2
<1> QED BY <1>1, <1>7, <1>8, <1>9 DEF q

(* What a child is told to read is its part. *)
LEMMA PartOfTheFile ==
  ASSUME OnlyText, file \in Files, NEW p \in Part, NEW offset \in Offsets(p)
  PROVE  word_count(file, offset, PartSize(p, offset)) = Bytes(From(p), Upto(p))
<1>1. fsize = Len(file) /\ fsize <= INT_MAX /\ \A k \in 1 .. fsize : file[k] # Eof
  BY DEF OnlyText, fsize
<1>2. /\ fsize \in Nat /\ fsize \div nChildProc \in 0 .. fsize
      /\ From(p) \in Nat /\ Upto(p) \in Nat /\ From(p) <= Upto(p) /\ Upto(p) <= fsize
      /\ p # nChildProc - 1 => Upto(p) = From(p) + (fsize \div nChildProc)
  BY Parts
<1>3. size = fsize \div nChildProc
  <2>1. fsize \div nChildProc \in 0 .. INT_MAX
    BY ONLY <1>1, <1>2, WordCountAssumption
  <2> QED BY <2>1, SmallInt DEF size
<1>4. offset = From(p)
  <2>1. p * size = From(p)
    BY <1>3 DEF From
  <2>2. From(p) \in 0 .. INT_MAX
    BY ONLY <1>1, <1>2, WordCountAssumption
  <2> QED BY <2>1, <2>2, SmallInt DEF Offsets
<1>5. PartSize(p, offset) = Upto(p) - From(p)
  <2>1. CASE p = nChildProc - 1
    <3>1. Upto(p) = fsize /\ fsize - From(p) \in 0 .. INT_MAX
      BY <1>1, <1>2, <2>1, WordCountAssumption DEF Upto
    <3>2. ToInt(fsize - From(p)) = fsize - From(p)
      BY <3>1, SmallInt
    <3> QED BY <1>4, <2>1, <3>1, <3>2 DEF PartSize
  <2>2. CASE p # nChildProc - 1
    <3>1. PartSize(p, offset) = fsize \div nChildProc
      BY <1>3, <2>2 DEF PartSize
    <3> QED BY ONLY <1>2, <2>2, <3>1
  <2> QED BY <2>1, <2>2
<1>6. BytesRead(file, From(p), Upto(p) - From(p)) = From(p) + 1 .. Upto(p)
  <2>1. BytesRead(file, From(p), Upto(p) - From(p)) =
          {k \in From(p) + 1 .. Upto(p) : k <= fsize /\ \A j \in From(p) + 1 .. k : file[j] # Eof}
    BY <1>1, <1>2 DEF BytesRead
  <2>2. ASSUME NEW k \in From(p) + 1 .. Upto(p)
        PROVE  k <= fsize /\ \A j \in From(p) + 1 .. k : file[j] # Eof
    BY ONLY <1>1, <1>2, <2>2
  <2> QED BY <2>1, <2>2
<1> QED BY <1>4, <1>5, <1>6 DEF word_count, Bytes

LEMMA CountsAdd ==
  ASSUME NEW f, NEW K, NEW L, IsFiniteSet(K), IsFiniteSet(L), K \cap L = {}
  PROVE  Add(CountOf(f, K), CountOf(f, L)) = CountOf(f, K \cup L)
<1>1. ASSUME NEW S \in SUBSET K, NEW T \in SUBSET L
      PROVE  Cardinality(S \cup T) = Cardinality(S) + Cardinality(T)
  <2>1. IsFiniteSet(S) /\ IsFiniteSet(T) /\ S \cap T = {}
    BY <1>1, FS_Subset
  <2>2. Cardinality(S \cup T) = Cardinality(S) + Cardinality(T) - Cardinality(S \cap T)
    BY <2>1, FS_Union
  <2>3. Cardinality(S \cap T) = 0 /\ Cardinality(S) \in Nat /\ Cardinality(T) \in Nat
    BY <2>1, FS_EmptySet, FS_CardinalityType
  <2> QED BY <2>2, <2>3
<1> DEFINE lines(S) == {k \in S : f[k] = Line}
           words(S) == {k \in S : f[k] \in {Space, Line}}
           chars(S) == {k \in S : f[k] \notin {Space, Line}}
<1>2. /\ lines(K \cup L) = lines(K) \cup lines(L) /\ words(K \cup L) = words(K) \cup words(L)
      /\ chars(K \cup L) = chars(K) \cup chars(L)
      /\ lines(K) \in SUBSET K /\ words(K) \in SUBSET K /\ chars(K) \in SUBSET K
      /\ lines(L) \in SUBSET L /\ words(L) \in SUBSET L /\ chars(L) \in SUBSET L
  OBVIOUS
<1>3. \A S : CountOf(f, S) = [linecount |-> Cardinality(lines(S)), wordcount |-> Cardinality(words(S)),
                              charcount |-> Cardinality(chars(S))]
  BY DEF CountOf
<1> HIDE DEF lines, words, chars
<1>4. /\ Cardinality(lines(K \cup L)) = Cardinality(lines(K)) + Cardinality(lines(L))
      /\ Cardinality(words(K \cup L)) = Cardinality(words(K)) + Cardinality(words(L))
      /\ Cardinality(chars(K \cup L)) = Cardinality(chars(K)) + Cardinality(chars(L))
  BY <1>1, <1>2
<1>5. CountOf(f, K) \in count_t /\ CountOf(f, L) \in count_t
  BY CountType
<1>6. Add(CountOf(f, K), CountOf(f, L)) =
        [linecount |-> CountOf(f, K).linecount + CountOf(f, L).linecount,
         wordcount |-> CountOf(f, K).wordcount + CountOf(f, L).wordcount,
         charcount |-> CountOf(f, K).charcount + CountOf(f, L).charcount]
  BY <1>5, AddType
<1> QED BY <1>3, <1>4, <1>6

LEMMA BytesAdd ==
  ASSUME NEW a \in Nat, NEW b \in Nat, a <= b
  PROVE  Add(Bytes(0, a), Bytes(a, b)) = Bytes(0, b)
<1> DEFINE K == 0 + 1 .. a
           L == a + 1 .. b
<1>1. IsFiniteSet(K) /\ IsFiniteSet(L)
  BY FS_Interval
<1>2. K \cap L = {} /\ K \cup L = 0 + 1 .. b
  OBVIOUS
<1> HIDE DEF K, L
<1>3. Add(CountOf(file, K), CountOf(file, L)) = CountOf(file, K \cup L)
  BY <1>1, <1>2, CountsAdd
<1> QED BY <1>2, <1>3 DEF Bytes, K, L

LEMMA NoBytes == Bytes(0, 0) = NoCount
<1>1. 0 + 1 .. 0 = {}
  OBVIOUS
<1>2. CountOf(file, {}) = NoCount
  BY FS_EmptySet DEF CountOf, NoCount
<1> QED BY <1>1, <1>2 DEF Bytes

(* A count that is right stays where it is until it is read. *)
LEMMA CountsKept ==
  ASSUME RightCounts, UNCHANGED file,
         \A d \in Child' : State(d)' = "write" \/ Contents(d)' # << >> =>
            /\ d \in Child /\ (State(d) = "write" \/ Contents(d) # << >>)
            /\ children'[d].wc = children[d].wc /\ PartOf(d)' = PartOf(d)
  PROVE  RightCounts'
<1> SUFFICES ASSUME NEW d \in Child', State(d)' = "write" \/ Contents(d)' # << >>
             PROVE  \A p : p = PartOf(d)' => children'[d].wc = Bytes(From(p), Upto(p))
  BY DEF RightCounts, Bytes, From, Upto, fsize
<1> QED BY DEF RightCounts

LEMMA ChildCounts ==
  ASSUME OnlyText, CountInv, IInv', NEW c \in Child, Step(c) \/ Killed(c)
  PROVE  RightCounts'
<1>1. TypeOK /\ PipesApart /\ RightCounts /\ children \in Seq(ChildRecord) /\ children[c] \in ChildRecord
  BY ElementOfSeq DEF CountInv, IInv, TypeOK, Child
<1>2. CASE Count(c)
  <2>1. PartOf(c) \in Part /\ file \in Files
    BY <1>1 DEF PartOf, ChildRecord, TypeOK
  <2>2. PICK offset \in Offsets(PartOf(c)) :
          children' = [children EXCEPT
            ![c].state = "write",
            ![c].wc = word_count(file, offset, PartSize(PartOf(c), offset))]
    BY <1>2 DEF Count, PartOf
  <2>3. children' = [children EXCEPT
            ![c].state = "write", ![c].wc = Bytes(From(PartOf(c)), Upto(PartOf(c)))]
    BY <2>1, <2>2, PartOfTheFile
  <2>4. /\ Child' = Child /\ UNCHANGED <<file, pipe>>
        /\ children'[c].part = children[c].part /\ children'[c].wc = Bytes(From(PartOf(c)), Upto(PartOf(c)))
        /\ \A d \in Child : d # c => children'[d] = children[d]
        /\ \A d \in Child : Contents(d)' = Contents(d)
    BY <1>1, <1>2, <2>3 DEF Count, Child, ChildRecord, Contents, PipeOf
  <2> SUFFICES ASSUME NEW d \in Child, State(d)' = "write" \/ Contents(d)' # << >>
               PROVE  \A p : p = PartOf(d)' => children'[d].wc = Bytes(From(p), Upto(p))
    BY <2>4 DEF RightCounts, Bytes, From, Upto, fsize
  <2>5. CASE d = c
    BY <2>4, <2>5 DEF PartOf
  <2>6. CASE d # c
    BY <1>1, <2>4, <2>6 DEF RightCounts, PartOf, State
  <2> QED BY <2>5, <2>6
<1>3. CASE Write(c)
  <2>1. /\ pipe' = [pipe EXCEPT ![PipeOf(c)] = Written(c)]
        /\ children' = [children EXCEPT ![c] = [children[c] EXCEPT !.state = "exit"]]
        /\ State(c) = "write" /\ UNCHANGED file
    BY <1>3, WriteIInv DEF CountInv, Write, InState, State
  <2>2. /\ Child' = Child
        /\ \A d \in Child : /\ d # c => children'[d] = children[d]
                            /\ PipeOf(d)' = PipeOf(d) /\ PartOf(d)' = PartOf(d) /\ children'[d].wc = children[d].wc
    BY <1>1, <2>1 DEF Child, ChildRecord, PipeOf, PartOf
  <2>3. \A d \in Child : d # c => Contents(d)' = Contents(d)
    BY <1>1, <2>1, <2>2 DEF PipesApart, Contents, TypeOK
  <2> QED BY <1>1, <2>1, <2>2, <2>3, CountsKept DEF State
<1>4. CASE Exit(c) \/ Killed(c)
  <2>1. PICK r \in ChildRecord :
          /\ children' = [children EXCEPT ![c] = r] /\ UNCHANGED <<file, pipe>>
          /\ r.state # "write" /\ r.wc = children[c].wc /\ r.part = PartOf(c) /\ r.pipe = PipeOf(c)
    <3>1. CASE Exit(c)
      <4> DEFINE r == [children[c] EXCEPT !.state = "exited"]
      <4>1. r \in ChildRecord /\ r.state # "write" /\ r.wc = children[c].wc /\ r.part = PartOf(c) /\ r.pipe = PipeOf(c)
        BY <1>1 DEF ChildRecord, PartOf, PipeOf, Zombie
      <4>2. children' = [children EXCEPT ![c] = r] /\ UNCHANGED <<file, pipe>>
        BY <3>1 DEF Exit, Become
      <4> QED BY <4>1, <4>2
    <3>2. CASE Killed(c)
      <4> DEFINE r == [children[c] EXCEPT !.state = "signaled", !.killed = TRUE]
      <4>1. r \in ChildRecord /\ r.state # "write" /\ r.wc = children[c].wc /\ r.part = PartOf(c) /\ r.pipe = PipeOf(c)
        BY <1>1 DEF ChildRecord, PartOf, PipeOf, Zombie
      <4>2. children' = [children EXCEPT ![c] = r] /\ UNCHANGED <<file, pipe>>
        BY <3>2 DEF Killed
      <4> QED BY <4>1, <4>2
    <3> QED BY <1>4, <3>1, <3>2
  <2>2. /\ Child' = Child /\ children'[c] = r
        /\ \A d \in Child : d # c => children'[d] = children[d]
    BY <1>1, <2>1 DEF Child
  <2>3. \A d \in Child : /\ Contents(d)' = Contents(d) /\ PartOf(d)' = PartOf(d)
                         /\ children'[d].wc = children[d].wc
    BY <2>1, <2>2 DEF PartOf, PipeOf, Contents
  <2>4. \A d \in Child : State(d)' = "write" => State(d) = "write"
    BY <2>1, <2>2 DEF State
  <2> QED BY <1>1, <2>1, <2>2, <2>3, <2>4, CountsKept
<1> QED BY <1>2, <1>3, <1>4 DEF Step

LEMMA ParentCounts ==
  ASSUME CountInv, Parent
  PROVE  RightCounts'
<1>1. TypeOK /\ PipesApart /\ RightCounts /\ UNCHANGED file /\ IInv
  BY DEF CountInv, IInv, Parent, Fork, Wait, Retry, WaitRetry, Read
<1>2. CASE Fork \/ Retry
  <2>1. PICK n : n = Len(children) + 1
    OBVIOUS
  <2>2. /\ pipe'[Len(pipe) + 1] = << >> /\ \A k \in 1 .. Len(pipe) : pipe'[k] = pipe[k]
        /\ \A d \in Child : children'[d] = children[d]
        /\ Forked(n) \/ NotForked
    BY <1>1, <1>2, <2>1, ForkEffect DEF Fork, Retry
  <2>3. \A d \in Child : /\ State(d)' = State(d) /\ Contents(d)' = Contents(d) /\ PartOf(d)' = PartOf(d)
                         /\ children'[d].wc = children[d].wc
    BY <1>1, <2>2 DEF State, Contents, PartOf, PipeOf, PipesApart
  <2>4. \A d \in Child' : d \in Child \/ (State(d)' # "write" /\ Contents(d)' = << >>)
    <3> SUFFICES ASSUME NEW d \in Child', d \notin Child
                 PROVE  State(d)' # "write" /\ Contents(d)' = << >>
      OBVIOUS
    <3>1. children'[d] = NewChild(d)
      BY <2>2 DEF Forked, NotForked
    <3> QED BY <2>2, <3>1 DEF NewChild, State, Contents, PipeOf
  <2> QED BY <1>1, <2>3, <2>4, CountsKept
<1>3. CASE Wait \/ WaitRetry
  <2>1. (\E c \in Child : Reaped(c)) \/ NoneToReap
    BY <1>1, <1>3, WaitEffect DEF Wait, WaitRetry
  <2>2. UNCHANGED pipe
    BY <1>3 DEF Wait, WaitRetry
  <2>3. CASE NoneToReap
    BY <1>1, <2>2, <2>3, CountsKept DEF NoneToReap, Child, State, Contents, PipeOf, PartOf
  <2>4. ASSUME NEW c \in Child, Reaped(c)
        PROVE  RightCounts'
    <3>1. children[c] \in ChildRecord
      BY <1>1, ElementOfSeq DEF TypeOK, Child
    <3>2. /\ Child' = Child /\ \A d \in Child : d # c => children'[d] = children[d]
          /\ children'[c] = [children[c] EXCEPT !.state = "reaped"]
      BY <2>4 DEF Reaped, Changed, Child
    <3>3. /\ children'[c].part = children[c].part /\ children'[c].pipe = children[c].pipe
          /\ children'[c].wc = children[c].wc /\ children'[c].state = "reaped"
      BY <3>1, <3>2 DEF ChildRecord
    <3>4. \A d \in Child : /\ State(d)' = "write" => State(d) = "write"
                           /\ Contents(d)' = Contents(d) /\ PartOf(d)' = PartOf(d)
                           /\ children'[d].wc = children[d].wc
      BY <2>2, <3>2, <3>3 DEF State, Contents, PartOf, PipeOf
    <3> QED BY <1>1, <3>2, <3>4, CountsKept
  <2> QED BY <2>1, <2>3, <2>4
<1>4. CASE Read
  <2>1. /\ pipe'[pipes[i]] = << >> /\ \A k \in 1 .. Len(pipe) : k # pipes[i] => pipe'[k] = pipe[k]
        /\ UNCHANGED children
    BY <1>1, <1>4, ReadEffect DEF Read
  <2>2. \A d \in Child : Contents(d)' = << >> \/ Contents(d)' = Contents(d)
    BY <1>1, <2>1 DEF Contents, PipeOf, PipesApart
  <2> QED BY <1>1, <2>1, <2>2, CountsKept DEF Child, State, PartOf
<1> QED BY <1>2, <1>3, <1>4 DEF Parent

LEMMA TotalSoFar ==
  ASSUME CountInv, [Next]_vars
  PROVE  RightTotal'
<1>1. TypeOK /\ RightCounts /\ RightTotal /\ IInv /\ i \in Part /\ file \in Files
  BY DEF CountInv, IInv, TypeOK
<1>2. file' = file
  BY DEF Next, Parent, Fork, Wait, Retry, WaitRetry, Read, Step, Count, Write, Exit, Killed, vars
<1>3. fsize' = fsize /\ \A m, n : Bytes(m, n)' = Bytes(m, n) /\ From(m)' = From(m)
  BY <1>2 DEF fsize, Bytes, From
<1>4. CASE ~Parent
  <2>1. UNCHANGED <<pc, i, count>>
    BY <1>4 DEF Next, Step, Count, Write, Exit, Killed, parent, vars
  <2> QED BY <1>1, <1>3, <2>1 DEF RightTotal
<1>5. CASE Fork \/ Retry
  BY <1>1, <1>5, NextPartStep DEF Fork, Retry, RightTotal
<1>6. CASE Wait \/ WaitRetry
  <2>1. /\ pc \in {"wait", "waitRetry"} /\ count' = count
        /\ (pc' = "read" /\ i' = 0) \/ pc' \in {"wait", "retry"}
    BY <1>1, <1>6, NextPartStep DEF Wait, WaitRetry, EndOfRetry
  <2>2. count = NoCount
    BY <1>1, <2>1 DEF RightTotal
  <2>3. Bytes(0, From(0)) = NoCount
    BY <1>1, Parts, NoBytes
  <2> QED BY <1>3, <2>1, <2>2, <2>3 DEF RightTotal
<1>7. CASE Read
  <2>1. /\ pc = "read"
        /\ \/ pc' = "read" /\ i' = i + 1
           \/ pc' = "done" /\ i' = 0 /\ i = nChildProc - 1
    BY <1>1, <1>7, NextPartStep DEF Read
  <2>2. PICK c \in Child : /\ PartOf(c) = i /\ Contents(c) = Written(c)
                          /\ count' = Add(count, children[c].wc)
    BY <1>1, <1>7, ReadEffect
  <2>3. children[c].wc = Bytes(From(i), Upto(i))
    BY <1>1, <2>2 DEF RightCounts, Written
  <2>4. count = Bytes(0, From(i))
    BY <1>1, <2>1 DEF RightTotal
  <2>5. From(i) \in Nat /\ Upto(i) \in Nat /\ From(i) <= Upto(i)
    BY <1>1, Parts
  <2>6. count' = Bytes(0, Upto(i))
    BY <2>2, <2>3, <2>4, <2>5, BytesAdd
  <2>7. CASE pc' = "done"
    <3>1. Upto(i) = fsize
      BY <2>1, <2>7 DEF Upto
    <3> QED BY <1>3, <2>6, <2>7, <3>1 DEF RightTotal
  <2>8. CASE pc' = "read"
    <3>1. i + 1 \in Part /\ Upto(i) = From(i + 1) /\ i' = i + 1
      <4>1. i # nChildProc - 1 /\ i' = i + 1
        BY <1>1, <1>7, <2>8, NextPartStep DEF Read, NextPart, Part
      <4> QED BY <1>1, <4>1, Parts, WordCountAssumption DEF Part
    <3>2. \A k : k = i' => count' = Bytes(0, From(k))
      BY <2>6, <3>1
    <3> QED BY <1>3, <2>8, <3>2 DEF RightTotal, From, Bytes
  <2> QED BY <2>1, <2>7, <2>8
<1> QED BY <1>4, <1>5, <1>6, <1>7 DEF Parent

(* Each count that is written and the total of those read so far are right *)
(* (wc_multi.c:70-79, 125-131).                                            *)
THEOREM CountsInvariance == ASSUME OnlyText PROVE Spec => []CountInv
<1>1. Init => CountInv
  <2> SUFFICES ASSUME Init
               PROVE  CountInv
    OBVIOUS
  <2>1. RightCounts
    BY DEF Init, RightCounts, Child
  <2>2. RightTotal
    BY DEF Init, RightTotal
  <2> QED BY <2>1, <2>2, InitIInv DEF CountInv
<1>2. CountInv /\ [Next]_vars => CountInv'
  <2> SUFFICES ASSUME CountInv, [Next]_vars
               PROVE  CountInv'
    OBVIOUS
  <2>1. IInv'
    BY NextIInv DEF CountInv
  <2>2. RightCounts'
    <3>1. CASE Parent
      BY <3>1, ParentCounts
    <3>2. ASSUME NEW c \in Child, Step(c) \/ Killed(c)
          PROVE  RightCounts'
      BY <2>1, <3>2, ChildCounts
    <3>3. CASE UNCHANGED vars
      BY <3>3, CountsKept DEF CountInv, vars, parent, Child, State, Contents, PipeOf, PartOf
    <3> QED BY <3>1, <3>2, <3>3 DEF Next
  <2>3. RightTotal'
    BY TotalSoFar
  <2> QED BY <2>1, <2>2, <2>3 DEF CountInv
<1> QED BY <1>1, <1>2, PTL DEF Spec

(* Of a text file that an int can measure, the total printed is that of    *)
(* the whole file, for any number of parts, whatever is killed, in any     *)
(* order, and also after calls of fork() that failed, if the program gets  *)
(* to the end at all (wc_multi.c:125-131).                                 *)
THEOREM CountsWholeFile == ASSUME OnlyText PROVE Spec => []TotalIsWholeFile
<1>1. CountInv => TotalIsWholeFile
  BY DEF CountInv, RightTotal, TotalIsWholeFile, Bytes
<1> QED BY <1>1, CountsInvariance, PTL
LEMMA WholeFile ==
  ASSUME OnlyText, file \in Files
  PROVE  word_count(file, 0, Len(file)) = Bytes(0, fsize)
<1>1. fsize = Len(file) /\ fsize \in Nat /\ \A k \in 1 .. fsize : file[k] # Eof
  BY WordCountAssumption DEF OnlyText, fsize
<1>2. BytesRead(file, 0, fsize) = {k \in 0 + 1 .. fsize : k <= fsize /\ \A j \in 0 + 1 .. k : file[j] # Eof}
  BY <1>1 DEF BytesRead
<1>3. BytesRead(file, 0, fsize) = 0 + 1 .. fsize
  <2>1. ASSUME NEW k \in 0 + 1 .. fsize
        PROVE  k <= fsize /\ \A j \in 0 + 1 .. k : file[j] # Eof
    BY ONLY <1>1, <2>1
  <2> QED BY ONLY <1>2, <2>1
<1> QED BY <1>1, <1>3 DEF word_count, Bytes

(* Of such a file wc_multi prints what wc prints, and nothing before that: *)
(* each step of the parent and its children is a stutter of wc.c, but for  *)
(* the last read(), which is its one step (wc_multi.c:60-131, wc.c:57-82). *)
THEOREM ImplementsWc == ASSUME OnlyText PROVE Spec => PrintsLikeWc
<1>1. Init => Single!Init
  BY DEF Init, Single!Init, Single!NoCount, NoCount
<1>2. CountInv /\ CountInv' /\ [Next]_vars => [Single!Next]_Single!vars
  <2> SUFFICES ASSUME CountInv, CountInv', [Next]_vars
               PROVE  [Single!Next]_Single!vars
    OBVIOUS
  <2>1. file \in Files /\ RightTotal'
    BY DEF CountInv, IInv, TypeOK
  <2>2. file' = file
    BY DEF Next, Parent, Fork, Wait, Retry, WaitRetry, Read, Step, Count, Write, Exit, Killed, vars
  <2>3. CASE pc # "done" /\ pc' = "done"
    <3>1. count' = Bytes(0, fsize)
      BY <2>1, <2>2, <2>3 DEF RightTotal, Bytes, fsize
    <3>2. count' = word_count(file, 0, Len(file))
      BY <2>1, <3>1, WholeFile
    <3>3. Single!word_count(file, 0, Len(file)) = word_count(file, 0, Len(file))
      BY DEF Single!word_count, word_count, Single!CountOf, CountOf, Single!BytesRead, BytesRead,
             Single!Line, Line, Single!Space, Space, Single!Eof, Eof,
             Single!Cardinality, Cardinality
    <3> QED BY <2>2, <2>3, <3>2, <3>3 DEF Single!Next, Single!Count
  <2>4. CASE pc # "done" /\ pc' # "done"
    BY <2>2, <2>4 DEF Single!vars
  <2>5. CASE pc = "done"
    <3>1. UNCHANGED <<pc, count>>
      BY <2>5 DEF Next, Parent, Fork, Wait, Retry, WaitRetry, Read, Step, Count, Write, Exit, Killed, parent, vars
    <3> QED BY <2>2, <2>5, <3>1 DEF Single!vars
  <2> QED BY <2>3, <2>4, <2>5
<1> QED BY <1>1, <1>2, CountsInvariance, PTL DEF Spec, PrintsLikeWc, Single!Spec
=============================================================================
