--------------------------- MODULE WordCountCore ---------------------------
(***************************************************************************)
(* What the two word counters of p1 share: wc.h and wc_core.c, the count   *)
(* of a stretch of a file.  A file is a sequence of bytes, of which only   *)
(* four kinds are told apart.                                              *)
(***************************************************************************)
EXTENDS Integers, Sequences, FiniteSets

Space == "space"
Line  == "newline"
Char  == "char"
Eof   == "0xFF"   \* the byte that equals EOF once it is stored in a char
Byte  == {Space, Line, Char, Eof}

count_t == [linecount : Nat, wordcount : Nat, charcount : Nat]
NoCount == [linecount |-> 0, wordcount |-> 0, charcount |-> 0]

(* Mutant: one byte too many (rbytes <= size). *)
BytesReadAndOne(file, offset, bytes) ==
  LET from == IF offset < 0 THEN 0 ELSE offset
  IN  {k \in from + 1 .. from + bytes + 1 :
         k <= Len(file) /\ \A j \in from + 1 .. k : file[j] # Eof}

(* The bytes from offset on, at most bytes of them, up to the first one    *)
(* that looks like EOF.  A negative offset makes fseek() fail, and the     *)
(* file is read from its start.                                            *)
BytesRead(file, offset, bytes) ==
  LET from == IF offset < 0 THEN 0 ELSE offset
  IN  {k \in from + 1 .. from + bytes :
         k <= Len(file) /\ \A j \in from + 1 .. k : file[j] # Eof}

CountOf(file, K) ==
  [linecount |-> Cardinality({k \in K : file[k] = Line}),
   wordcount |-> Cardinality({k \in K : file[k] \in {Space, Line}}),
   charcount |-> Cardinality({k \in K : file[k] \notin {Space, Line}})]

word_count(file, offset, bytes) == CountOf(file, BytesRead(file, offset, bytes))
=============================================================================
