---------------------------- MODULE MCWordCount ----------------------------
(* Files for the model checker. *)
EXTENDS WordCount

FilesUpTo(n, bytes) == UNION {[1 .. k -> bytes] : k \in 0 .. n}

\* the files of at most two bytes, fewer than parts, and two longer ones:
\* the parts of seven bytes are not all of one size
TextFiles == FilesUpTo(2, {Space, Line, Char}) \cup
  {<<Char, Space, Char, Line>>, <<Char, Line, Space, Char, Char, Line, Char>>}
OneFile == {<<Char, Space, Char, Line>>}
=============================================================================
