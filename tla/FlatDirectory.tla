--------------------------- MODULE FlatDirectory ---------------------------
(***************************************************************************)
(* What the file system simulator of p4 promises a user who stays in the   *)
(* root directory: a name stands for nothing, for a directory, or for a    *)
(* file whose bytes never change while the name is there, whatever is      *)
(* created, copied, linked and removed beside it, and across unmounting;   *)
(* a session that is killed leaves what the one before it had saved.       *)
(* There are no inodes, no blocks and no disk here.  Nothing is promised   *)
(* once the session has gone astray.                                       *)
(***************************************************************************)
CONSTANTS
  Names,      \* what a file or a directory may be called
  Contents    \* the bytes a file may be created with

VARIABLES
  content,     \* content[name]: what the name stands for
  saved,       \* what the names stood for when a session last ended well
  astray,      \* TRUE when nothing is promised of content
  savedAstray  \* TRUE when nothing is promised of saved

vars == <<content, saved, astray, savedAstray>>

Nothing   == [type |-> "nothing"]
Directory == [type |-> "directory"]
File(bytes) == [type |-> "file", bytes |-> bytes]

Init ==
  /\ content = [name \in Names |-> Nothing]
  /\ saved = content
  /\ astray = FALSE
  /\ savedAstray = FALSE

Create(name) ==
  /\ content[name] = Nothing
  /\ \E bytes \in Contents : content' = [content EXCEPT ![name] = File(bytes)]

MakeDirectory(name) ==
  /\ content[name] = Nothing
  /\ content' = [content EXCEPT ![name] = Directory]

(* A copy and a hard link look the same, since files are never written. *)
Duplicate(src, dest) ==
  /\ content[src] # Nothing
  /\ content[dest] = Nothing
  /\ content' = [content EXCEPT ![dest] = content[src]]

Remove(name) ==
  /\ content[name] # Nothing
  /\ content' = [content EXCEPT ![name] = Nothing]

Command ==
  /\ \E name \in Names :
       \/ Create(name) \/ MakeDirectory(name) \/ Remove(name)
       \/ \E src \in Names : Duplicate(src, name)
  /\ UNCHANGED <<saved, astray, savedAstray>>

Save ==
  /\ saved' = content
  /\ UNCHANGED <<content, astray, savedAstray>>

(* The session is lost, and with it what it had done since. *)
Lose ==
  /\ content' = saved
  /\ astray' = savedAstray
  /\ UNCHANGED <<saved, savedAstray>>

(* The session goes astray; it may end and save what it has. *)
GoAstray ==
  /\ astray'
  /\ UNCHANGED <<saved, savedAstray>> \/ savedAstray'

Next ==
  \/ ~astray /\ (Command \/ Save)
  \/ Lose
  \/ GoAstray

Spec == Init /\ [][Next]_vars
=============================================================================
