----------------------------- MODULE FlatMemory -----------------------------
(***************************************************************************)
(* What the virtual memory simulator of p3 promises to the processes whose *)
(* requests it plays back: every process has MAX_VPN pages of its own,     *)
(* each filled with one byte, and a read prints the byte last written to   *)
(* that page.  There is no frame, no page table and no swap disk here.     *)
(***************************************************************************)
EXTENDS Integers

CONSTANTS
  MAX_PID,   \* number of processes, p3/vm.c:10
  MAX_VPN,   \* number of virtual pages of a process, p3/vm.c:9
  Byte,      \* the bytes a request may write
  InitByte   \* what a page holds before it is written ('A' in the code)

VARIABLES
  mem,       \* mem[pid][VPN]: the contents of a page
  reply      \* the last line the simulator printed

vars == <<mem, reply>>

Pids  == 0 .. MAX_PID - 1
Pages == 0 .. MAX_VPN - 1

(* Lines that carry no byte: a refused request, a fatal error, the totals. *)
Silent == {[type |-> t] : t \in {"none", "skipped", "fatal", "stats"}}

Init ==
  /\ mem = [pid \in Pids |-> [VPN \in Pages |-> InitByte]]
  /\ reply = [type |-> "none"]

Read(pid, VPN) ==
  /\ reply' = [type |-> "R", pid |-> pid, VPN |-> VPN, byte |-> mem[pid][VPN]]
  /\ UNCHANGED mem

Write(pid, VPN, byte) ==
  /\ reply' = [type |-> "W", pid |-> pid, VPN |-> VPN, byte |-> byte]
  /\ mem' = [mem EXCEPT ![pid][VPN] = byte]

Refuse ==
  /\ reply' \in Silent
  /\ UNCHANGED mem

Next ==
  \/ \E pid \in Pids, VPN \in Pages :
        \/ Read(pid, VPN)
        \/ \E byte \in Byte : Write(pid, VPN, byte)
  \/ Refuse

Spec == Init /\ [][Next]_vars
=============================================================================
