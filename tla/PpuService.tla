----------------------------- MODULE PpuService -----------------------------
(***************************************************************************)
(* What an SPE relies on when it works on its fifo: the PPU fills the slot *)
(* after the last kicked one only while another slot is free, shows it by  *)
(* moving the lock line one slot on, and collects acknowledgements in the  *)
(* order of the slots.  HostFifo is the library that keeps this promise;   *)
(* the application, the two threads and their indices are left out here.   *)
(***************************************************************************)
EXTENDS FifoMemory

VARIABLES
  collected,  (* the slot whose acknowledgement is collected next          *)
  filled      (* TRUE while the slot after the last kicked one is filled   *)

ppuVars == <<collected, filled>>

PpuTypeOK ==
  /\ collected \in [Spes -> Slots]
  /\ filled \in [Spes -> BOOLEAN]

PpuInit ==
  /\ collected = [s \in Spes |-> 0]
  /\ filled = [s \in Spes |-> FALSE]

(* The slot after the last one that the lock line shows as kicked.         *)
NextSlot(s) ==
  IF atomic_state[s] = 0 THEN 0 ELSE ringInc(atomic_count[s], MaxEntries)

(* A slot that has been kicked and not collected.                          *)
Outstanding(s, k) ==
  Dist(k, collected[s], MaxEntries) <
    Dist(NextSlot(s), collected[s], MaxEntries)

(* fifoBegin or fifoRegisterProgram writes the command word.               *)
Fill(s, command) ==
  /\ ~filled[s] /\ ringHasFree(NextSlot(s), collected[s], MaxEntries)
  /\ task_fifo' = [task_fifo EXCEPT ![s][NextSlot(s)] = command]
  /\ filled' = [filled EXCEPT ![s] = TRUE]
  /\ UNCHANGED <<collected, ack_fifo, atomic_count, atomic_state>>

(***************************************************************************)
(* send_front: the lock line shows the slot.  The first time this is the   *)
(* store to state, since count is 0 already; later it is the one to count. *)
(***************************************************************************)
Show(s) ==
  /\ filled[s]
  /\ atomic_state' = [atomic_state EXCEPT ![s] = 1]
  /\ atomic_count' = [atomic_count EXCEPT ![s] = NextSlot(s)]
  /\ filled' = [filled EXCEPT ![s] = FALSE]
  /\ UNCHANGED <<collected, task_fifo, ack_fifo>>

(* fifothread sees an acknowledgement, clears it and goes on.              *)
Collect(s) ==
  /\ ack_fifo[s][collected[s]] # ACK_CLEAR
  /\ ack_fifo' = [ack_fifo EXCEPT ![s][collected[s]] = ACK_CLEAR]
  /\ collected' = [collected EXCEPT ![s] = ringInc(@, MaxEntries)]
  /\ UNCHANGED <<filled, task_fifo, atomic_count, atomic_state>>

PpuNext ==
  \E s \in Spes :
    \/ \E command \in Commands : Fill(s, command)
    \/ Show(s)
    \/ Collect(s)
=============================================================================
