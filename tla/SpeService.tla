----------------------------- MODULE SpeService -----------------------------
(***************************************************************************)
(* What the PPU relies on when it hands a task to an SPE: the SPE takes    *)
(* the kicked slots in order, works on several at a time, and acknowledges *)
(* each of them once, in any order.  SpuTaskManager is the program that    *)
(* keeps this promise; how it does, with a pipeline and asynchronous DMA,  *)
(* is left out here.                                                       *)
(***************************************************************************)
EXTENDS FifoMemory

VARIABLES
  in_back,  (* the slot that was taken last                                *)
  working   (* the slots taken and not acknowledged                        *)

svcVars == <<in_back, working>>

SvcTypeOK ==
  /\ in_back \in [Spes -> Slots]
  /\ working \in [Spes -> SUBSET Slots]

SvcInit ==
  /\ in_back = [s \in Spes |-> MaxEntries - 1]
  /\ working = [s \in Spes |-> {}]

(* A stage1 that only fetches the slot the lock line shows.                *)
TakeLast(s) ==
  /\ atomic_state[s] = 1 /\ in_back[s] # atomic_count[s]
  /\ in_back' = [in_back EXCEPT ![s] = atomic_count[s]]
  /\ working' = [working EXCEPT ![s] = @ \cup {atomic_count[s]}]
  /\ UNCHANGED memVars

(* stage1: the lock line tells of a task beyond in_back.                   *)
Take(s) ==
  LET next == ringInc(in_back[s], MaxEntries) IN
  /\ atomic_state[s] = 1 /\ in_back[s] # atomic_count[s]
  /\ in_back' = [in_back EXCEPT ![s] = next]
  /\ working' = [working EXCEPT ![s] = @ \cup {next}]
  /\ UNCHANGED memVars

(* stage4 and the DMA that it starts.                                      *)
Acknowledge(s, k) ==
  /\ k \in working[s]
  /\ \E w \in AckWords : ack_fifo' = [ack_fifo EXCEPT ![s][k] = w]
  /\ working' = [working EXCEPT ![s] = @ \ {k}]
  /\ UNCHANGED <<in_back, task_fifo, atomic_count, atomic_state>>

SvcNext == \E s \in Spes : Take(s) \/ \E k \in Slots : Acknowledge(s, k)
=============================================================================
