----------------------------- MODULE FifoMemory -----------------------------
(***************************************************************************)
(* The main-memory area that the PPU and one SPE per fifo share            *)
(* (struct fifo_s, struct atomic_s and struct ack_s of spefifo.h, set up   *)
(* by allocate_fifo and fifoInit).  Every fifo has a ring of task slots,   *)
(* a ring of acknowledgement words and one lock line with the index of     *)
(* the last kicked slot.                                                   *)
(***************************************************************************)
EXTENDS Ring, FiniteSets

CONSTANTS
  NumSpes,     (* hostfifo.spes                                            *)
  FifoSize,    (* the fifo_size argument of fifoInit, in bytes             *)
  TASK_SIZE,   (* bytes in a task slot                                     *)
  Commands,    (* the command words an application passes to fifoBegin     *)
  InitCommand, (* what the uninitialised task memory holds as a command    *)
  AckWords     (* what the task_id of an ack_s, which the SPU never        *)
               (* writes, holds in its uninitialised local store           *)

(***************************************************************************)
(* fifoInit divides, so a rest of FifoSize is dropped.  One slot of the    *)
(* ring always stays free: a fifo of fewer than two slots accepts nothing. *)
(* A task slot is an array of 4-byte words and must hold the four words    *)
(* that fifoRegisterProgram writes.                                        *)
(***************************************************************************)
MaxEntries == FifoSize \div TASK_SIZE

TaskWords == TASK_SIZE \div 4

ASSUME SpesAssumption == NumSpes \in Nat \ {0}
ASSUME EntriesAssumption == MaxEntries \in Nat /\ MaxEntries >= 2
ASSUME WordsAssumption == TaskWords \in Nat /\ TaskWords >= 4

Spes == 0 .. (NumSpes - 1)
Slots == 0 .. (MaxEntries - 1)

REGISTER_PROGRAM == "REGISTER_PROGRAM"

(***************************************************************************)
(* A command word as the SPU's switches tell it apart: the three words of  *)
(* messages.h it handles by name, anything else is the id of a program.    *)
(***************************************************************************)
CommandWords == {"NOOP", "ADD", REGISTER_PROGRAM, "program"}

ASSUME CommandsAssumption ==
  Commands \subseteq CommandWords /\ InitCommand \in CommandWords

(***************************************************************************)
(* The first word of an acknowledgement: ACK_CLEAR, or any other word,     *)
(* which is what the PPU takes for "done".                                 *)
(***************************************************************************)
ACK_CLEAR == "clear"
ACK_OTHER == "other"

ASSUME AckWordsAssumption == AckWords \subseteq {ACK_CLEAR, ACK_OTHER}

VARIABLES
  task_fifo,    (* [Spes -> [Slots -> CommandWords]]: the command words    *)
  ack_fifo,     (* [Spes -> [Slots -> {ACK_CLEAR, ACK_OTHER}]]             *)
  atomic_count, (* atomic_s.count, the index of the last kicked slot       *)
  atomic_state  (* atomic_s.state, 0 until the first kick                  *)

memVars == <<task_fifo, ack_fifo, atomic_count, atomic_state>>

(***************************************************************************)
(* allocate_fifo: every acknowledgement is cleared, the lock line is zero, *)
(* the task slots are left as memalign returns them.                       *)
(***************************************************************************)
allocate_fifo ==
  /\ task_fifo = [s \in Spes |-> [k \in Slots |-> InitCommand]]
  /\ ack_fifo = [s \in Spes |-> [k \in Slots |-> ACK_CLEAR]]
  /\ atomic_count = [s \in Spes |-> 0]
  /\ atomic_state = [s \in Spes |-> 0]

MemTypeOK ==
  /\ task_fifo \in [Spes -> [Slots -> CommandWords]]
  /\ ack_fifo \in [Spes -> [Slots -> {ACK_CLEAR, ACK_OTHER}]]
  /\ atomic_count \in [Spes -> Slots]
  /\ atomic_state \in [Spes -> {0, 1}]
=============================================================================
