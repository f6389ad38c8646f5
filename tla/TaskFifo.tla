------------------------------ MODULE TaskFifo ------------------------------
(***************************************************************************)
(* The task fifos as the users of speutils think of them: bounded queues   *)
(* in which an entry is kicked at the end, taken by the SPE in order,      *)
(* acknowledged in any order and collected from the head in order.         *)
(***************************************************************************)
EXTENDS Naturals, Sequences

CONSTANTS
  Fifos,    (* one per SPE                                                 *)
  Capacity  (* the number of entries a fifo holds                          *)

VARIABLE queue  (* [Fifos -> Seq({"kicked", "taken", "acked"})]            *)

TFInit == queue = [f \in Fifos |-> <<>>]

Kick(f) ==
  /\ Len(queue[f]) < Capacity
  /\ queue' = [queue EXCEPT ![f] = Append(@, "kicked")]

TakeFirst(f) ==
  \E i \in DOMAIN queue[f] :
    /\ queue[f][i] = "kicked"
    /\ \A j \in 1 .. (i - 1) : queue[f][j] # "kicked"
    /\ queue' = [queue EXCEPT ![f][i] = "taken"]

Ack(f) ==
  \E i \in DOMAIN queue[f] :
    /\ queue[f][i] = "taken"
    /\ queue' = [queue EXCEPT ![f][i] = "acked"]

Collect(f) ==
  /\ queue[f] # <<>> /\ Head(queue[f]) = "acked"
  /\ queue' = [queue EXCEPT ![f] = Tail(@)]

TFNext == \E f \in Fifos : Kick(f) \/ TakeFirst(f) \/ Ack(f) \/ Collect(f)

TFSpec == TFInit /\ [][TFNext]_queue
=============================================================================
