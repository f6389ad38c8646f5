----------------------------- MODULE HostSystem -----------------------------
(***************************************************************************)
(* The PPU side with any number of SPEs that behave as SpeService says.    *)
(***************************************************************************)
EXTENDS HostFifo, SpeService

vars == <<hostVars, svcVars, memVars>>

Init == allocate_fifo /\ fifoInit /\ SvcInit

Next ==
  \/ HostNext /\ UNCHANGED svcVars
  \/ SvcNext /\ UNCHANGED hostVars

Spec == Init /\ [][Next]_vars

(***************************************************************************)
(* The fairness of the threads: a thread that can go on does so, an SPE    *)
(* takes what is kicked and finishes what it took, and a store conditional *)
(* that is repeated does not fail for ever.  Nothing makes the application *)
(* call.                                                                   *)
(***************************************************************************)
Fairness ==
  /\ WF_vars(AppInside /\ UNCHANGED svcVars)
  /\ SF_vars(SendFrontCount /\ UNCHANGED svcVars)
  /\ WF_vars(fifothread /\ UNCHANGED svcVars)
  /\ \A s \in Spes : WF_vars(Take(s) /\ UNCHANGED hostVars)
  /\ \A s \in Spes, k \in Slots : WF_vars(Acknowledge(s, k) /\ UNCHANGED hostVars)

FairSpec == Spec /\ Fairness

-----------------------------------------------------------------------------
(* The variables keep to the types of the declarations in spefifo.c.       *)
TypeOK == MemTypeOK /\ HostTypeOK /\ SvcTypeOK

(* The slot fifothread waits for, also in the middle of ringIncBack.       *)
BackSlot(s) == IF back[s] = MaxEntries THEN 0 ELSE back[s]

(* The slot after the last one that the lock line shows as kicked.         *)
WindowEnd(s) ==
  IF atomic_state[s] = 0 THEN 0 ELSE ringInc(atomic_count[s], MaxEntries)

(* How many entries the SPE has been shown that were not collected.        *)
Kicked(s) == Dist(WindowEnd(s), BackSlot(s), MaxEntries)

Ahead(s, k) == Dist(k, BackSlot(s), MaxEntries)

InWindow(s, k) == Ahead(s, k) < Kicked(s)

Taken(s, k) == Ahead(s, k) < Ahead(s, ringInc(in_back[s], MaxEntries))

Acked(s, k) == ack_fifo[s][k] # ACK_CLEAR

(* fifothread has seen the acknowledgement of k and cleared it.            *)
Collecting(s, k) == mon_pc = "inc" /\ mon_spe = s /\ k = back[s]

(***************************************************************************)
(* Every slot is accounted for.  A slot that carries any trace of work (it *)
(* is being worked on, acknowledged, or being collected) was taken by the  *)
(* SPE and carries exactly one such trace; a slot that was taken has been  *)
(* kicked.  So no acknowledgement is stale, doubled or ahead of its task,  *)
(* whatever the order of the steps of the threads and the SPEs.            *)
(***************************************************************************)
AckAccounting ==
  \A s \in Spes, k \in Slots :
    /\ k \in working[s] => Taken(s, k) /\ ~Acked(s, k) /\ ~Collecting(s, k)
    /\ Acked(s, k) => Taken(s, k) /\ ~Collecting(s, k)
    /\ Collecting(s, k) => Taken(s, k)
    /\ Taken(s, k) => InWindow(s, k)

(***************************************************************************)
(* No acknowledgement gets lost, provided the uninitialised task_id of the *)
(* SPU's ack_s is never the word ACK_CLEAR.                                *)
(***************************************************************************)
NoAckLost ==
  ACK_CLEAR \notin AckWords =>
    \A s \in Spes, k \in Slots :
      Taken(s, k) => k \in working[s] \/ Acked(s, k) \/ Collecting(s, k)

(***************************************************************************)
(* selectfifo promises to "repeat untill there is a free slot": whatever   *)
(* the monitor does meanwhile, the ring it returns has room for an entry.  *)
(***************************************************************************)
SelectFindsFree ==
  app_pc = "fill" => owed[current_spe] < MaxEntries - 1

(* The application is inside fifoKick for s.                               *)
Kicking(s) == app_pc \in {"lock", "stwcx", "inc"} /\ app_spe = s

(***************************************************************************)
(* While the application fills a slot (fifoBegin, fifoAdd) the SPE has not *)
(* been shown it and no trace of an earlier task is left in it.            *)
(***************************************************************************)
OpenSlotIsPrivate ==
  \A s \in Spes :
    isKicked[s] = 0 /\ ~Kicking(s) => ~InWindow(s, front[s])

(***************************************************************************)
(* fifoWait and fifoIsEmpty tell the truth: when the scan is past a ring   *)
(* without having met an entry, every entry begun there was collected.     *)
(***************************************************************************)
WaitSound ==
  app_pc \in {"wait", "isempty"} /\ app_res = 0 =>
    \A s \in Spes : s < app_spe => owed[s] = 0

-----------------------------------------------------------------------------
(***************************************************************************)
(* What makes the types inductive, for every kind of client: back is out   *)
(* of range only inside ringIncBack, and a slot that can still be added to *)
(* has a free word.                                                        *)
(***************************************************************************)
TypeInv ==
  /\ TypeOK
  /\ \A s \in Spes : back[s] = MaxEntries => mon_pc = "wrap" /\ mon_spe = s
  /\ app_pc = "register" => registering = 1
  /\ registering = 1 => app_pc \in {"register", "lock", "stwcx", "inc"}
  /\ \A s \in Spes :
       isKicked[s] = 0 => entry_count[s] < TaskWords
                          \/ (registering = 1 /\ Kicking(s))

(***************************************************************************)
(* The rest of the inductive invariant is about a disciplined application  *)
(* and a ringIncBack that stores once.  What the application has open: at  *)
(* most one slot, and none while it looks for room, registers or waits.    *)
(***************************************************************************)
OpenInv ==
  /\ app_pc \in {"select", "fill", "register", "wait", "isempty"} => AllKicked
  /\ app_pc \in {"lock", "stwcx", "inc"} =>
       \A s \in Spes : (s = app_spe) <=> (isKicked[s] = 0)
  /\ \A r, s \in Spes : isKicked[r] = 0 /\ isKicked[s] = 0 => r = s

(* There is room for whatever is going to be kicked.                       *)
RoomInv ==
  /\ app_pc = "fill" => HasFree(current_spe)
  /\ registering = 1 =>
       \A s \in Spes : s > app_spe \/ (s = app_spe /\ app_pc = "register")
                        => HasFree(s)
  /\ \A s \in Spes : isKicked[s] = 0 /\ WindowEnd(s) = front[s] => HasFree(s)

(***************************************************************************)
(* How front follows the lock line: they agree, except that a kick shows   *)
(* the slot at front before front moves.                                   *)
(***************************************************************************)
FrontInv ==
  \A s \in Spes :
    /\ atomic_state[s] = 0 => atomic_count[s] = 0 /\ front[s] = 0
    /\ ~Kicking(s) => WindowEnd(s) = front[s]
    /\ Kicking(s) => WindowEnd(s) \in {front[s], ringInc(front[s], MaxEntries)}
    /\ Kicking(s) /\ app_pc \in {"stwcx", "inc"} => atomic_state[s] = 1
    /\ Kicking(s) /\ app_pc = "inc" =>
         WindowEnd(s) = ringInc(front[s], MaxEntries)

(* The SPE takes only what it is shown.                                    *)
TakenInv ==
  \A s \in Spes : Ahead(s, ringInc(in_back[s], MaxEntries)) <= Kicked(s)

(* The word fifothread is about to clear is an acknowledgement.            *)
MonitorInv ==
  /\ mon_pc = "clear" => Acked(mon_spe, back[mon_spe])
  /\ mon_pc # "wrap"

(* The history variable owed counts what lies between front and back.      *)
OwedInv ==
  \A s \in Spes :
    owed[s] = Dist(IF isKicked[s] = 1 THEN front[s]
                   ELSE ringInc(front[s], MaxEntries), back[s], MaxEntries)

(***************************************************************************)
(* The inductive invariant behind every safety property of this module:    *)
(* the indices of the application, the lock line, the SPE and fifothread   *)
(* stay in the order front, kicked, taken, back around the ring, at most   *)
(* one slot ahead of the lock line, and the traces of work are where they  *)
(* belong.                                                                 *)
(***************************************************************************)
RingInv ==
  /\ TypeInv /\ OpenInv /\ RoomInv /\ FrontInv /\ TakenInv /\ MonitorInv
  /\ OwedInv /\ AckAccounting

-----------------------------------------------------------------------------
(***************************************************************************)
(* Every entry the SPE is shown is collected in the end, provided          *)
(* fifothread comes back to its ring.  The proviso is needed: the inner    *)
(* loop of fifothread does not leave a ring as long as it finds another    *)
(* acknowledgement there, so an application that keeps one SPE busy can    *)
(* starve the entries of the others.                                       *)
(***************************************************************************)
EntryCollected ==
  \A s \in Spes, k \in Slots :
    []<>(mon_spe = s) => (InWindow(s, k) ~> ~InWindow(s, k))

(* The spinning loop of selectfifo ends: some ring always gets room again. *)
SelectReturns == (app_pc = "select") ~> (app_pc = "fill")

(* The spinning loop of fifoWait ends: with nobody to begin new entries    *)
(* all rings are drained, whatever ring fifothread was busy with.          *)
WaitReturns == (app_pc = "wait") ~> (app_pc = "idle")

-----------------------------------------------------------------------------
(***************************************************************************)
(* The rings, the lock line and the acknowledgement words implement the    *)
(* queues of TaskFifo.                                                     *)
(***************************************************************************)
StatusOf(s, k) ==
  IF ~Taken(s, k) THEN "kicked"
  ELSE IF Acked(s, k) \/ Collecting(s, k) THEN "acked" ELSE "taken"

QueueOf(s) ==
  [i \in 1 .. Kicked(s) |-> StatusOf(s, (BackSlot(s) + i - 1) % MaxEntries)]

TF == INSTANCE TaskFifo WITH
        Fifos <- Spes, Capacity <- MaxEntries - 1,
        queue <- [s \in Spes |-> QueueOf(s)]

ImplementsTaskFifo == TF!TFSpec
=============================================================================
