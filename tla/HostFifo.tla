------------------------------ MODULE HostFifo ------------------------------
(***************************************************************************)
(* The PPU side, src/spefifo.c: the application thread inside the fifo*    *)
(* calls and the monitor thread fifothread.  The two share the ring        *)
(* contexts without a lock: only the application moves front and only the  *)
(* monitor moves back.                                                     *)
(***************************************************************************)
EXTENDS FifoMemory

CONSTANTS
  Client,        (* how the application uses the interface, see MayBegin   *)
  IncBackStores  (* into how many stores the compiler turns the two        *)
                 (* assignments to back in ringIncBack                     *)

ASSUME ClientAssumption ==
  Client \in {"disciplined", "draining", "batching", "registering"}
ASSUME IncBackStoresAssumption == IncBackStores \in {1, 2}

VARIABLES
  front, back,  (* ringCTX[spe]; back = MaxEntries for an instant          *)
  isKicked,     (* 0 while the slot at front is begun and not kicked       *)
  entry_count,  (* words written into the slot that is being filled        *)
  current_spe,  (* where the round robin of selectfifo stands              *)
  app_pc,       (* where the application thread is                         *)
  app_spe,      (* the spe of a kick, or the loop index i of a call        *)
  app_res,      (* res of fifoWait: 0 as long as every ring was empty      *)
  registering,  (* 1 inside fifoRegisterProgram                            *)
  mon_pc,       (* where fifothread is                                     *)
  mon_spe,      (* its loop index i                                        *)
  owed          (* history: entries begun that fifothread has not passed   *)

appVars == <<front, isKicked, entry_count, current_spe, app_pc, app_spe,
             app_res, registering>>
monVars == <<mon_pc, mon_spe>>
hostVars == <<appVars, monVars, back, owed>>

AppPcs == {"idle", "select", "fill", "lock", "stwcx", "inc", "register",
           "wait", "isempty"}
MonPcs == {"read", "clear", "inc", "wrap"}

HostTypeOK ==
  /\ front \in [Spes -> Slots]
  /\ back \in [Spes -> 0 .. MaxEntries]
  /\ isKicked \in [Spes -> {0, 1}]
  /\ entry_count \in [Spes -> 0 .. TaskWords]
  /\ current_spe \in Spes
  /\ app_pc \in AppPcs
  /\ app_spe \in 0 .. NumSpes
  /\ app_pc \in {"lock", "stwcx", "inc", "register"} => app_spe \in Spes
  /\ app_res \in {0, 1}
  /\ registering \in {0, 1}
  /\ mon_pc \in MonPcs
  /\ mon_spe \in Spes
  /\ owed \in [Spes -> Int]

-----------------------------------------------------------------------------
(***************************************************************************)
(* fifoInit, after every SPE and fifothread have been started.             *)
(***************************************************************************)
fifoInit ==
  /\ front = [s \in Spes |-> 0]
  /\ back = [s \in Spes |-> 0]
  /\ isKicked = [s \in Spes |-> 1]
  /\ entry_count = [s \in Spes |-> 0]
  /\ current_spe = 0
  /\ app_pc = "idle" /\ app_spe = 0 /\ app_res = 0 /\ registering = 0
  /\ mon_pc = "read" /\ mon_spe = 0
  /\ owed = [s \in Spes |-> 0]

HasFree(s) == ringHasFree(front[s], back[s], MaxEntries)
HasRemaining(s) == ringHasRemaining(front[s], back[s])

AllKicked == \A s \in Spes : isKicked[s] = 1

(***************************************************************************)
(* The application.  A disciplined one kicks an entry before it begins the *)
(* next, as fifoNoop and fifo_addition do, and registers programs while    *)
(* every ring has room.  A draining one does so only while every ring is   *)
(* empty (as it has learnt from fifoWait or fifoIsEmpty, and as stays so,  *)
(* since nobody else begins entries).  A batching one begins further       *)
(* entries first, which fifoBegin provides for ("if not kicked             *)
(* increment").  A registering one calls fifoRegisterProgram at any time.  *)
(***************************************************************************)
Drained == \A s \in Spes : ~HasRemaining(s)

MayBegin ==
  /\ Client = "batching" \/ AllKicked
  /\ Client = "draining" => Drained

MayRegister ==
  /\ AllKicked
  /\ Client = "registering" \/ \A s \in Spes : HasFree(s)
  /\ Client = "draining" => Drained

-----------------------------------------------------------------------------
(* selectfifo and fifoBegin.                                               *)

(* A round that takes one step too many, and the round as it is.           *)
nextSpeLate(s) == IF s + 1 > NumSpes THEN 0 ELSE s + 1

nextSpe(s) == IF s + 1 >= NumSpes THEN 0 ELSE s + 1

CallBegin ==
  /\ app_pc = "idle" /\ MayBegin
  /\ current_spe' = nextSpe(current_spe)
  /\ app_pc' = "select"
  /\ UNCHANGED <<front, isKicked, entry_count, app_spe, app_res, registering,
                 monVars, back, owed, memVars>>

selectfifo ==
  /\ app_pc = "select"
  /\ \/ HasFree(current_spe) /\ app_pc' = "fill" /\ UNCHANGED current_spe
     \/ /\ ~HasFree(current_spe)
        /\ current_spe' = nextSpe(current_spe)
        /\ UNCHANGED app_pc
  /\ UNCHANGED <<front, isKicked, entry_count, app_spe, app_res, registering,
                 monVars, back, owed, memVars>>

(***************************************************************************)
(* The slot that fifoBegin fills: front, or the next one when front holds  *)
(* an entry that was begun and not kicked.                                 *)
(***************************************************************************)
BeginSlot(s) ==
  IF isKicked[s] = 0 THEN ringInc(front[s], MaxEntries) ELSE front[s]

fifoBegin(command) ==
  /\ app_pc = "fill"
  /\ LET s == current_spe
         k == BeginSlot(s)
     IN  /\ front' = [front EXCEPT ![s] = k]
         /\ isKicked' = [isKicked EXCEPT ![s] = 0]
         /\ entry_count' = [entry_count EXCEPT ![s] = 2]
         /\ task_fifo' = [task_fifo EXCEPT ![s][k] = command]
         /\ owed' = [owed EXCEPT ![s] = @ + 1]
  /\ app_pc' = "idle"
  /\ UNCHANGED <<current_spe, app_spe, app_res, registering, monVars, back,
                 ack_fifo, atomic_count, atomic_state>>

(***************************************************************************)
(* fifoAdd writes one more word of the slot that is being filled, up to    *)
(* the last word but one, and ignores what does not fit.                   *)
(***************************************************************************)
fifoAdd(s) ==
  /\ app_pc = "idle" /\ isKicked[s] = 0
  /\ entry_count[s] + 1 # TaskWords
  /\ entry_count' = [entry_count EXCEPT ![s] = @ + 1]
  /\ UNCHANGED <<front, isKicked, current_spe, app_pc, app_spe, app_res,
                 registering, monVars, back, owed, memVars>>

-----------------------------------------------------------------------------
(* fifoKick and send_front.                                                *)

fifoKick(s) ==
  /\ app_pc = "idle" /\ isKicked[s] = 0
  /\ app_pc' = "lock" /\ app_spe' = s
  /\ UNCHANGED <<front, isKicked, entry_count, current_spe, app_res,
                 registering, monVars, back, owed, memVars>>

(***************************************************************************)
(* __lwarx, then a plain store to state in the same line: the SPE can see  *)
(* state = 1 with the count of before.                                     *)
(***************************************************************************)
SendFrontState ==
  /\ app_pc = "lock"
  /\ atomic_state' = [atomic_state EXCEPT ![app_spe] = 1]
  /\ app_pc' = "stwcx"
  /\ UNCHANGED <<front, isKicked, entry_count, current_spe, app_spe, app_res,
                 registering, monVars, back, owed, task_fifo, ack_fifo,
                 atomic_count>>

(* __stwcx with the index after the slot that was filled.                  *)
SendFrontNext ==
  /\ app_pc = "stwcx"
  /\ atomic_count' = [atomic_count EXCEPT
                        ![app_spe] = ringInc(front[app_spe], MaxEntries)]
  /\ app_pc' = "inc"
  /\ UNCHANGED <<front, isKicked, entry_count, current_spe, app_spe, app_res,
                 registering, monVars, back, owed, task_fifo, ack_fifo,
                 atomic_state>>

(* __stwcx stores when the reservation of the line still holds.            *)
SendFrontCount ==
  /\ app_pc = "stwcx"
  /\ atomic_count' = [atomic_count EXCEPT ![app_spe] = front[app_spe]]
  /\ app_pc' = "inc"
  /\ UNCHANGED <<front, isKicked, entry_count, current_spe, app_spe, app_res,
                 registering, monVars, back, owed, task_fifo, ack_fifo,
                 atomic_state>>

(* __stwcx reports a lost reservation and the loop starts again.           *)
SendFrontRetry ==
  /\ app_pc = "stwcx"
  /\ app_pc' = "lock"
  /\ UNCHANGED <<front, isKicked, entry_count, current_spe, app_spe, app_res,
                 registering, monVars, back, owed, memVars>>

(***************************************************************************)
(* The rest of fifoKick: only now does the ring know of the entry that the *)
(* SPE may have finished already.  fifoRegisterProgram goes on with the    *)
(* next SPE.                                                               *)
(***************************************************************************)
KickDone ==
  /\ app_pc = "inc"
  /\ isKicked' = [isKicked EXCEPT ![app_spe] = 1]
  /\ front' = [front EXCEPT ![app_spe] = ringInc(@, MaxEntries)]
  /\ \/ /\ registering = 1 /\ app_spe + 1 < NumSpes
        /\ app_pc' = "register" /\ app_spe' = app_spe + 1
        /\ UNCHANGED registering
     \/ /\ registering = 0 \/ app_spe + 1 >= NumSpes
        /\ app_pc' = "idle" /\ app_spe' = 0 /\ registering' = 0
  /\ UNCHANGED <<entry_count, current_spe, app_res, monVars, back, owed,
                 memVars>>

-----------------------------------------------------------------------------
(* fifoRegisterProgram.                                                    *)

CallRegister ==
  /\ app_pc = "idle" /\ MayRegister
  /\ app_pc' = "register" /\ app_spe' = 0 /\ registering' = 1
  /\ UNCHANGED <<front, isKicked, entry_count, current_spe, app_res, monVars,
                 back, owed, memVars>>

(***************************************************************************)
(* One turn of its loop up to fifoKick: the slot at front is filled        *)
(* without a look at the room in the ring.                                 *)
(***************************************************************************)
fifoRegisterProgram ==
  /\ app_pc = "register"
  /\ LET s == app_spe
         k == front[s]
     IN  /\ isKicked' = [isKicked EXCEPT ![s] = 0]
         /\ entry_count' = [entry_count EXCEPT ![s] = 4]
         /\ task_fifo' = [task_fifo EXCEPT ![s][k] = REGISTER_PROGRAM]
         /\ owed' = [owed EXCEPT ![s] = @ + isKicked[s]]
  /\ app_pc' = "lock"
  /\ UNCHANGED <<front, current_spe, app_spe, app_res, registering, monVars,
                 back, ack_fifo, atomic_count, atomic_state>>

-----------------------------------------------------------------------------
(* fifoWait and fifoIsEmpty scan the rings one after the other.            *)

CallWait ==
  /\ app_pc = "idle" /\ AllKicked
  /\ app_pc' \in {"wait", "isempty"}
  /\ app_spe' = 0 /\ app_res' = 0
  /\ UNCHANGED <<front, isKicked, entry_count, current_spe, registering,
                 monVars, back, owed, memVars>>

(* res of fifoWait, set anew by every ring; and added up, as it is.        *)
fifoWaitForgets(s) == IF HasRemaining(s) THEN 1 ELSE 0

fifoWaitRes(s) == IF HasRemaining(s) THEN 1 ELSE app_res

(***************************************************************************)
(* One turn of the inner loop of fifoWait.  After the last ring it returns *)
(* when res is 0 and scans again otherwise.                                *)
(***************************************************************************)
fifoWait ==
  /\ app_pc = "wait"
  /\ \/ /\ app_spe < NumSpes
        /\ app_res' = fifoWaitRes(app_spe)
        /\ app_spe' = app_spe + 1
        /\ UNCHANGED app_pc
     \/ /\ app_spe = NumSpes
        /\ app_pc' = IF app_res = 0 THEN "idle" ELSE "wait"
        /\ app_spe' = 0 /\ app_res' = 0
  /\ UNCHANGED <<front, isKicked, entry_count, current_spe, registering,
                 monVars, back, owed, memVars>>

(* fifoIsEmpty: 0 at the first ring with an entry, 1 after the last ring.  *)
fifoIsEmpty ==
  /\ app_pc = "isempty"
  /\ \/ /\ app_spe < NumSpes /\ ~HasRemaining(app_spe)
        /\ app_spe' = app_spe + 1
        /\ UNCHANGED app_pc
     \/ /\ app_spe < NumSpes => HasRemaining(app_spe)
        /\ app_pc' = "idle" /\ app_spe' = 0
  /\ UNCHANGED <<front, isKicked, entry_count, current_spe, app_res,
                 registering, monVars, back, owed, memVars>>

-----------------------------------------------------------------------------
(* fifothread: for every ring, as long as the word at back is not          *)
(* ACK_CLEAR, clear it and advance back.                                   *)

(* A look at the slot after the one that fifothread waits for.             *)
MonReadAhead ==
  LET ack == ack_fifo[mon_spe][ringInc(back[mon_spe], MaxEntries)] IN
  /\ mon_pc = "read"
  /\ \/ ack # ACK_CLEAR /\ mon_pc' = "clear" /\ UNCHANGED mon_spe
     \/ ack = ACK_CLEAR /\ mon_spe' = nextSpe(mon_spe) /\ UNCHANGED mon_pc
  /\ UNCHANGED <<appVars, back, owed, memVars>>

MonRead ==
  LET ack == ack_fifo[mon_spe][back[mon_spe]] IN
  /\ mon_pc = "read"
  /\ \/ ack # ACK_CLEAR /\ mon_pc' = "clear" /\ UNCHANGED mon_spe
     \/ ack = ACK_CLEAR /\ mon_spe' = nextSpe(mon_spe) /\ UNCHANGED mon_pc
  /\ UNCHANGED <<appVars, back, owed, memVars>>

(* The word is left as it is; the word of the next slot is cleared.        *)
MonClearForgets ==
  /\ mon_pc = "clear" /\ mon_pc' = "inc"
  /\ UNCHANGED <<appVars, mon_spe, back, owed, memVars>>

MonClearNext ==
  /\ mon_pc = "clear"
  /\ ack_fifo' = [ack_fifo EXCEPT
                    ![mon_spe][ringInc(back[mon_spe], MaxEntries)] = ACK_CLEAR]
  /\ mon_pc' = "inc"
  /\ UNCHANGED <<appVars, mon_spe, back, owed, task_fifo, atomic_count,
                 atomic_state>>

MonClear ==
  /\ mon_pc = "clear"
  /\ ack_fifo' = [ack_fifo EXCEPT ![mon_spe][back[mon_spe]] = ACK_CLEAR]
  /\ mon_pc' = "inc"
  /\ UNCHANGED <<appVars, mon_spe, back, owed, task_fifo, atomic_count,
                 atomic_state>>

(***************************************************************************)
(* ringIncBack, back++; if (back >= size) back = 0.  Compiled to one store *)
(* it moves back at once.  Compiled to two, back is size in between, which *)
(* the application can read.                                               *)
(***************************************************************************)
MonInc ==
  /\ mon_pc = "inc"
  /\ \/ /\ IncBackStores = 1
        /\ back' = [back EXCEPT ![mon_spe] = ringInc(@, MaxEntries)]
        /\ mon_pc' = "read"
     \/ /\ IncBackStores = 2
        /\ back' = [back EXCEPT ![mon_spe] = @ + 1]
        /\ mon_pc' = "wrap"
  /\ owed' = [owed EXCEPT ![mon_spe] = @ - 1]
  /\ UNCHANGED <<appVars, mon_spe, memVars>>

MonWrap ==
  /\ mon_pc = "wrap"
  /\ back' = [back EXCEPT ![mon_spe] = IF @ >= MaxEntries THEN 0 ELSE @]
  /\ mon_pc' = "read"
  /\ UNCHANGED <<appVars, mon_spe, owed, memVars>>

-----------------------------------------------------------------------------
(* The steps inside a call, and the calls the application chooses to make. *)
AppInside ==
  \/ selectfifo
  \/ \E command \in Commands : fifoBegin(command)
  \/ SendFrontState
  \/ SendFrontCount
  \/ SendFrontRetry
  \/ KickDone
  \/ fifoRegisterProgram
  \/ fifoWait
  \/ fifoIsEmpty

AppCall ==
  \/ CallBegin
  \/ \E s \in Spes : fifoAdd(s)
  \/ \E s \in Spes : fifoKick(s)
  \/ CallRegister
  \/ CallWait

fifothread == MonRead \/ MonClear \/ MonInc \/ MonWrap

HostNext == AppInside \/ AppCall \/ fifothread
=============================================================================
