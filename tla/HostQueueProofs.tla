-------------------------- MODULE HostQueueProofs ---------------------------
(***************************************************************************)
(* What the users of the fifos rely on, from the invariant of              *)
(* HostSystemProofs: fifoWait and fifoIsEmpty tell the truth, no           *)
(* acknowledgement gets lost, and the rings behave as the queues of        *)
(* TaskFifo, for every number of SPEs and every size of the fifos.         *)
(***************************************************************************)
EXTENDS HostSystemProofs, SequenceTheorems

(* fifoWait and fifoIsEmpty find a ring empty only when nothing is owed on *)
(* it.                                                                     *)
LEMMA EmptyOwesNothing ==
  ASSUME RingInv, NEW s \in Spes, isKicked[s] = 1
  PROVE  owed[s] = 0 <=> ~HasRemaining(s)
<1>1. owed[s] = Dist(front[s], back[s], MaxEntries)
  BY DEF RingInv, OwedInv
<1>2. QED
  BY <1>1, IndicesInRing, GapRange DEF HasRemaining, ringHasRemaining

(* fifothread is never about to move back on an empty ring.                *)
LEMMA MonitorNeedsEntry ==
  ASSUME RingInv, mon_pc = "inc", isKicked[mon_spe] = 1
  PROVE  owed[mon_spe] # 0
<1>1. PICK s \in Spes : s = mon_spe
  BY DEF RingInv, TypeInv, TypeOK, HostTypeOK
<1>2. back[s] \in Slots /\ front[s] \in Slots /\ BackSlot(s) = back[s]
  BY IndicesInRing
<1>3. ~Kicking(s)
  BY <1>1 DEF RingInv, OpenInv, Kicking
<1>4. WindowEnd(s) = front[s]
  BY <1>3 DEF RingInv, FrontInv
<1>5. InWindow(s, back[s])
  BY <1>1, <1>2 DEF RingInv, AckAccounting, Collecting
<1>6. front[s] # back[s]
  BY <1>2, <1>4, <1>5, GapRange DEF InWindow, Ahead, Kicked
<1>7. QED
  BY <1>1, <1>6, EmptyOwesNothing DEF HasRemaining, ringHasRemaining

(* Every step keeps WaitSound.                                             *)
LEMMA WaitStep ==
  ASSUME RingInv, WaitSound, [Next]_vars, RingInv'
  PROVE  WaitSound'
<1> SUFFICES ASSUME app_pc' \in {"wait", "isempty"}, app_res' = 0,
                    NEW s \in Spes, s < app_spe'
             PROVE  owed'[s] = 0
    BY DEF WaitSound
<1>0. s \in Int /\ app_spe \in Int /\ ~(s < 0) /\ owed \in [Spes -> Int] /\ mon_spe \in Spes
  BY SpesAssumption DEF Spes, RingInv, TypeInv, TypeOK, HostTypeOK
<1> USE DEF WaitSound
<1>1. CASE CallWait
  BY <1>0, <1>1 DEF CallWait
<1>2. CASE fifoWait
  <2>1. /\ app_pc = "wait" /\ app_spe' = app_spe + 1 /\ app_spe < NumSpes
        /\ app_res' = fifoWaitRes(app_spe) /\ UNCHANGED owed
    BY <1>0, <1>2 DEF fifoWait
  <2>2. app_res = 0 /\ ~HasRemaining(app_spe)
    BY <2>1 DEF fifoWaitRes
  <2>3. CASE s = app_spe
    <3>1. isKicked[s] = 1
      BY <2>1 DEF RingInv, OpenInv, AllKicked
    <3>2. QED
      BY <2>1, <2>2, <2>3, <3>1, EmptyOwesNothing
  <2>4. CASE s # app_spe
    BY <1>0, <2>1, <2>2, <2>4
  <2>5. QED
    BY <2>3, <2>4
<1>3. CASE fifoIsEmpty
  <2>1. /\ app_pc = "isempty" /\ app_spe' = app_spe + 1
        /\ ~HasRemaining(app_spe) /\ UNCHANGED <<owed, app_res>>
    BY <1>0, <1>3 DEF fifoIsEmpty
  <2>3. CASE s = app_spe
    <3>1. isKicked[s] = 1
      BY <2>1 DEF RingInv, OpenInv, AllKicked
    <3>2. QED
      BY <2>1, <2>3, <3>1, EmptyOwesNothing
  <2>4. CASE s # app_spe
    BY <1>0, <2>1, <2>4
  <2>5. QED
    BY <2>3, <2>4
<1>4. CASE MonInc
  <2>1. /\ UNCHANGED appVars /\ mon_pc = "inc"
        /\ owed' = [owed EXCEPT ![mon_spe] = @ - 1]
    BY <1>4 DEF MonInc
  <2>2. owed[s] = 0 /\ AllKicked
    BY <2>1 DEF appVars, RingInv, OpenInv
  <2>3. s # mon_spe
    BY <2>1, <2>2, MonitorNeedsEntry DEF AllKicked
  <2>4. QED
    BY <1>0, <2>1, <2>2, <2>3
<1>5. CASE MonRead \/ MonClear \/ MonWrap \/ UNCHANGED vars
  BY <1>5 DEF MonRead, MonClear, MonWrap, appVars, vars, hostVars
<1>6. CASE SvcNext /\ UNCHANGED hostVars
  BY <1>6 DEF hostVars, appVars
<1>7. CASE \/ CallBegin \/ selectfifo \/ SendFrontRetry \/ CallRegister
           \/ (\E r \in Spes : fifoAdd(r) \/ fifoKick(r))
           \/ (\E command \in Commands : fifoBegin(command))
           \/ SendFrontState \/ SendFrontCount \/ KickDone \/ fifoRegisterProgram
  BY <1>7 DEF CallBegin, selectfifo, SendFrontRetry, CallRegister, fifoAdd,
     fifoKick, fifoBegin, SendFrontState, SendFrontCount, KickDone,
     fifoRegisterProgram
<1>8. QED
  BY <1>1, <1>2, <1>3, <1>4, <1>5, <1>6, <1>7
  DEF Next, HostNext, AppInside, AppCall, fifothread

(***************************************************************************)
(* fifoWait and fifoIsEmpty tell the truth although they look at the rings *)
(* one after the other while fifothread moves on.                          *)
(***************************************************************************)
THEOREM WaitIsSound ==
  ASSUME Client \in {"disciplined", "draining"}, IncBackStores = 1
  PROVE  Spec => []WaitSound
<1>1. Init => WaitSound
  BY DEF Init, fifoInit, WaitSound
<1>2. Spec => []RingInv
  BY RingInvariant
<1>3. RingInv /\ RingInv' /\ WaitSound /\ [Next]_vars => WaitSound'
  BY WaitStep
<1>4. QED
  BY <1>1, <1>2, <1>3, PTL DEF Spec

-----------------------------------------------------------------------------
(***************************************************************************)
(* What the steps do to a ring.  Six kinds of step are all there is: one   *)
(* that moves nothing, the one that shows the SPE a slot, the one that     *)
(* takes it, the one that acknowledges it, and the two of fifothread that  *)
(* clear the acknowledgement and give the slot back.                       *)
(***************************************************************************)

SameIndices(s) ==
  /\ Kicked(s)' = Kicked(s) /\ BackSlot(s)' = BackSlot(s)
  /\ \A k \in Slots : Taken(s, k)' <=> Taken(s, k)

SameTraces(s, k) ==
  /\ Acked(s, k)' <=> Acked(s, k)
  /\ Collecting(s, k)' <=> Collecting(s, k)
  /\ (k \in working[s])' <=> k \in working[s]

Quiet == \A s \in Spes : SameIndices(s) /\ \A k \in Slots : SameTraces(s, k)

Shows(s) ==
  /\ Kicked(s)' = Kicked(s) + 1 /\ Kicked(s) + 1 < MaxEntries
  /\ BackSlot(s)' = BackSlot(s)
  /\ \A k \in Slots : Taken(s, k)' <=> Taken(s, k)
  /\ \A r \in Spes : r # s => SameIndices(r)
  /\ \A r \in Spes, k \in Slots : SameTraces(r, k)

Takes(s, t) ==
  /\ InWindow(s, t) /\ ~Taken(s, t)
  /\ \A k \in Slots : Ahead(s, k) < Ahead(s, t) => Taken(s, k)
  /\ Kicked(s)' = Kicked(s) /\ BackSlot(s)' = BackSlot(s)
  /\ \A k \in Slots : Taken(s, k)' <=> Taken(s, k) \/ k = t
  /\ \A r \in Spes : r # s => SameIndices(r)
  /\ \A r \in Spes, k \in Slots :
       IF r = s /\ k = t
         THEN k \in working'[r] /\ ~Acked(r, k)' /\ ~Collecting(r, k)'
         ELSE SameTraces(r, k)

Acks(s, k) ==
  /\ k \in working[s] /\ k \notin working'[s] /\ ~Collecting(s, k)'
  /\ Acked(s, k)' \/ ACK_CLEAR \in AckWords
  /\ \A r \in Spes : SameIndices(r)
  /\ \A r \in Spes, j \in Slots : r # s \/ j # k => SameTraces(r, j)

Clears(s, b) ==
  /\ b = BackSlot(s) /\ Acked(s, b)
  /\ ~Acked(s, b)' /\ Collecting(s, b)' /\ ((b \in working[s])' <=> b \in working[s])
  /\ \A r \in Spes : SameIndices(r)
  /\ \A r \in Spes, j \in Slots : r # s \/ j # b => SameTraces(r, j)

Collects(s, b) ==
  /\ b = BackSlot(s) /\ Collecting(s, b) /\ Taken(s, b)
  /\ Kicked(s)' = Kicked(s) - 1 /\ BackSlot(s)' = ringInc(b, MaxEntries)
  /\ \A k \in Slots : Taken(s, k)' <=> Taken(s, k) /\ k # b
  /\ \A r \in Spes : r # s => SameIndices(r)
  /\ \A r \in Spes, j \in Slots : r # s \/ j # b => SameTraces(r, j)
  /\ ~Collecting(s, b)' /\ ~Acked(s, b)'

(* The steps that leave the rings, the lock line and the traces of work    *)
(* alone.                                                                  *)
LEMMA QuietEffect ==
  ASSUME RingInv,
         UNCHANGED <<back, svcVars, ack_fifo, atomic_count, atomic_state>>,
         UNCHANGED monVars \/ (mon_pc # "inc" /\ mon_pc' # "inc")
  PROVE  Quiet
<1>1. \A s \in Spes : WindowEnd(s)' = WindowEnd(s) /\ BackSlot(s)' = BackSlot(s)
  BY DEF WindowEnd, BackSlot
<1>2. \A s \in Spes : SameIndices(s)
  BY <1>1 DEF SameIndices, Kicked, Taken, Ahead, svcVars
<1>3. \A s \in Spes, k \in Slots : SameTraces(s, k)
  BY DEF SameTraces, Acked, Collecting, monVars, svcVars
<1>4. QED
  BY <1>2, <1>3 DEF Quiet

(* send_front shows at most the slot at front.                             *)
LEMMA ShowEffect ==
  ASSUME RingInv, UNCHANGED svcVars, SendFrontState \/ SendFrontCount
  PROVE  Quiet \/ \E s \in Spes : Shows(s)
<1>0. PICK s \in Spes : s = app_spe
  BY DEF RingInv, TypeInv, TypeOK, HostTypeOK, SendFrontState, SendFrontCount
<1>1. /\ isKicked[s] = 0
      /\ WindowEnd(s) \in {front[s], ringInc(front[s], MaxEntries)}
      /\ UNCHANGED <<back, svcVars, ack_fifo, monVars>>
      /\ app_pc \in {"lock", "stwcx"} /\ Kicking(s)
  BY <1>0 DEF RingInv, OpenInv, FrontInv, Kicking, SendFrontState, SendFrontCount
<1>2. /\ \A r \in Spes : r # s => WindowEnd(r)' = WindowEnd(r)
      /\ \/ WindowEnd(s)' = WindowEnd(s)
         \/ WindowEnd(s)' = ringInc(front[s], MaxEntries)
  <2>1. CASE SendFrontState
    <3>1. \A r \in Spes : r # s => WindowEnd(r)' = WindowEnd(r)
      BY <1>0, <2>1 DEF SendFrontState, WindowEnd, RingInv, TypeInv, TypeOK, MemTypeOK
    <3>2. atomic_state'[s] = 1 /\ atomic_count' = atomic_count
      BY <1>0, <2>1 DEF SendFrontState, RingInv, TypeInv, TypeOK, MemTypeOK
    <3>3. CASE atomic_state[s] = 0
      <4>1. front[s] = 0 /\ atomic_count[s] = 0
        BY <3>3 DEF RingInv, FrontInv
      <4>2. QED
        BY <3>1, <3>2, <4>1 DEF WindowEnd
    <3>4. CASE atomic_state[s] # 0
      BY <3>1, <3>2, <3>4 DEF WindowEnd
    <3>5. QED
      BY <3>3, <3>4
  <2>2. CASE SendFrontCount
    <3>1. /\ UNCHANGED atomic_state /\ atomic_state[s] = 1
          /\ atomic_count' = [atomic_count EXCEPT ![s] = front[s]]
      BY <1>0, <1>1, <2>2 DEF SendFrontCount, RingInv, FrontInv
    <3>2. QED
      BY <3>1 DEF WindowEnd, RingInv, TypeInv, TypeOK, MemTypeOK
  <2>3. QED
    BY <2>1, <2>2
<1>3. \A r \in Spes : /\ BackSlot(r)' = BackSlot(r)
                      /\ \A k \in Slots : Taken(r, k)' <=> Taken(r, k)
  BY <1>1 DEF BackSlot, Taken, Ahead, svcVars
<1>4. \A r \in Spes, k \in Slots : SameTraces(r, k)
  BY <1>1 DEF SameTraces, Acked, Collecting, monVars, svcVars
<1>5. \A r \in Spes : r # s => SameIndices(r)
  BY <1>2, <1>3 DEF SameIndices, Kicked
<1>6. CASE WindowEnd(s)' = WindowEnd(s)
  BY <1>3, <1>4, <1>5, <1>6 DEF Quiet, SameIndices, Kicked
<1>7. CASE WindowEnd(s)' # WindowEnd(s)
  <2>1. WindowEnd(s) = front[s] /\ WindowEnd(s)' = ringInc(front[s], MaxEntries)
    BY <1>1, <1>2, <1>7
  <2>2. ringInc(front[s], MaxEntries) # back[s]
    BY <1>1, <2>1, HasFreeIsRoom DEF RingInv, RoomInv
  <2>3. Dist(ringInc(front[s], MaxEntries), back[s], MaxEntries)
          = Dist(front[s], back[s], MaxEntries) + 1
    BY <2>2, IndicesInRing, GapIncUpper
  <2>4. Kicked(s)' = Kicked(s) + 1 /\ Kicked(s) + 1 < MaxEntries
    BY <1>3, <2>1, <2>3, IndicesInRing, IncInRing, GapRange, EntriesAssumption
    DEF Kicked
  <2>5. QED
    BY <1>3, <1>4, <1>5, <2>4 DEF Shows
<1>8. QED
  BY <1>6, <1>7

(* stage1 takes the first slot of the window that is not taken.            *)
LEMMA TakeEffect ==
  ASSUME RingInv, UNCHANGED hostVars, NEW s \in Spes, Take(s)
  PROVE  \E t \in Slots : Takes(s, t)
<1>1. PICK b \in Slots, t \in Slots, w \in Slots :
        /\ b = back[s] /\ BackSlot(s) = b
        /\ t = ringInc(in_back[s], MaxEntries) /\ w = WindowEnd(s)
  BY IndicesInRing, IncInRing
<1>2. /\ UNCHANGED <<appVars, monVars, back, owed, memVars>>
      /\ atomic_state[s] = 1 /\ in_back[s] # atomic_count[s]
      /\ in_back' = [in_back EXCEPT ![s] = t]
      /\ working' = [working EXCEPT ![s] = @ \cup {t}]
  BY <1>1 DEF Take, hostVars
<1>3. \A r \in Spes : BackSlot(r)' = BackSlot(r) /\ Kicked(r)' = Kicked(r)
  BY <1>2 DEF WindowEnd, BackSlot, Kicked, memVars
<1>4. Dist(t, b, MaxEntries) < Dist(w, b, MaxEntries)
  <2>1. t # w
    BY <1>1, <1>2, IndicesInRing, IncInjective DEF WindowEnd
  <2>2. Dist(t, b, MaxEntries) # Dist(w, b, MaxEntries)
    BY <1>1, <2>1, GapUnique
  <2>3. Dist(t, b, MaxEntries) <= Dist(w, b, MaxEntries)
    BY <1>1 DEF RingInv, TakenInv, Ahead, Kicked
  <2>4. QED
    BY <1>1, <2>2, <2>3, GapRange
<1>5. Dist(ringInc(t, MaxEntries), b, MaxEntries) = Dist(t, b, MaxEntries) + 1
  <2>1. Dist(t, b, MaxEntries) # MaxEntries - 1
    BY <1>1, <1>4, GapRange, EntriesAssumption
  <2>2. QED
    BY <1>1, <2>1, GapWidest, GapIncUpper
<1>6. in_back'[s] = t /\ \A r \in Spes : r # s => in_back'[r] = in_back[r]
  BY <1>2 DEF RingInv, TypeInv, TypeOK, SvcTypeOK
<1>7. \A k \in Slots : /\ Taken(s, k) <=> Dist(k, b, MaxEntries) < Dist(t, b, MaxEntries)
                       /\ Dist(k, b, MaxEntries) \in Int
  BY <1>1, GapRange DEF Taken, Ahead
<1>8. \A k \in Slots : Taken(s, k)' <=>
                         Dist(k, b, MaxEntries) < Dist(t, b, MaxEntries) + 1
  BY <1>1, <1>3, <1>5, <1>6 DEF Taken, Ahead
<1>9. \A k \in Slots : Taken(s, k)' <=> Taken(s, k) \/ k = t
  BY <1>1, <1>7, <1>8, GapUnique
<1>10. InWindow(s, t) /\ ~Taken(s, t)
  BY <1>1, <1>4, <1>7 DEF InWindow, Ahead, Kicked
<1>11. \A k \in Slots : Ahead(s, k) < Ahead(s, t) => Taken(s, k)
  BY <1>1, <1>7 DEF Ahead
<1>12. \A r \in Spes : r # s => SameIndices(r)
  BY <1>3, <1>6 DEF SameIndices, Taken, Ahead
<1>13. \A r \in Spes, k \in Slots :
         /\ Acked(r, k)' <=> Acked(r, k)
         /\ Collecting(r, k)' <=> Collecting(r, k)
         /\ (k \in working[r])' <=> k \in working[r] \/ (r = s /\ k = t)
  BY <1>2 DEF Acked, Collecting, memVars, monVars, RingInv, TypeInv, TypeOK, SvcTypeOK
<1>14. ~Acked(s, t) /\ ~Collecting(s, t)
  BY <1>1, <1>10 DEF RingInv, AckAccounting
<1>15. QED
  BY <1>1, <1>3, <1>9, <1>10, <1>11, <1>12, <1>13, <1>14 DEF Takes, SameTraces

(* stage4 and its DMA.                                                     *)
LEMMA AcknowledgeEffect ==
  ASSUME RingInv, UNCHANGED hostVars, NEW s \in Spes, NEW k \in Slots,
         Acknowledge(s, k)
  PROVE  Acks(s, k)
<1>1. PICK x \in AckWords : ack_fifo' = [ack_fifo EXCEPT ![s][k] = x]
  BY DEF Acknowledge
<1>2. /\ UNCHANGED <<monVars, back, in_back, atomic_count, atomic_state>>
      /\ working' = [working EXCEPT ![s] = @ \ {k}] /\ k \in working[s]
  BY DEF Acknowledge, hostVars
<1>3. \A r \in Spes : SameIndices(r)
  BY <1>2 DEF SameIndices, Kicked, Taken, Ahead, WindowEnd, BackSlot
<1>4. \A r \in Spes, j \in Slots : Collecting(r, j)' <=> Collecting(r, j)
  BY <1>2 DEF Collecting, monVars
<1>5. \A r \in Spes, j \in Slots : r # s \/ j # k => SameTraces(r, j)
  BY <1>1, <1>2, <1>4 DEF SameTraces, Acked, RingInv, TypeInv, TypeOK, MemTypeOK, SvcTypeOK
<1>6. ~Collecting(s, k)' /\ k \notin working'[s]
  BY <1>2, <1>4 DEF RingInv, AckAccounting, TypeInv, TypeOK, SvcTypeOK
<1>7. Acked(s, k)' \/ ACK_CLEAR \in AckWords
  BY <1>1 DEF Acked, RingInv, TypeInv, TypeOK, MemTypeOK
<1>8. QED
  BY <1>2, <1>3, <1>5, <1>6, <1>7 DEF Acks

(* fifothread clears the acknowledgement that it has seen.                 *)
LEMMA ClearEffect ==
  ASSUME RingInv, UNCHANGED svcVars, MonClear
  PROVE  \E s \in Spes, b \in Slots : Clears(s, b)
<1>0. PICK s \in Spes : s = mon_spe
  BY DEF RingInv, TypeInv, TypeOK, HostTypeOK
<1>1. /\ UNCHANGED <<back, svcVars, atomic_count, atomic_state>>
      /\ mon_pc = "clear" /\ mon_pc' = "inc" /\ mon_spe' = s
      /\ ack_fifo' = [ack_fifo EXCEPT ![s][back[s]] = ACK_CLEAR]
      /\ Acked(s, back[s])
  BY <1>0 DEF MonClear, RingInv, MonitorInv
<1>2. PICK b \in Slots : b = back[s] /\ b = BackSlot(s)
  BY IndicesInRing
<1>3. \A r \in Spes : SameIndices(r)
  BY <1>1 DEF SameIndices, Kicked, Taken, Ahead, WindowEnd, BackSlot, svcVars
<1>4. \A r \in Spes, j \in Slots :
        /\ Collecting(r, j)' <=> r = s /\ j = b
        /\ ~Collecting(r, j)
        /\ Acked(r, j)' <=> Acked(r, j) /\ ~(r = s /\ j = b)
        /\ (j \in working[r])' <=> j \in working[r]
  BY <1>1, <1>2 DEF Collecting, Acked, RingInv, TypeInv, TypeOK, MemTypeOK, svcVars
<1>5. QED
  BY <1>1, <1>2, <1>3, <1>4 DEF Clears, SameTraces

(* ringIncBack gives the slot back.                                        *)
LEMMA CollectEffect ==
  ASSUME RingInv, IncBackStores = 1, UNCHANGED svcVars, MonInc
  PROVE  \E s \in Spes, b \in Slots : Collects(s, b)
<1>0. PICK s \in Spes : s = mon_spe
  BY DEF RingInv, TypeInv, TypeOK, HostTypeOK
<1>b. PICK b \in Slots : b = back[s] /\ b = BackSlot(s)
  BY IndicesInRing
<1> DEFINE t == ringInc(in_back[s], MaxEntries)
           w == WindowEnd(s)
<1>1. /\ UNCHANGED <<appVars, svcVars, memVars>>
      /\ mon_pc = "inc" /\ mon_pc' = "read" /\ mon_spe = s
      /\ back' = [back EXCEPT ![s] = ringInc(b, MaxEntries)]
  BY <1>0, <1>b DEF MonInc
<1>2. t \in Slots /\ w \in Slots /\ ringInc(b, MaxEntries) \in Slots
  BY <1>b, IndicesInRing, IncInRing
<1>3. BackSlot(s)' = ringInc(b, MaxEntries)
  BY <1>1, <1>2, EntriesAssumption
  DEF RingInv, TypeInv, TypeOK, HostTypeOK, BackSlot, Slots
<1>4. \A r \in Spes : r # s => BackSlot(r)' = BackSlot(r)
  BY <1>1 DEF RingInv, TypeInv, TypeOK, HostTypeOK, BackSlot
<1>5. Collecting(s, b) /\ Taken(s, b) /\ InWindow(s, b)
  BY <1>b, <1>1 DEF Collecting, RingInv, AckAccounting
<1>6. t # b /\ w # b
  BY <1>b, <1>2, <1>5, GapRange DEF Taken, InWindow, Ahead, Kicked
<1>7. \A r \in Spes : WindowEnd(r)' = WindowEnd(r) /\ in_back'[r] = in_back[r]
  BY <1>1 DEF WindowEnd, memVars, svcVars
<1>8. \A k \in Slots : k # b => Ahead(s, k)' = Ahead(s, k) - 1
  BY <1>b, <1>2, <1>3, GapIncLower DEF Ahead
<1>9. Kicked(s)' = Kicked(s) - 1
  BY <1>b, <1>2, <1>3, <1>6, <1>7, GapIncLower DEF Kicked
<1>10. Ahead(s, t)' = Ahead(s, t) - 1 /\ t' = t
  BY <1>b, <1>2, <1>6, <1>7, <1>8, <1>3, GapIncLower DEF Ahead
<1>11. \A k \in Slots : Ahead(s, k) \in Int
  BY <1>b, GapRange DEF Ahead
<1>12. \A k \in Slots : Taken(s, k)' <=> Taken(s, k) /\ k # b
  <2>1. \A k \in Slots : k # b => (Taken(s, k)' <=> Taken(s, k))
    BY <1>2, <1>8, <1>10, <1>11 DEF Taken
  <2>2. ~Taken(s, b)'
    <3>1. Ahead(s, b)' = MaxEntries - 1
      BY <1>b, <1>2, <1>3, GapWidest DEF Ahead
    <3>2. Ahead(s, t)' \in 0 .. (MaxEntries - 1)
      BY <1>2, <1>3, <1>10, GapRange DEF Ahead
    <3>3. QED
      BY <3>1, <3>2, EntriesAssumption DEF Taken
  <2>3. QED
    BY <2>1, <2>2
<1>13. \A r \in Spes : r # s => SameIndices(r)
  BY <1>4, <1>7 DEF SameIndices, Kicked, Taken, Ahead
<1>14. \A r \in Spes, j \in Slots :
         /\ Acked(r, j)' <=> Acked(r, j)
         /\ ~Collecting(r, j)' /\ (Collecting(r, j) => r = s /\ j = b)
         /\ (j \in working[r])' <=> j \in working[r]
  BY <1>b, <1>1 DEF Acked, Collecting, memVars, svcVars
<1>15. ~Acked(s, b)
  BY <1>5 DEF RingInv, AckAccounting
<1>16. QED
  BY <1>b, <1>3, <1>5, <1>9, <1>12, <1>13, <1>14, <1>15 DEF Collects, SameTraces

(* Every step is of one of the six kinds.                                  *)
LEMMA StepEffect ==
  ASSUME IncBackStores = 1, RingInv, [Next]_vars
  PROVE  \/ Quiet
         \/ \E s \in Spes : Shows(s)
         \/ \E s \in Spes, k \in Slots :
              Takes(s, k) \/ Acks(s, k) \/ Clears(s, k) \/ Collects(s, k)
<1>1. CASE \/ CallBegin \/ selectfifo \/ SendFrontRetry \/ CallRegister
           \/ (\E r \in Spes : fifoAdd(r) \/ fifoKick(r)) \/ CallWait
           \/ (\E command \in Commands : fifoBegin(command))
           \/ KickDone \/ fifoRegisterProgram \/ fifoWait \/ fifoIsEmpty
  <2>1. UNCHANGED <<back, ack_fifo, atomic_count, atomic_state, monVars>>
    BY <1>1 DEF CallBegin, selectfifo, SendFrontRetry, CallRegister, fifoAdd,
       fifoKick, fifoBegin, KickDone, fifoRegisterProgram, CallWait, fifoWait,
       fifoIsEmpty, memVars
  <2>2. CASE UNCHANGED svcVars
    BY <2>1, <2>2, QuietEffect
  <2>3. CASE SvcNext /\ UNCHANGED hostVars
    <3>1. CASE \E s \in Spes : Take(s)
      BY <2>3, <3>1, TakeEffect
    <3>2. CASE \E s \in Spes, k \in Slots : Acknowledge(s, k)
      BY <2>3, <3>2, AcknowledgeEffect
    <3>3. QED
      BY <2>3, <3>1, <3>2 DEF SvcNext
  <2>4. CASE UNCHANGED vars
    BY <2>4, QuietEffect DEF vars, hostVars, memVars
  <2>5. QED
    BY <2>2, <2>3, <2>4 DEF Next
<1>2. CASE (SendFrontState \/ SendFrontCount) /\ UNCHANGED svcVars
  BY <1>2, ShowEffect
<1>3. CASE MonRead /\ UNCHANGED svcVars
  <2>1. /\ UNCHANGED <<back, ack_fifo, atomic_count, atomic_state>>
        /\ mon_pc # "inc" /\ mon_pc' # "inc"
    BY <1>3 DEF MonRead, memVars
  <2>2. QED
    BY <1>3, <2>1, QuietEffect
<1>4. CASE MonClear /\ UNCHANGED svcVars
  BY <1>4, ClearEffect
<1>5. CASE MonInc /\ UNCHANGED svcVars
  BY <1>5, CollectEffect
<1>6. CASE MonWrap
  BY <1>6 DEF MonWrap, RingInv, MonitorInv
<1>7. CASE (\E s \in Spes : Take(s)) /\ UNCHANGED hostVars
  BY <1>7, TakeEffect
<1>8. CASE (\E s \in Spes, k \in Slots : Acknowledge(s, k)) /\ UNCHANGED hostVars
  BY <1>8, AcknowledgeEffect
<1>9. CASE UNCHANGED vars
  BY <1>9, QuietEffect DEF vars, hostVars, memVars
<1>10. QED
  BY <1>1, <1>2, <1>3, <1>4, <1>5, <1>6, <1>7, <1>8, <1>9
  DEF Next, HostNext, AppInside, AppCall, fifothread, SvcNext

(* An acknowledgement is where AckAccounting says, or on its way there, as *)
(* long as the SPU never sends the word ACK_CLEAR.                         *)
LEMMA NoAckLostStep ==
  ASSUME IncBackStores = 1, RingInv, NoAckLost, [Next]_vars
  PROVE  NoAckLost'
<1> SUFFICES ASSUME ACK_CLEAR \notin AckWords, NEW s \in Spes, NEW k \in Slots,
                    Taken(s, k)'
             PROVE  (k \in working[s] \/ Acked(s, k) \/ Collecting(s, k))'
    BY DEF NoAckLost
<1>0. Taken(s, k) => k \in working[s] \/ Acked(s, k) \/ Collecting(s, k)
  BY DEF NoAckLost
<1>1. CASE Quiet \/ \E r \in Spes : Shows(r)
  <2>1. SameTraces(s, k) /\ Taken(s, k)
    BY <1>1 DEF Quiet, Shows, SameIndices
  <2>2. QED
    BY <1>0, <2>1 DEF SameTraces
<1>2. ASSUME NEW r \in Spes, NEW j \in Slots, Takes(r, j)
      PROVE  (k \in working[s] \/ Acked(s, k) \/ Collecting(s, k))'
  BY <1>0, <1>2 DEF Takes, SameIndices, SameTraces
<1>3. ASSUME NEW r \in Spes, NEW j \in Slots, Acks(r, j)
      PROVE  (k \in working[s] \/ Acked(s, k) \/ Collecting(s, k))'
  BY <1>0, <1>3 DEF Acks, SameIndices, SameTraces
<1>4. ASSUME NEW r \in Spes, NEW j \in Slots, Clears(r, j)
      PROVE  (k \in working[s] \/ Acked(s, k) \/ Collecting(s, k))'
  BY <1>0, <1>4 DEF Clears, SameIndices, SameTraces
<1>5. ASSUME NEW r \in Spes, NEW j \in Slots, Collects(r, j)
      PROVE  (k \in working[s] \/ Acked(s, k) \/ Collecting(s, k))'
  BY <1>0, <1>5 DEF Collects, SameIndices, SameTraces
<1>6. QED
  BY <1>1, <1>2, <1>3, <1>4, <1>5, StepEffect

(***************************************************************************)
(* No acknowledgement gets lost between the SPE and fifothread, unless the *)
(* uninitialised word that the SPU sends happens to be ACK_CLEAR.          *)
(***************************************************************************)
THEOREM AcksNotLost ==
  ASSUME Client \in {"disciplined", "draining"}, IncBackStores = 1
  PROVE  Spec => []NoAckLost
<1>1. Init => NoAckLost
  <2> SUFFICES ASSUME Init, NEW s \in Spes, NEW k \in Slots PROVE ~Taken(s, k)
      BY DEF NoAckLost
  <2>1. BackSlot(s) = 0 /\ ringInc(in_back[s], MaxEntries) = 0
    BY EntriesAssumption DEF Init, fifoInit, SvcInit, BackSlot, ringInc
  <2>2. QED
    BY <2>1 DEF Taken, Ahead, Dist, Slots
<1>2. Spec => []RingInv
  BY RingInvariant
<1>3. RingInv /\ NoAckLost /\ [Next]_vars => NoAckLost'
  BY NoAckLostStep
<1>4. QED
  BY <1>1, <1>2, <1>3, PTL DEF Spec

-----------------------------------------------------------------------------
(* The rings as queues.  The slot of a position, without the remainder.    *)
LEMMA PositionMod ==
  \A b \in Slots, i \in 1 .. MaxEntries :
    (b + i - 1) % MaxEntries =
      IF b + i - 1 < MaxEntries THEN b + i - 1 ELSE b + i - 1 - MaxEntries
  BY EntriesAssumption DEF Slots

(* The entry at position i of a queue is in the slot that is i - 1 slots   *)
(* ahead of back.                                                          *)
LEMMA SlotAtPosition ==
  \A b \in Slots, i \in 1 .. MaxEntries :
    /\ (b + i - 1) % MaxEntries \in Slots
    /\ Dist((b + i - 1) % MaxEntries, b, MaxEntries) = i - 1
<1> SUFFICES ASSUME NEW b \in Slots, NEW i \in 1 .. MaxEntries,
                    NEW k, k = (b + i - 1) % MaxEntries
             PROVE  k \in Slots /\ Dist(k, b, MaxEntries) = i - 1
    OBVIOUS
<1>1. k = IF b + i - 1 < MaxEntries THEN b + i - 1 ELSE b + i - 1 - MaxEntries
  BY PositionMod
<1>2. QED
  BY <1>1, EntriesAssumption DEF Dist, Slots

(* Every slot is at the position that its distance from back says.         *)
LEMMA PositionOfSlot ==
  ASSUME NEW b \in Slots, NEW k \in Slots
  PROVE  /\ Dist(k, b, MaxEntries) + 1 \in 1 .. MaxEntries
         /\ (b + (Dist(k, b, MaxEntries) + 1) - 1) % MaxEntries = k
<1>1. PICK i \in 1 .. MaxEntries : i = Dist(k, b, MaxEntries) + 1
  BY GapRange, EntriesAssumption
<1>2. (b + i - 1) % MaxEntries =
        IF b + i - 1 < MaxEntries THEN b + i - 1 ELSE b + i - 1 - MaxEntries
  BY PositionMod
<1>3. k = IF b + i - 1 < MaxEntries THEN b + i - 1 ELSE b + i - 1 - MaxEntries
  BY <1>1, EntriesAssumption DEF Dist, Slots
<1>4. QED
  BY <1>1, <1>2, <1>3

(* When back moves on, every position moves down by one.                   *)
LEMMA PositionsMoveDown ==
  ASSUME NEW b \in Slots, NEW i \in 1 .. (MaxEntries - 1)
  PROVE  (ringInc(b, MaxEntries) + i - 1) % MaxEntries
           = (b + (i + 1) - 1) % MaxEntries
<1>1. PICK c \in Slots : c = ringInc(b, MaxEntries)
  BY IncInRing
<1>2. PICK j \in 1 .. MaxEntries : j = i + 1
  BY EntriesAssumption
<1>3. i \in 1 .. MaxEntries
  BY EntriesAssumption
<1>4. (c + i - 1) % MaxEntries =
        IF c + i - 1 < MaxEntries THEN c + i - 1 ELSE c + i - 1 - MaxEntries
  BY <1>3, PositionMod
<1>5. (b + j - 1) % MaxEntries =
        IF b + j - 1 < MaxEntries THEN b + j - 1 ELSE b + j - 1 - MaxEntries
  BY PositionMod
<1>6. (IF c + i - 1 < MaxEntries THEN c + i - 1 ELSE c + i - 1 - MaxEntries)
        = IF b + j - 1 < MaxEntries THEN b + j - 1 ELSE b + j - 1 - MaxEntries
  BY <1>1, <1>2, EntriesAssumption DEF ringInc, Slots
<1>7. QED
  BY <1>1, <1>2, <1>4, <1>5, <1>6

Statuses == {"kicked", "taken", "acked"}

(* What a queue is: one status for every kicked slot.                      *)
LEMMA QueueIs ==
  ASSUME RingInv, NEW s \in Spes
  PROVE  /\ BackSlot(s) \in Slots /\ Kicked(s) \in 0 .. (MaxEntries - 1)
         /\ QueueOf(s) \in Seq(Statuses) /\ Len(QueueOf(s)) = Kicked(s)
         /\ \A i \in 1 .. Kicked(s) :
              /\ (BackSlot(s) + i - 1) % MaxEntries \in Slots
              /\ Ahead(s, (BackSlot(s) + i - 1) % MaxEntries) = i - 1
              /\ QueueOf(s)[i] = StatusOf(s, (BackSlot(s) + i - 1) % MaxEntries)
<1>1. BackSlot(s) \in Slots /\ WindowEnd(s) \in Slots
  BY IndicesInRing
<1>2. Kicked(s) \in 0 .. (MaxEntries - 1)
  BY <1>1, GapRange DEF Kicked
<1>3. \A k \in Slots : StatusOf(s, k) \in Statuses
  BY DEF StatusOf, Statuses
<1>4. QueueOf(s) \in Seq(Statuses) /\ Len(QueueOf(s)) = Kicked(s)
  <2>1. \A i \in 1 .. Kicked(s) : i \in 1 .. MaxEntries
    BY <1>2, EntriesAssumption
  <2>2. ASSUME NEW i \in 1 .. Kicked(s)
        PROVE  StatusOf(s, (BackSlot(s) + i - 1) % MaxEntries) \in Statuses
    BY <1>1, <1>3, <2>1, SlotAtPosition
  <2>3. Kicked(s) \in Nat
    BY <1>2
  <2>4. QED
    BY <2>2, <2>3 DEF QueueOf
<1>5. QED
  BY <1>1, <1>2, <1>4, SlotAtPosition, EntriesAssumption DEF QueueOf, Ahead

(* A ring whose indices stay and none of whose traces change its status.   *)
LEMMA SameQueue ==
  ASSUME RingInv, NEW s \in Spes, SameIndices(s),
         \A k \in Slots : StatusOf(s, k)' = StatusOf(s, k)
  PROVE  QueueOf(s)' = QueueOf(s)
<1>1. Kicked(s)' = Kicked(s) /\ BackSlot(s)' = BackSlot(s)
  BY DEF SameIndices
<1>2. \A i \in 1 .. Kicked(s) : (BackSlot(s) + i - 1) % MaxEntries \in Slots
  BY QueueIs
<1>3. QED
  BY <1>1, <1>2 DEF QueueOf

(* The traces of a slot and its being taken determine its status.          *)
LEMMA SameStatus ==
  ASSUME NEW s \in Spes, NEW k \in Slots, Taken(s, k)' <=> Taken(s, k),
         SameTraces(s, k)
  PROVE  StatusOf(s, k)' = StatusOf(s, k)
  BY DEF StatusOf, SameTraces

Queues == [s \in Spes |-> QueueOf(s)]

(* A step that changes one queue changes the function at one place.        *)
LEMMA OneQueueChanges ==
  ASSUME NEW s \in Spes, \A r \in Spes : r # s => QueueOf(r)' = QueueOf(r)
  PROVE  Queues' = [Queues EXCEPT ![s] = QueueOf(s)'] /\ Queues[s] = QueueOf(s)
  BY DEF Queues

(* Nothing moves: no queue changes.                                        *)
LEMMA QuietIsStutter ==
  ASSUME RingInv, Quiet
  PROVE  Queues' = Queues
<1>1. \A s \in Spes, k \in Slots : StatusOf(s, k)' = StatusOf(s, k)
  BY SameStatus DEF Quiet, SameIndices
<1>2. \A s \in Spes : QueueOf(s)' = QueueOf(s)
  BY <1>1, SameQueue DEF Quiet
<1>3. QED
  BY <1>2 DEF Queues

(* Clearing an acknowledgement only begins to collect it.                  *)
LEMMA ClearIsStutter ==
  ASSUME RingInv, NEW s \in Spes, NEW b \in Slots, Clears(s, b)
  PROVE  Queues' = Queues
<1>1. \A r \in Spes : SameIndices(r)
  BY DEF Clears
<1>2. \A r \in Spes, k \in Slots : StatusOf(r, k)' = StatusOf(r, k)
  <2> SUFFICES ASSUME NEW r \in Spes, NEW k \in Slots
               PROVE  StatusOf(r, k)' = StatusOf(r, k)
      OBVIOUS
  <2>1. CASE r # s \/ k # b
    BY <1>1, <2>1, SameStatus DEF Clears, SameIndices
  <2>2. CASE r = s /\ k = b
    BY <1>1, <2>2 DEF Clears, StatusOf, SameIndices
  <2>3. QED
    BY <2>1, <2>2
<1>3. \A r \in Spes : QueueOf(r)' = QueueOf(r)
  BY <1>1, <1>2, SameQueue
<1>4. QED
  BY <1>3 DEF Queues

(* The statuses of the slots of one ring as a function.                    *)
LEMMA StatusFunction ==
  ASSUME NEW s \in Spes
  PROVE  \E st \in [Slots -> Statuses] : \A k \in Slots : st[k] = StatusOf(s, k)
<1>1. \A k \in Slots : StatusOf(s, k) \in Statuses
  BY DEF StatusOf, Statuses
<1> DEFINE f == [k \in Slots |-> StatusOf(s, k)]
<1>2. f \in [Slots -> Statuses] /\ \A k \in Slots : f[k] = StatusOf(s, k)
  BY <1>1
<1> HIDE DEF f
<1>3. QED
  BY <1>2

(* Showing a slot appends it to the queue, which has room for it.          *)
LEMMA ShowIsKick ==
  ASSUME RingInv, NEW s \in Spes, Shows(s)
  PROVE  TF!Kick(s)
<1>1. \A r \in Spes, k \in Slots : StatusOf(r, k)' = StatusOf(r, k)
  BY SameStatus DEF Shows, SameIndices
<1>2. \A r \in Spes : r # s => QueueOf(r)' = QueueOf(r)
  BY <1>1, SameQueue DEF Shows
<1>3. PICK n \in Nat : n = Kicked(s) /\ n + 1 = Kicked(s)' /\ n < MaxEntries - 1
  BY QueueIs, EntriesAssumption DEF Shows
<1>4. PICK b \in Slots : b = BackSlot(s) /\ b = BackSlot(s)'
  BY QueueIs DEF Shows
<1>5. PICK st \in [Slots -> Statuses] : \A k \in Slots : st[k] = StatusOf(s, k)
  BY StatusFunction
<1>6. \A i \in 1 .. (n + 1) : (b + i - 1) % MaxEntries \in Slots
  BY <1>3, SlotAtPosition, EntriesAssumption
<1> DEFINE q == [i \in 1 .. n |-> st[(b + i - 1) % MaxEntries]]
           p == [i \in 1 .. (n + 1) |-> st[(b + i - 1) % MaxEntries]]
<1>7. QueueOf(s) = q
  BY <1>3, <1>4, <1>5, <1>6 DEF QueueOf
<1>8. QueueOf(s)' = p
  BY <1>1, <1>3, <1>4, <1>5, <1>6 DEF QueueOf
<1>9. q \in Seq(Statuses) /\ Len(q) = n
  BY <1>6
<1>10. p \in Seq(Statuses) /\ Len(p) = n + 1
  BY <1>6
<1>11. \A i \in 1 .. n : p[i] = q[i]
  OBVIOUS
<1>12. p[n + 1] = "kicked"
  <2>0. PICK i \in 1 .. MaxEntries : i = n + 1
    BY <1>3, EntriesAssumption
  <2>1. PICK j \in Slots : j = (b + i - 1) % MaxEntries
    BY SlotAtPosition
  <2>2. Dist(j, b, MaxEntries) = n
    BY <2>0, <2>1, SlotAtPosition
  <2>3. ~InWindow(s, j)
    BY <1>3, <1>4, <2>2 DEF InWindow, Ahead
  <2>4. StatusOf(s, j) = "kicked"
    BY <2>3 DEF RingInv, AckAccounting, StatusOf
  <2>5. QED
    BY <1>5, <2>0, <2>1, <2>4
<1> HIDE DEF q, p
<1>13. p = Append(q, "kicked")
  <2>1. "kicked" \in Statuses
    BY DEF Statuses
  <2>2. /\ Append(q, "kicked") \in Seq(Statuses)
        /\ Len(Append(q, "kicked")) = n + 1
        /\ \A i \in 1 .. n : Append(q, "kicked")[i] = q[i]
        /\ Append(q, "kicked")[n + 1] = "kicked"
    BY <1>9, <2>1, AppendProperties
  <2>3. \A i \in 1 .. (n + 1) : p[i] = Append(q, "kicked")[i]
    BY <1>11, <1>12, <2>2
  <2>4. QED
    BY <1>10, <2>2, <2>3, SeqEqual
<1>14. Len(Queues[s]) < MaxEntries - 1
  BY <1>3, <1>7, <1>9 DEF Queues
<1>15. Queues' = [Queues EXCEPT ![s] = Append(@, "kicked")]
  BY <1>2, <1>7, <1>8, <1>13, OneQueueChanges
<1>16. QED
  BY <1>14, <1>15 DEF TF!Kick, Queues

(* fifothread moves back over an acknowledged slot: the head of the queue  *)
(* is collected.                                                           *)
LEMMA CollectIsCollect ==
  ASSUME RingInv, NEW s \in Spes, NEW b \in Slots, Collects(s, b)
  PROVE  TF!Collect(s)
<1>1. \A k \in Slots : k # b => StatusOf(s, k)' = StatusOf(s, k)
  BY SameStatus DEF Collects
<1>2. \A r \in Spes : r # s => QueueOf(r)' = QueueOf(r)
  <2>1. \A r \in Spes, k \in Slots : r # s => StatusOf(r, k)' = StatusOf(r, k)
    BY SameStatus DEF Collects, SameIndices
  <2>2. QED
    BY <2>1, SameQueue DEF Collects
<1>3. PICK n \in Nat : n + 1 = Kicked(s) /\ n = Kicked(s)' /\ n + 1 < MaxEntries
  <2>1. Kicked(s) \in 0 .. (MaxEntries - 1)
    BY QueueIs
  <2>2. InWindow(s, b)
    BY DEF RingInv, AckAccounting, Collects
  <2>3. Ahead(s, b) = 0
    BY GapRange DEF Ahead, Collects
  <2>4. Kicked(s)' = Kicked(s) - 1
    BY DEF Collects
  <2>5. QED
    BY <2>1, <2>2, <2>3, <2>4, EntriesAssumption DEF InWindow
<1>4. PICK c \in Slots : c = ringInc(b, MaxEntries) /\ c = BackSlot(s)'
  BY IncInRing DEF Collects
<1>5. PICK st \in [Slots -> Statuses] : \A k \in Slots : st[k] = StatusOf(s, k)
  BY StatusFunction
<1>6. \A i \in 1 .. (n + 1) : (b + i - 1) % MaxEntries \in Slots
  BY <1>3, SlotAtPosition, EntriesAssumption
<1>7. \A i \in 1 .. n : /\ (c + i - 1) % MaxEntries = (b + (i + 1) - 1) % MaxEntries
                        /\ (c + i - 1) % MaxEntries \in Slots
                        /\ (c + i - 1) % MaxEntries # b
  <2> SUFFICES ASSUME NEW i \in 1 .. n
               PROVE  /\ (c + i - 1) % MaxEntries = (b + (i + 1) - 1) % MaxEntries
                      /\ (c + i - 1) % MaxEntries \in Slots
                      /\ (c + i - 1) % MaxEntries # b
      OBVIOUS
  <2>1. i \in 1 .. (MaxEntries - 1) /\ i \in 1 .. MaxEntries /\ i + 1 \in 1 .. MaxEntries
    BY <1>3, EntriesAssumption
  <2>2. (c + i - 1) % MaxEntries = (b + (i + 1) - 1) % MaxEntries
    BY <1>4, <2>1, PositionsMoveDown
  <2>3. PICK j \in 1 .. MaxEntries : j = i + 1
    BY <2>1
  <2>4. Dist((b + j - 1) % MaxEntries, b, MaxEntries) = i
        /\ (b + j - 1) % MaxEntries \in Slots
    BY <2>3, SlotAtPosition
  <2>5. QED
    BY <2>2, <2>3, <2>4, GapRange
<1> DEFINE q == [i \in 1 .. (n + 1) |-> st[(b + i - 1) % MaxEntries]]
           p == [i \in 1 .. n |-> st[(c + i - 1) % MaxEntries]]
<1>8. QueueOf(s) = q
  BY <1>3, <1>5, <1>6 DEF QueueOf, Collects
<1>9. QueueOf(s)' = p
  BY <1>1, <1>3, <1>4, <1>5, <1>7 DEF QueueOf
<1>10. q \in Seq(Statuses) /\ Len(q) = n + 1
  BY <1>6
<1>11. p \in Seq(Statuses) /\ Len(p) = n
  BY <1>7
<1>12. \A i \in 1 .. n : p[i] = q[i + 1]
  BY <1>7
<1>13. q[1] = "acked"
  <2>1. (b + 1 - 1) % MaxEntries = b
    <3>1. Dist(b, b, MaxEntries) = 0
      BY GapRange
    <3>2. QED
      BY <3>1, PositionOfSlot
  <2>2. StatusOf(s, b) = "acked"
    BY DEF Collects, StatusOf
  <2>3. QED
    BY <1>5, <2>1, <2>2
<1> HIDE DEF q, p
<1>14. q # << >> /\ Head(q) = "acked"
  BY <1>10, <1>13
<1>15. p = Tail(q)
  <2>1. /\ Tail(q) \in Seq(Statuses) /\ Len(Tail(q)) = n
        /\ \A i \in 1 .. n : Tail(q)[i] = q[i + 1]
    BY <1>10, <1>14, HeadTailProperties
  <2>2. \A i \in 1 .. n : p[i] = Tail(q)[i]
    BY <1>12, <2>1
  <2>3. QED
    BY <1>11, <2>1, <2>2, SeqEqual
<1>16. Queues[s] # << >> /\ Head(Queues[s]) = "acked"
  BY <1>8, <1>14 DEF Queues
<1>17. Queues' = [Queues EXCEPT ![s] = Tail(@)]
  BY <1>2, <1>8, <1>9, <1>15, OneQueueChanges
<1>18. QED
  BY <1>16, <1>17 DEF TF!Collect, Queues

(* A change of the status of one slot of the window changes one entry of   *)
(* its queue.                                                              *)
LEMMA OneEntryChanges ==
  ASSUME RingInv, NEW s \in Spes, NEW t \in Slots, NEW x \in Statuses,
         InWindow(s, t), Kicked(s)' = Kicked(s), BackSlot(s)' = BackSlot(s),
         StatusOf(s, t)' = x,
         \A k \in Slots : k # t => StatusOf(s, k)' = StatusOf(s, k),
         \A r \in Spes : r # s =>
           SameIndices(r) /\ \A k \in Slots : StatusOf(r, k)' = StatusOf(r, k)
  PROVE  LET i == Ahead(s, t) + 1 IN
         /\ i \in DOMAIN Queues[s] /\ Queues[s][i] = StatusOf(s, t)
         /\ \A j \in 1 .. (i - 1) :
              \E k \in Slots : Ahead(s, k) < Ahead(s, t) /\ Queues[s][j] = StatusOf(s, k)
         /\ Queues' = [Queues EXCEPT ![s][i] = x]
<1>1. PICK n \in Nat : n = Kicked(s) /\ n = Kicked(s)' /\ n < MaxEntries
  BY QueueIs, EntriesAssumption
<1>2. PICK b \in Slots : b = BackSlot(s) /\ b = BackSlot(s)'
  BY QueueIs
<1>3. PICK i \in 1 .. n : i = Ahead(s, t) + 1 /\ Ahead(s, t) = i - 1
  <2>1. Ahead(s, t) \in 0 .. (MaxEntries - 1)
    BY <1>2, GapRange DEF Ahead
  <2>2. QED
    BY <1>1, <2>1, EntriesAssumption DEF InWindow
<1>4. (b + i - 1) % MaxEntries = t
  BY <1>2, <1>3, PositionOfSlot DEF Ahead
<1>5. \A j \in 1 .. n : /\ (b + j - 1) % MaxEntries \in Slots
                        /\ Ahead(s, (b + j - 1) % MaxEntries) = j - 1
                        /\ QueueOf(s)[j] = StatusOf(s, (b + j - 1) % MaxEntries)
  BY <1>1, <1>2, QueueIs
<1>6. \A j \in 1 .. n : j # i => (b + j - 1) % MaxEntries # t
  BY <1>3, <1>5
<1>7. Queues[s] = QueueOf(s) /\ QueueOf(s) \in Seq(Statuses) /\ Len(QueueOf(s)) = n
  BY <1>1, QueueIs DEF Queues
<1>8. QueueOf(s) = [j \in 1 .. n |-> StatusOf(s, (b + j - 1) % MaxEntries)]
  BY <1>1, <1>2 DEF QueueOf
<1>9. QueueOf(s)' = [j \in 1 .. n |-> IF j = i THEN x ELSE QueueOf(s)[j]]
  <2>1. PICK st \in [Slots -> Statuses] : \A k \in Slots : st[k] = StatusOf(s, k)
    BY StatusFunction
  <2>2. QueueOf(s)' = [j \in 1 .. n |-> IF j = i THEN x ELSE st[(b + j - 1) % MaxEntries]]
    BY <1>1, <1>2, <1>4, <1>5, <1>6, <2>1 DEF QueueOf
  <2>3. QED
    BY <1>5, <2>1, <2>2
<1>10. QueueOf(s)' = [QueueOf(s) EXCEPT ![i] = x]
  <2>1. PICK q \in Seq(Statuses) : q = QueueOf(s) /\ Len(q) = n
    BY <1>7
  <2>2. i \in 1 .. Len(q)
    BY <2>1
  <2>3. /\ [q EXCEPT ![i] = x] \in Seq(Statuses) /\ Len([q EXCEPT ![i] = x]) = n
        /\ \A j \in 1 .. n : [q EXCEPT ![i] = x][j] = IF j = i THEN x ELSE q[j]
    BY <2>1, <2>2, ExceptSeq
  <2>4. PICK f \in Seq(Statuses) : f = QueueOf(s)' /\ Len(f) = n
    BY <1>9, <2>1
  <2>5. \A j \in 1 .. n : f[j] = [q EXCEPT ![i] = x][j]
    BY <1>9, <2>1, <2>3, <2>4
  <2>6. f = [q EXCEPT ![i] = x]
    BY <2>3, <2>4, <2>5, SeqEqual
  <2>7. QED
    BY <2>1, <2>4, <2>6
<1>11. \A r \in Spes : r # s => QueueOf(r)' = QueueOf(r)
  BY SameQueue
<1>12. Queues' = [Queues EXCEPT ![s][i] = x]
  BY <1>7, <1>10, <1>11, OneQueueChanges
<1>13. i \in DOMAIN Queues[s] /\ Queues[s][i] = StatusOf(s, t)
  BY <1>4, <1>5, <1>7
<1>14. ASSUME NEW j \in 1 .. (i - 1)
       PROVE  \E k \in Slots : Ahead(s, k) < Ahead(s, t) /\ Queues[s][j] = StatusOf(s, k)
  <2>1. j \in 1 .. n /\ j - 1 < i - 1
    OBVIOUS
  <2>2. Ahead(s, (b + j - 1) % MaxEntries) < Ahead(s, t)
    BY <1>3, <1>5, <2>1
  <2>3. QED
    BY <1>5, <1>7, <2>1, <2>2
<1>15. QED
  BY <1>3, <1>12, <1>13, <1>14

(* stage1 takes the first entry of the queue that is only kicked.          *)
LEMMA TakeIsTakeFirst ==
  ASSUME RingInv, NEW s \in Spes, NEW t \in Slots, Takes(s, t)
  PROVE  TF!TakeFirst(s)
<1>1. /\ InWindow(s, t) /\ Kicked(s)' = Kicked(s) /\ BackSlot(s)' = BackSlot(s)
      /\ StatusOf(s, t) = "kicked" /\ StatusOf(s, t)' = "taken"
  BY DEF Takes, StatusOf
<1>2. \A k \in Slots : k # t => StatusOf(s, k)' = StatusOf(s, k)
  BY SameStatus DEF Takes
<1>3. \A r \in Spes : r # s =>
        SameIndices(r) /\ \A k \in Slots : StatusOf(r, k)' = StatusOf(r, k)
  BY SameStatus DEF Takes, SameIndices
<1>4. PICK i : /\ i \in DOMAIN Queues[s] /\ Queues[s][i] = "kicked"
               /\ \A j \in 1 .. (i - 1) :
                    \E k \in Slots : Ahead(s, k) < Ahead(s, t)
                                     /\ Queues[s][j] = StatusOf(s, k)
               /\ Queues' = [Queues EXCEPT ![s][i] = "taken"]
  <2>1. "taken" \in Statuses
    BY DEF Statuses
  <2>2. QED
    BY <1>1, <1>2, <1>3, <2>1, OneEntryChanges
<1>5. \A k \in Slots : Ahead(s, k) < Ahead(s, t) => StatusOf(s, k) # "kicked"
  BY DEF Takes, StatusOf
<1>6. \A j \in 1 .. (i - 1) : Queues[s][j] # "kicked"
  BY <1>4, <1>5
<1>7. QED
  BY <1>4, <1>6 DEF TF!TakeFirst, Queues

(* stage4 acknowledges an entry that was taken; with the word ACK_CLEAR    *)
(* nothing happens that anybody could see.                                 *)
LEMMA AckIsAck ==
  ASSUME RingInv, NEW s \in Spes, NEW k \in Slots, Acks(s, k)
  PROVE  TF!Ack(s) \/ Queues' = Queues
<1>1. \A r \in Spes : SameIndices(r)
  BY DEF Acks
<1>2. \A r \in Spes, j \in Slots : r # s \/ j # k => StatusOf(r, j)' = StatusOf(r, j)
  BY <1>1, SameStatus DEF Acks, SameIndices
<1>3. Taken(s, k) /\ ~Acked(s, k) /\ ~Collecting(s, k) /\ InWindow(s, k)
  BY DEF RingInv, AckAccounting, Acks
<1>4. StatusOf(s, k) = "taken"
  BY <1>3 DEF StatusOf
<1>5. CASE Acked(s, k)'
  <2>1. StatusOf(s, k)' = "acked" /\ "acked" \in Statuses
    BY <1>1, <1>3, <1>5 DEF StatusOf, SameIndices, Statuses
  <2>2. PICK i : /\ i \in DOMAIN Queues[s] /\ Queues[s][i] = "taken"
                 /\ Queues' = [Queues EXCEPT ![s][i] = "acked"]
    BY <1>1, <1>2, <1>3, <1>4, <2>1, OneEntryChanges DEF SameIndices
  <2>3. QED
    BY <2>2 DEF TF!Ack, Queues
<1>6. CASE ~Acked(s, k)'
  <2>1. StatusOf(s, k)' = "taken"
    BY <1>1, <1>3, <1>6 DEF StatusOf, SameIndices, Acks
  <2>2. \A r \in Spes : QueueOf(r)' = QueueOf(r)
    BY <1>1, <1>2, <1>4, <2>1, SameQueue
  <2>3. QED
    BY <2>2 DEF Queues
<1>7. QED
  BY <1>5, <1>6

(* Every step of the threads and the SPEs is a step of the queues, or none.*)
LEMMA QueueStep ==
  ASSUME IncBackStores = 1, RingInv, [Next]_vars
  PROVE  TF!TFNext \/ Queues' = Queues
<1>1. CASE Quiet
  BY <1>1, QuietIsStutter
<1>2. CASE \E s \in Spes : Shows(s)
  BY <1>2, ShowIsKick DEF TF!TFNext
<1>3. CASE \E s \in Spes, k \in Slots : Takes(s, k)
  BY <1>3, TakeIsTakeFirst DEF TF!TFNext
<1>4. CASE \E s \in Spes, k \in Slots : Acks(s, k)
  BY <1>4, AckIsAck DEF TF!TFNext
<1>5. CASE \E s \in Spes, k \in Slots : Clears(s, k)
  BY <1>5, ClearIsStutter
<1>6. CASE \E s \in Spes, k \in Slots : Collects(s, k)
  BY <1>6, CollectIsCollect DEF TF!TFNext
<1>7. QED
  BY <1>1, <1>2, <1>3, <1>4, <1>5, <1>6, StepEffect

(***************************************************************************)
(* The rings, the lock lines and the acknowledgement words, with the two   *)
(* threads of the PPU and the SPEs working on them, implement the queues   *)
(* of TaskFifo: an entry is kicked at the end of a queue with room, taken  *)
(* in order, acknowledged in any order and collected at the head.          *)
(***************************************************************************)
THEOREM QueuesImplemented ==
  ASSUME Client \in {"disciplined", "draining"}, IncBackStores = 1
  PROVE  Spec => ImplementsTaskFifo
<1>1. Init => TF!TFInit
  <2> SUFFICES ASSUME Init PROVE \A s \in Spes : QueueOf(s) = << >>
      BY DEF TF!TFInit
  <2>1. \A s \in Spes : Kicked(s) = 0
    BY EntriesAssumption
    DEF Init, fifoInit, allocate_fifo, Kicked, WindowEnd, BackSlot, Dist
  <2>2. QED
    BY <2>1 DEF QueueOf
<1>2. RingInv /\ [Next]_vars => [TF!TFNext]_([s \in Spes |-> QueueOf(s)])
  BY QueueStep DEF Queues
<1>3. Spec => []RingInv
  BY RingInvariant
<1>4. QED
  BY <1>1, <1>2, <1>3, PTL DEF Spec, ImplementsTaskFifo, TF!TFSpec
=============================================================================
