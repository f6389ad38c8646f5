-------------------------- MODULE HostSystemProofs --------------------------
(***************************************************************************)
(* The safety of HostSystem for every number of SPEs and every size of the *)
(* fifos.                                                                  *)
(***************************************************************************)
EXTENDS HostSystem, TLAPS

-----------------------------------------------------------------------------
(* The arithmetic of a ring.                                               *)

(* Incrementing an index keeps it in the ring (ringIncFront, ringIncBack). *)
LEMMA IncInRing == \A x \in Slots : ringInc(x, MaxEntries) \in Slots
  BY EntriesAssumption DEF ringInc, Slots

(* Two different slots have different successors.                          *)
LEMMA IncInjective == \A x, y \in Slots : ringInc(x, MaxEntries) = ringInc(y, MaxEntries) => x = y
  BY EntriesAssumption DEF ringInc, Slots

(* A slot is not its own successor.                                        *)
LEMMA IncMoves == \A x \in Slots : ringInc(x, MaxEntries) # x
  BY EntriesAssumption DEF ringInc, Slots

(* A gap is a number below the size of the ring, and 0 only for equal      *)
(* indices (ringHasRemaining).                                             *)
LEMMA GapRange ==
  \A a, b \in Slots : /\ Dist(a, b, MaxEntries) \in 0 .. (MaxEntries - 1)
                      /\ Dist(a, b, MaxEntries) = 0 <=> a = b
  BY EntriesAssumption DEF Dist, Slots

(* Moving the upper index up widens the gap by one, unless the ring is     *)
(* full (ringIncFront after ringHasFree).                                  *)
LEMMA GapIncUpper ==
  \A a, b \in Slots : ringInc(a, MaxEntries) # b =>
    Dist(ringInc(a, MaxEntries), b, MaxEntries) = Dist(a, b, MaxEntries) + 1
  BY EntriesAssumption DEF Dist, ringInc, Slots

(* Moving the lower index up narrows the gap by one, unless the ring is    *)
(* empty (ringIncBack).                                                    *)
LEMMA GapIncLower ==
  \A a, b \in Slots : a # b =>
    Dist(a, ringInc(b, MaxEntries), MaxEntries) = Dist(a, b, MaxEntries) - 1
  BY EntriesAssumption DEF Dist, ringInc, Slots

(* Different slots are at different distances.                             *)
LEMMA GapUnique ==
  \A a, b, c \in Slots :
    Dist(a, c, MaxEntries) = Dist(b, c, MaxEntries) => a = b
  BY EntriesAssumption DEF Dist, Slots

(* The slot before an index is the one farthest from it.                   *)
LEMMA GapWidest ==
  \A a, b \in Slots :
    ringInc(a, MaxEntries) = b <=> Dist(a, b, MaxEntries) = MaxEntries - 1
  BY EntriesAssumption DEF Dist, ringInc, Slots

(* The round robin of selectfifo and the loop of fifothread stay in range. *)
LEMMA NextSpeInRange == \A s \in Spes : nextSpe(s) \in Spes
  BY SpesAssumption DEF nextSpe, Spes

(* The test of fifoAdd leaves the last word of a slot free.                *)
LEMMA WordFits ==
  \A n \in 0 .. TaskWords : n < TaskWords /\ n + 1 # TaskWords => n + 1 < TaskWords
  BY WordsAssumption

(* A loop index below the number of SPEs is an SPE.                        *)
LEMMA LoopIndex ==
  /\ 0 \in Spes /\ 0 \in 0 .. NumSpes
  /\ \A s \in Spes : s \in 0 .. NumSpes /\ s + 1 \in 0 .. NumSpes
  /\ \A i \in 0 .. NumSpes : i < NumSpes => i \in Spes /\ i + 1 \in 0 .. NumSpes
  /\ \A s \in Spes : s + 1 < NumSpes => s + 1 \in Spes
  BY SpesAssumption DEF Spes

(* ringHasFree compares the successor of front with back.                  *)
LEMMA HasFreeIsRoom == \A s \in Spes : HasFree(s) <=> ringInc(front[s], MaxEntries) # back[s]
  BY DEF HasFree, ringHasFree, ringInc

-----------------------------------------------------------------------------
(* Type correctness, for every kind of client and of ringIncBack.          *)

USE DEF ACK_CLEAR, ACK_OTHER, REGISTER_PROGRAM

(* fifoInit and allocate_fifo establish the types.                         *)
LEMMA TypeInit == Init => TypeInv
  BY SpesAssumption, EntriesAssumption, WordsAssumption, CommandsAssumption
  DEF Init, allocate_fifo, fifoInit, SvcInit, TypeInv, TypeOK, MemTypeOK,
      HostTypeOK, SvcTypeOK, Spes, Slots, AppPcs, MonPcs, CommandWords, Kicking

(* ringIncBack leaves back in range, or at the size until it wraps.        *)
LEMMA MonIncTypes ==
  ASSUME TypeInv, MonInc
  PROVE  /\ back' \in [Spes -> 0 .. MaxEntries] /\ owed' \in [Spes -> Int]
         /\ \A s \in Spes : back'[s] = MaxEntries => mon_pc' = "wrap" /\ mon_spe' = s
         /\ mon_pc' \in MonPcs /\ UNCHANGED <<appVars, mon_spe, memVars>>
<1>1. /\ back \in [Spes -> 0 .. MaxEntries] /\ owed \in [Spes -> Int]
      /\ mon_spe \in Spes /\ mon_pc = "inc"
      /\ \A s \in Spes : back[s] # MaxEntries
  BY DEF TypeInv, TypeOK, HostTypeOK, MonInc
<1>2. PICK b \in Slots : b = back[mon_spe]
  BY <1>1, EntriesAssumption DEF Slots
<1>3. /\ ringInc(b, MaxEntries) \in 0 .. MaxEntries /\ b + 1 \in 0 .. MaxEntries
      /\ ringInc(b, MaxEntries) # MaxEntries
  BY <1>2, EntriesAssumption DEF Slots, ringInc
<1>4. mon_pc' \in MonPcs /\ UNCHANGED <<appVars, mon_spe, memVars>>
  BY DEF MonInc, MonPcs
<1>5. owed' = [owed EXCEPT ![mon_spe] = @ - 1]
  BY DEF MonInc
<1>6. owed' \in [Spes -> Int]
  BY <1>1, <1>5
<1>7. CASE IncBackStores = 1
  <2>1. back' = [back EXCEPT ![mon_spe] = ringInc(b, MaxEntries)]
    BY <1>2, <1>7 DEF MonInc
  <2>2. QED
    BY <1>1, <1>3, <1>4, <1>6, <2>1
<1>8. CASE IncBackStores = 2
  <2>1. back' = [back EXCEPT ![mon_spe] = b + 1] /\ mon_pc' = "wrap"
    BY <1>2, <1>8 DEF MonInc
  <2>2. QED
    BY <1>1, <1>3, <1>4, <1>6, <2>1
<1>9. QED
  BY <1>7, <1>8, IncBackStoresAssumption

(* Every step keeps the types.                                             *)
LEMMA TypeStep == TypeInv /\ [Next]_vars => TypeInv'
<1> SUFFICES ASSUME TypeInv, [Next]_vars PROVE TypeInv'
    OBVIOUS
<1> USE DEF TypeInv, TypeOK, MemTypeOK, HostTypeOK, SvcTypeOK, AppPcs, MonPcs,
            Kicking, vars, hostVars, appVars, monVars, svcVars, memVars
<1>1. CASE CallBegin /\ UNCHANGED svcVars
  BY <1>1, NextSpeInRange DEF CallBegin
<1>2. CASE selectfifo /\ UNCHANGED svcVars
  BY <1>2, NextSpeInRange DEF selectfifo
<1>3. CASE (\E command \in Commands : fifoBegin(command)) /\ UNCHANGED svcVars
  BY <1>3, IncInRing, CommandsAssumption, WordsAssumption DEF fifoBegin, BeginSlot
<1>4. CASE (\E s \in Spes : fifoAdd(s)) /\ UNCHANGED svcVars
  <2>1. PICK s \in Spes : fifoAdd(s)
    BY <1>4
  <2>2. entry_count[s] + 1 < TaskWords
    <3>1. entry_count[s] \in 0 .. TaskWords /\ entry_count[s] + 1 # TaskWords
      BY <2>1 DEF fifoAdd
    <3>2. entry_count[s] < TaskWords
      BY <2>1 DEF fifoAdd
    <3>3. QED
      BY <3>1, <3>2, WordFits
  <2>3. entry_count' \in [Spes -> 0 .. TaskWords]
    BY <2>1, <2>2, WordsAssumption DEF fifoAdd
  <2>4. \A r \in Spes :
          isKicked[r] = 0 => entry_count'[r] < TaskWords
                             \/ (registering = 1 /\ Kicking(r))
    BY <2>1, <2>2, WordsAssumption DEF fifoAdd
  <2>5. QED
    BY <1>4, <2>1, <2>3, <2>4 DEF fifoAdd
<1>5. CASE (\E s \in Spes : fifoKick(s)) /\ UNCHANGED svcVars
  BY <1>5, LoopIndex DEF fifoKick
<1>6. CASE SendFrontState /\ UNCHANGED svcVars
  BY <1>6 DEF SendFrontState
<1>7. CASE SendFrontCount /\ UNCHANGED svcVars
  BY <1>7 DEF SendFrontCount
<1>8. CASE SendFrontRetry /\ UNCHANGED svcVars
  BY <1>8 DEF SendFrontRetry
<1>9. CASE KickDone /\ UNCHANGED svcVars
  BY <1>9, LoopIndex, IncInRing DEF KickDone
<1>10. CASE CallRegister /\ UNCHANGED svcVars
  BY <1>10, LoopIndex DEF CallRegister
<1>11. CASE fifoRegisterProgram /\ UNCHANGED svcVars
  <2>1. task_fifo' \in [Spes -> [Slots -> CommandWords]]
    BY <1>11 DEF fifoRegisterProgram, CommandWords
  <2>2. entry_count' \in [Spes -> 0 .. TaskWords]
    BY <1>11, WordsAssumption DEF fifoRegisterProgram
  <2>3. owed' \in [Spes -> Int]
    <3>1. owed[app_spe] + isKicked[app_spe] \in Int
      <4>1. owed[app_spe] \in Int /\ isKicked[app_spe] \in {0, 1}
        BY <1>11 DEF fifoRegisterProgram
      <4>2. QED
        BY <4>1
    <3>2. owed' = [owed EXCEPT ![app_spe] = owed[app_spe] + isKicked[app_spe]]
      BY <1>11 DEF fifoRegisterProgram
    <3>3. app_spe \in Spes
      BY <1>11 DEF fifoRegisterProgram
    <3>4. QED
      BY <3>1, <3>2, <3>3
  <2>4. QED
    BY <1>11, <2>1, <2>2, <2>3 DEF fifoRegisterProgram
<1>12. CASE CallWait /\ UNCHANGED svcVars
  BY <1>12, LoopIndex DEF CallWait
<1>13. CASE fifoWait /\ UNCHANGED svcVars
  BY <1>13, LoopIndex DEF fifoWait, fifoWaitRes
<1>14. CASE fifoIsEmpty /\ UNCHANGED svcVars
  BY <1>14, LoopIndex DEF fifoIsEmpty
<1>15. CASE MonRead /\ UNCHANGED svcVars
  BY <1>15, NextSpeInRange DEF MonRead
<1>16. CASE MonClear /\ UNCHANGED svcVars
  BY <1>16 DEF MonClear
<1>17. CASE MonInc /\ UNCHANGED svcVars
  <2>1. /\ back' \in [Spes -> 0 .. MaxEntries] /\ owed' \in [Spes -> Int]
        /\ \A s \in Spes : back'[s] = MaxEntries => mon_pc' = "wrap" /\ mon_spe' = s
        /\ mon_pc' \in MonPcs /\ UNCHANGED <<appVars, mon_spe, memVars>>
    BY <1>17, MonIncTypes
  <2>2. MemTypeOK' /\ SvcTypeOK'
    BY <1>17, <2>1
  <2>3. HostTypeOK'
    BY <2>1
  <2>4. QED
    BY <2>1, <2>2, <2>3
<1>18. CASE MonWrap /\ UNCHANGED svcVars
  BY <1>18, EntriesAssumption DEF MonWrap
<1>19. CASE (\E s \in Spes : Take(s)) /\ UNCHANGED hostVars
  BY <1>19, IncInRing DEF Take
<1>20. CASE (\E s \in Spes, k \in Slots : Acknowledge(s, k)) /\ UNCHANGED hostVars
  BY <1>20, AckWordsAssumption DEF Acknowledge
<1>21. CASE UNCHANGED vars
  BY <1>21
<1>22. QED
  BY <1>1, <1>2, <1>3, <1>4, <1>5, <1>6, <1>7, <1>8, <1>9, <1>10,
     <1>11, <1>12, <1>13, <1>14, <1>15, <1>16, <1>17, <1>18, <1>19, <1>20,
     <1>21
  DEF Next, HostNext, AppInside, AppCall, fifothread, SvcNext

(***************************************************************************)
(* The declared types hold in every reachable state: the indices stay in   *)
(* the rings and fifoAdd never writes past the end of a slot.              *)
(***************************************************************************)
THEOREM TypeCorrect == Spec => []TypeOK
<1>1. Spec => []TypeInv
  BY TypeInit, TypeStep, PTL DEF Spec
<1>2. TypeInv => TypeOK
  BY DEF TypeInv
<1>3. QED
  BY <1>1, <1>2, PTL
-----------------------------------------------------------------------------
(* The order of the indices, for a disciplined application.                *)

(* In the states of RingInv every index is a slot.                         *)
LEMMA IndicesInRing ==
  ASSUME RingInv, NEW s \in Spes
  PROVE  /\ front[s] \in Slots /\ back[s] \in Slots /\ in_back[s] \in Slots
         /\ atomic_count[s] \in Slots /\ WindowEnd(s) \in Slots
         /\ BackSlot(s) = back[s]
<1>1. back[s] # MaxEntries
  BY DEF RingInv, TypeInv, MonitorInv
<1>2. back[s] \in Slots
  BY <1>1, EntriesAssumption
  DEF RingInv, TypeInv, TypeOK, HostTypeOK, Slots
<1>3. 0 \in Slots
  BY EntriesAssumption DEF Slots
<1>4. QED
  BY <1>1, <1>2, <1>3, IncInRing
  DEF RingInv, TypeInv, TypeOK, HostTypeOK, MemTypeOK, SvcTypeOK, WindowEnd,
      BackSlot

(* fifoInit and allocate_fifo establish the invariant.                     *)
LEMMA RingInit == Init => RingInv
<1> SUFFICES ASSUME Init PROVE RingInv
    OBVIOUS
<1>1. TypeInv
  BY TypeInit
<1>2. OpenInv /\ MonitorInv
  BY DEF Init, fifoInit, OpenInv, MonitorInv
<1>3. ASSUME NEW s \in Spes
      PROVE  /\ front[s] = 0 /\ back[s] = 0 /\ WindowEnd(s) = 0
             /\ BackSlot(s) = 0 /\ ringInc(in_back[s], MaxEntries) = 0
             /\ isKicked[s] = 1 /\ owed[s] = 0 /\ atomic_count[s] = 0
             /\ working[s] = {} /\ \A k \in Slots : ack_fifo[s][k] = ACK_CLEAR
  BY EntriesAssumption
  DEF Init, fifoInit, allocate_fifo, SvcInit, WindowEnd, BackSlot, ringInc
<1>4. RoomInv /\ FrontInv
  BY <1>3 DEF Init, fifoInit, RoomInv, FrontInv, Kicking
<1>5. TakenInv /\ OwedInv
  BY <1>3 DEF TakenInv, OwedInv, Ahead, Kicked, Dist
<1>6. AckAccounting
  <2>1. \A s \in Spes, k \in Slots : ~Acked(s, k) /\ ~Collecting(s, k) /\ k \notin working[s]
    BY <1>3 DEF Acked, Collecting, Init, fifoInit
  <2>2. \A s \in Spes, k \in Slots : ~Taken(s, k)
    BY <1>3 DEF Taken, Ahead, Dist, Slots
  <2>3. QED
    BY <2>1, <2>2 DEF AckAccounting
<1>7. QED
  BY <1>1, <1>2, <1>4, <1>5, <1>6 DEF RingInv

(* A step that leaves the indices and the traces of work alone keeps all   *)
(* that RingInv says of them.                                              *)
LEMMA RingsUntouched ==
  ASSUME RingInv,
         UNCHANGED <<front, back, isKicked, owed, svcVars, ack_fifo,
                     atomic_count, atomic_state>>
  PROVE  /\ TakenInv' /\ OwedInv'
         /\ \A s \in Spes : WindowEnd(s)' = WindowEnd(s) /\ HasFree(s)' = HasFree(s)
         /\ UNCHANGED monVars => MonitorInv' /\ AckAccounting'
<1>1. \A s \in Spes : WindowEnd(s)' = WindowEnd(s) /\ HasFree(s)' = HasFree(s)
  BY DEF WindowEnd, HasFree
<1>2. TakenInv'
  BY DEF RingInv, TakenInv, Ahead, Kicked, WindowEnd, BackSlot, svcVars
<1>3. OwedInv'
  BY DEF RingInv, OwedInv
<1>4. ASSUME UNCHANGED monVars PROVE MonitorInv' /\ AckAccounting'
  BY <1>4 DEF RingInv, MonitorInv, AckAccounting, Acked, Taken, InWindow,
     Collecting, Ahead, Kicked, WindowEnd, BackSlot, monVars, svcVars
<1>5. QED
  BY <1>1, <1>2, <1>3, <1>4


(* A call of the application, and its steps that touch no index.           *)
LEMMA QuietStep ==
  ASSUME RingInv, Client \in {"disciplined", "draining"}, UNCHANGED svcVars,
         \/ CallBegin \/ selectfifo \/ SendFrontRetry \/ CallRegister
         \/ CallWait \/ fifoWait \/ fifoIsEmpty
         \/ \E s \in Spes : fifoAdd(s) \/ fifoKick(s),
         TypeInv'
  PROVE  RingInv'
<1> USE DEF memVars, AllKicked
<1>1. UNCHANGED <<front, back, isKicked, owed, svcVars, ack_fifo,
                  atomic_count, atomic_state>> /\ UNCHANGED monVars
  BY DEF CallBegin, selectfifo, SendFrontRetry, CallRegister, CallWait,
         fifoWait, fifoIsEmpty, fifoAdd, fifoKick
<1>2. /\ TakenInv' /\ OwedInv' /\ MonitorInv' /\ AckAccounting'
      /\ \A s \in Spes : WindowEnd(s)' = WindowEnd(s) /\ HasFree(s)' = HasFree(s)
  BY <1>1, RingsUntouched
<1>3. OpenInv'
  <2> USE DEF RingInv, OpenInv, TypeInv, TypeOK, HostTypeOK
  <2>1. CASE CallBegin
    BY <2>1 DEF CallBegin, MayBegin
  <2>2. CASE selectfifo
    BY <2>2 DEF selectfifo
  <2>3. CASE SendFrontRetry
    BY <2>3 DEF SendFrontRetry
  <2>4. CASE CallRegister
    BY <2>4 DEF CallRegister, MayRegister
  <2>5. CASE CallWait
    BY <2>5 DEF CallWait
  <2>6. CASE fifoWait
    BY <2>6 DEF fifoWait
  <2>7. CASE fifoIsEmpty
    BY <2>7 DEF fifoIsEmpty
  <2>8. CASE \E s \in Spes : fifoAdd(s)
    BY <2>8 DEF fifoAdd
  <2>9. CASE \E s \in Spes : fifoKick(s)
    BY <2>9 DEF fifoKick
  <2>10. QED
    BY <2>1, <2>2, <2>3, <2>4, <2>5, <2>6, <2>7, <2>8, <2>9
<1>4. RoomInv'
  <2> USE DEF RingInv, RoomInv, TypeInv, TypeOK, HostTypeOK
  <2>1. CASE CallBegin
    BY <1>1, <1>2, <2>1 DEF CallBegin
  <2>2. CASE selectfifo
    BY <1>1, <1>2, <2>2 DEF selectfifo
  <2>3. CASE SendFrontRetry
    BY <1>1, <1>2, <2>3 DEF SendFrontRetry
  <2>4. CASE CallRegister
    BY <1>1, <1>2, <2>4 DEF CallRegister, MayRegister
  <2>5. CASE CallWait \/ fifoWait \/ fifoIsEmpty
    BY <1>1, <1>2, <2>5 DEF CallWait, fifoWait, fifoIsEmpty
  <2>6. CASE \E s \in Spes : fifoAdd(s) \/ fifoKick(s)
    BY <1>1, <1>2, <2>6 DEF fifoAdd, fifoKick
  <2>7. QED
    BY <2>1, <2>2, <2>3, <2>4, <2>5, <2>6
<1>5. FrontInv'
  <2> USE DEF RingInv, FrontInv, OpenInv, Kicking, TypeInv, TypeOK, HostTypeOK
  <2>1. CASE CallBegin \/ selectfifo \/ CallRegister
    BY <1>1, <1>2, <2>1 DEF CallBegin, selectfifo, CallRegister
  <2>2. CASE SendFrontRetry
    BY <1>1, <1>2, <2>2 DEF SendFrontRetry
  <2>3. CASE CallWait \/ fifoWait \/ fifoIsEmpty
    BY <1>1, <1>2, <2>3 DEF CallWait, fifoWait, fifoIsEmpty
  <2>4. CASE \E s \in Spes : fifoAdd(s) \/ fifoKick(s)
    BY <1>1, <1>2, <2>4 DEF fifoAdd, fifoKick
  <2>5. QED
    BY <2>1, <2>2, <2>3, <2>4
<1>6. QED
  BY <1>2, <1>3, <1>4, <1>5 DEF RingInv


(* fifoBegin opens the slot at front.                                      *)
LEMMA BeginStep ==
  ASSUME RingInv, UNCHANGED svcVars, NEW command \in Commands,
         fifoBegin(command), TypeInv'
  PROVE  RingInv'
<1> DEFINE s == current_spe
<1>1. s \in Spes /\ AllKicked /\ HasFree(s) /\ app_pc = "fill" /\ registering = 0
  BY DEF RingInv, OpenInv, RoomInv, TypeInv, TypeOK, HostTypeOK, fifoBegin
<1>2. /\ UNCHANGED <<front, back, ack_fifo, atomic_count, atomic_state, monVars>>
      /\ isKicked' = [isKicked EXCEPT ![s] = 0]
      /\ owed' = [owed EXCEPT ![s] = @ + 1]
      /\ app_pc' = "idle" /\ UNCHANGED <<app_spe, registering>>
  BY <1>1 DEF RingInv, TypeInv, TypeOK, HostTypeOK, fifoBegin, BeginSlot, AllKicked
<1>3. \A r \in Spes : WindowEnd(r)' = WindowEnd(r) /\ HasFree(r)' = HasFree(r)
  BY <1>2 DEF WindowEnd, HasFree
<1>4. OpenInv'
  BY <1>1, <1>2 DEF OpenInv, RingInv, TypeInv, TypeOK, HostTypeOK, AllKicked
<1>5. RoomInv'
  BY <1>1, <1>2, <1>3 DEF RoomInv, RingInv, TypeInv, TypeOK, HostTypeOK, AllKicked
<1>6. FrontInv'
  BY <1>1, <1>2, <1>3 DEF FrontInv, RingInv, Kicking
<1>7. TakenInv' /\ MonitorInv' /\ AckAccounting'
  <2>1. TakenInv'
    BY <1>2 DEF RingInv, TakenInv, Ahead, Kicked, WindowEnd, BackSlot, svcVars
  <2>2. MonitorInv' /\ AckAccounting'
    BY <1>2 DEF RingInv, MonitorInv, AckAccounting, Acked, Taken, InWindow,
       Collecting, Ahead, Kicked, WindowEnd, BackSlot, monVars, svcVars
  <2>3. QED
    BY <2>1, <2>2
<1>8. OwedInv'
  BY <1>1, <1>2, IndicesInRing, HasFreeIsRoom, GapIncUpper, GapRange
  DEF OwedInv, RingInv, TypeInv, TypeOK, HostTypeOK, AllKicked
<1>9. QED
  BY <1>4, <1>5, <1>6, <1>7, <1>8 DEF RingInv

(* One turn of fifoRegisterProgram opens the slot at front.                *)
LEMMA RegisterStep ==
  ASSUME RingInv, UNCHANGED svcVars, fifoRegisterProgram, TypeInv'
  PROVE  RingInv'
<1> DEFINE s == app_spe
<1>1. s \in Spes /\ AllKicked /\ HasFree(s) /\ app_pc = "register" /\ registering = 1
  BY DEF RingInv, OpenInv, RoomInv, TypeInv, TypeOK, HostTypeOK, fifoRegisterProgram
<1>2. /\ UNCHANGED <<front, back, ack_fifo, atomic_count, atomic_state, monVars>>
      /\ isKicked' = [isKicked EXCEPT ![s] = 0]
      /\ owed' = [owed EXCEPT ![s] = @ + 1]
      /\ app_pc' = "lock" /\ UNCHANGED <<app_spe, registering>>
  BY <1>1 DEF RingInv, TypeInv, TypeOK, HostTypeOK, fifoRegisterProgram, AllKicked
<1>3. \A r \in Spes : WindowEnd(r)' = WindowEnd(r) /\ HasFree(r)' = HasFree(r)
  BY <1>2 DEF WindowEnd, HasFree
<1>4. OpenInv'
  BY <1>1, <1>2 DEF OpenInv, RingInv, TypeInv, TypeOK, HostTypeOK, AllKicked
<1>5. RoomInv'
  BY <1>1, <1>2, <1>3 DEF RoomInv, RingInv, TypeInv, TypeOK, HostTypeOK, AllKicked
<1>6. FrontInv'
  BY <1>1, <1>2, <1>3 DEF FrontInv, RingInv, Kicking
<1>7. TakenInv' /\ MonitorInv' /\ AckAccounting'
  <2>1. TakenInv'
    BY <1>2 DEF RingInv, TakenInv, Ahead, Kicked, WindowEnd, BackSlot, svcVars
  <2>2. MonitorInv' /\ AckAccounting'
    BY <1>2 DEF RingInv, MonitorInv, AckAccounting, Acked, Taken, InWindow,
       Collecting, Ahead, Kicked, WindowEnd, BackSlot, monVars, svcVars
  <2>3. QED
    BY <2>1, <2>2
<1>8. OwedInv'
  BY <1>1, <1>2, IndicesInRing, HasFreeIsRoom, GapIncUpper, GapRange
  DEF OwedInv, RingInv, TypeInv, TypeOK, HostTypeOK, AllKicked
<1>9. QED
  BY <1>4, <1>5, <1>6, <1>7, <1>8 DEF RingInv



(* Showing the SPE the slot at front, if it is not shown yet, widens the   *)
(* window by that slot and never beyond the size of the ring.              *)
LEMMA PublishStep ==
  ASSUME RingInv, NEW s \in Spes, isKicked[s] = 0,
         WindowEnd(s) \in {front[s], ringInc(front[s], MaxEntries)},
         WindowEnd(s)' = ringInc(front[s], MaxEntries),
         \A r \in Spes : r # s => WindowEnd(r)' = WindowEnd(r),
         UNCHANGED <<front, back, isKicked, owed, svcVars, ack_fifo, monVars>>
  PROVE  TakenInv' /\ OwedInv' /\ MonitorInv' /\ AckAccounting'
<1>1. \A r \in Spes : Kicked(r) <= Kicked(r)'
  <2> SUFFICES ASSUME NEW r \in Spes PROVE Kicked(r) <= Kicked(r)'
      OBVIOUS
  <2>1. BackSlot(r)' = BackSlot(r)
    BY DEF BackSlot
  <2>2. Kicked(r) \in Int
    BY IndicesInRing, GapRange DEF Kicked
  <2>3. CASE WindowEnd(r)' = WindowEnd(r)
    BY <2>1, <2>2, <2>3 DEF Kicked
  <2>4. CASE r = s /\ WindowEnd(s) = front[s]
    <3>1. ringInc(front[s], MaxEntries) # back[s]
      BY <2>4, HasFreeIsRoom DEF RingInv, RoomInv
    <3>2. Dist(ringInc(front[s], MaxEntries), back[s], MaxEntries)
            = Dist(front[s], back[s], MaxEntries) + 1
      BY <3>1, IndicesInRing, GapIncUpper
    <3>3. QED
      BY <2>1, <2>2, <2>4, <3>2, IndicesInRing DEF Kicked
  <2>5. QED
    BY <2>3, <2>4
<1>2. \A r \in Spes, k \in Slots : Ahead(r, k)' = Ahead(r, k) /\ Ahead(r, k) \in Int
  BY IndicesInRing, GapRange DEF Ahead, BackSlot
<1>3. \A r \in Spes : ringInc(in_back[r], MaxEntries) \in Slots
  BY IndicesInRing, IncInRing
<1>4. \A r \in Spes : Kicked(r) \in Int
  BY IndicesInRing, GapRange DEF Kicked
<1>5. \A r \in Spes : in_back'[r] = in_back[r]
  BY DEF svcVars
<1>6. \A r \in Spes : Kicked(r)' \in Int
  <2>1. \A r \in Spes : WindowEnd(r)' \in Slots /\ BackSlot(r)' \in Slots
    BY IndicesInRing, IncInRing DEF BackSlot
  <2>2. QED
    BY <2>1, GapRange DEF Kicked
<1>7. TakenInv'
  <2> SUFFICES ASSUME NEW r \in Spes
               PROVE  Ahead(r, ringInc(in_back[r], MaxEntries))' <= Kicked(r)'
      BY DEF TakenInv
  <2>1. Ahead(r, ringInc(in_back[r], MaxEntries))'
          = Ahead(r, ringInc(in_back[r], MaxEntries))
    BY <1>5 DEF Ahead, BackSlot
  <2>2. Ahead(r, ringInc(in_back[r], MaxEntries)) <= Kicked(r)
    BY DEF RingInv, TakenInv
  <2>3. QED
    BY <1>1, <1>2, <1>3, <1>4, <1>6, <2>1, <2>2
<1>8. OwedInv' /\ MonitorInv'
  BY DEF RingInv, OwedInv, MonitorInv, Acked, monVars
<1>9. AckAccounting'
  <2>1. \A r \in Spes, k \in Slots : Taken(r, k)' = Taken(r, k)
    BY <1>5 DEF Taken, Ahead, BackSlot
  <2>2. \A r \in Spes, k \in Slots : InWindow(r, k) => InWindow(r, k)'
    BY <1>1, <1>2, <1>4, <1>6 DEF InWindow
  <2>3. QED
    BY <2>1, <2>2 DEF RingInv, AckAccounting, Acked, Collecting, monVars, svcVars
<1>10. QED
  BY <1>7, <1>8, <1>9

(* The store to state shows the first entry.                               *)
LEMMA SendStateStep ==
  ASSUME RingInv, UNCHANGED svcVars, SendFrontState, TypeInv'
  PROVE  RingInv'
<1>0. PICK s \in Spes : s = app_spe
  BY DEF RingInv, TypeInv, TypeOK, HostTypeOK, SendFrontState
<1>1. /\ s = app_spe /\ isKicked[s] = 0 /\ app_pc = "lock" /\ app_pc' = "stwcx"
      /\ WindowEnd(s) \in {front[s], ringInc(front[s], MaxEntries)}
      /\ UNCHANGED <<front, back, isKicked, owed, svcVars, ack_fifo, monVars>>
      /\ UNCHANGED <<app_spe, registering, current_spe>>
  BY <1>0 DEF RingInv, OpenInv, FrontInv, Kicking, TypeInv, TypeOK, HostTypeOK,
         SendFrontState
<1>2. \A r \in Spes : r # s => WindowEnd(r)' = WindowEnd(r)
  BY <1>1 DEF SendFrontState, WindowEnd, RingInv, TypeInv, TypeOK, MemTypeOK
<1>3. atomic_state'[s] = 1 /\ atomic_count' = atomic_count
  BY <1>1 DEF SendFrontState, RingInv, TypeInv, TypeOK, MemTypeOK
<1>4. CASE atomic_state[s] = 1
  <2>1. \A r \in Spes : WindowEnd(r)' = WindowEnd(r)
    BY <1>2, <1>3, <1>4 DEF WindowEnd
  <2>2. atomic_state' = atomic_state
    BY <1>1, <1>4 DEF SendFrontState, RingInv, TypeInv, TypeOK, MemTypeOK
  <2>3. TakenInv' /\ OwedInv' /\ MonitorInv' /\ AckAccounting'
    BY <1>1, <1>3, <2>2, RingsUntouched
  <2>4. FrontInv'
    BY <1>1, <1>3, <1>4, <2>1, <2>2 DEF RingInv, FrontInv, Kicking
  <2>5. OpenInv' /\ RoomInv'
    BY <1>1, <2>1 DEF RingInv, OpenInv, RoomInv, HasFree, AllKicked
  <2>6. QED
    BY <2>3, <2>4, <2>5 DEF RingInv
<1>5. CASE atomic_state[s] = 0
  <2>1. WindowEnd(s)' = ringInc(front[s], MaxEntries)
    <3>1. front[s] = 0 /\ atomic_count[s] = 0
      BY <1>1, <1>5 DEF RingInv, FrontInv
    <3>2. WindowEnd(s)' = ringInc(0, MaxEntries)
      BY <1>3, <3>1 DEF WindowEnd
    <3>3. QED
      BY <3>1, <3>2
  <2>2. TakenInv' /\ OwedInv' /\ MonitorInv' /\ AckAccounting'
    BY <1>1, <1>2, <2>1, PublishStep
  <2>3. FrontInv'
    BY <1>1, <1>2, <1>3, <2>1 DEF RingInv, FrontInv, Kicking, SendFrontState,
       TypeInv, TypeOK, MemTypeOK
  <2>4. OpenInv' /\ RoomInv'
    <3>1. WindowEnd(s)' # front[s]
      BY <1>1, <2>1, IncMoves, IndicesInRing
    <3>2. QED
      BY <1>1, <1>2, <3>1 DEF RingInv, OpenInv, RoomInv, HasFree, AllKicked
  <2>5. QED
    BY <2>2, <2>3, <2>4 DEF RingInv
<1>6. QED
  BY <1>1, <1>4, <1>5 DEF RingInv, TypeInv, TypeOK, MemTypeOK



(* The store conditional shows every later entry.                          *)
LEMMA SendCountStep ==
  ASSUME RingInv, UNCHANGED svcVars, SendFrontCount, TypeInv'
  PROVE  RingInv'
<1>0. PICK s \in Spes : s = app_spe
  BY DEF RingInv, TypeInv, TypeOK, HostTypeOK, SendFrontCount
<1>1. /\ s = app_spe /\ isKicked[s] = 0 /\ app_pc = "stwcx" /\ app_pc' = "inc"
      /\ WindowEnd(s) \in {front[s], ringInc(front[s], MaxEntries)}
      /\ atomic_state[s] = 1
      /\ UNCHANGED <<front, back, isKicked, owed, svcVars, ack_fifo, monVars>>
      /\ UNCHANGED <<app_spe, registering, current_spe, atomic_state>>
      /\ atomic_count' = [atomic_count EXCEPT ![s] = front[s]]
  BY <1>0 DEF RingInv, OpenInv, FrontInv, Kicking, SendFrontCount
<1>2. \A r \in Spes : r # s => WindowEnd(r)' = WindowEnd(r)
  BY <1>1 DEF WindowEnd, RingInv, TypeInv, TypeOK, MemTypeOK
<1>3. WindowEnd(s)' = ringInc(front[s], MaxEntries)
  BY <1>1 DEF WindowEnd, RingInv, TypeInv, TypeOK, MemTypeOK
<1>4. TakenInv' /\ OwedInv' /\ MonitorInv' /\ AckAccounting'
  BY <1>1, <1>2, <1>3, PublishStep
<1>5. FrontInv'
  BY <1>1, <1>2, <1>3 DEF RingInv, FrontInv, Kicking, TypeInv, TypeOK, MemTypeOK
<1>6. OpenInv' /\ RoomInv'
  <2>1. WindowEnd(s)' # front[s]
    BY <1>3, IncMoves, IndicesInRing
  <2>2. QED
    BY <1>1, <1>2, <2>1 DEF RingInv, OpenInv, RoomInv, HasFree, AllKicked
<1>7. QED
  BY <1>4, <1>5, <1>6 DEF RingInv

(* The end of fifoKick: front catches up with the lock line.               *)
LEMMA KickDoneStep ==
  ASSUME RingInv, UNCHANGED svcVars, KickDone, TypeInv'
  PROVE  RingInv'
<1>0. PICK s \in Spes : s = app_spe
  BY DEF RingInv, TypeInv, TypeOK, HostTypeOK, KickDone
<1>1. /\ s = app_spe /\ isKicked[s] = 0 /\ app_pc = "inc"
      /\ WindowEnd(s) = ringInc(front[s], MaxEntries) /\ atomic_state[s] = 1
      /\ \A r \in Spes : r # s => isKicked[r] = 1
      /\ UNCHANGED <<back, owed, svcVars, memVars, monVars, current_spe>>
      /\ front' = [front EXCEPT ![s] = ringInc(front[s], MaxEntries)]
      /\ isKicked' = [isKicked EXCEPT ![s] = 1]
  BY <1>0 DEF RingInv, OpenInv, FrontInv, Kicking, KickDone, TypeInv, TypeOK,
     HostTypeOK
<1>2. \A r \in Spes : isKicked'[r] = 1 /\ WindowEnd(r)' = WindowEnd(r)
  BY <1>1 DEF WindowEnd, memVars, RingInv, TypeInv, TypeOK, HostTypeOK
<1>3. \/ app_pc' = "idle" /\ registering' = 0
      \/ /\ app_pc' = "register" /\ registering' = 1 /\ registering = 1
         /\ app_spe' = s + 1
  BY <1>1 DEF KickDone, RingInv, TypeInv, TypeOK, HostTypeOK
<1>4. OpenInv'
  BY <1>2, <1>3 DEF OpenInv, AllKicked
<1>5. RoomInv'
  <2>1. \A r \in Spes : r # s => HasFree(r)' = HasFree(r)
    BY <1>1 DEF HasFree, RingInv, TypeInv, TypeOK, HostTypeOK
  <2>2. CASE app_pc' = "idle" /\ registering' = 0
    BY <1>2, <2>2 DEF RoomInv
  <2>3. CASE /\ app_pc' = "register" /\ registering' = 1 /\ registering = 1
             /\ app_spe' = s + 1
    <3>1. \A r \in Spes : r > s => HasFree(r)
      BY <1>1, <2>3 DEF RingInv, RoomInv
    <3>2. \A r \in Spes : r >= s + 1 => r > s /\ r # s
      BY DEF Spes
    <3>3. \A r \in Spes : r > s + 1 \/ r = s + 1 => HasFree(r)'
      BY <2>1, <3>1, <3>2 DEF Spes
    <3>4. QED
      BY <1>2, <2>3, <3>3 DEF RoomInv
  <2>4. QED
    BY <1>3, <2>2, <2>3
<1>6. FrontInv'
  <2>1. \A r \in Spes : ~Kicking(r)'
    BY <1>3 DEF Kicking
  <2>2. \A r \in Spes : WindowEnd(r)' = front'[r]
    BY <1>1, <1>2 DEF RingInv, FrontInv, Kicking, TypeInv, TypeOK, HostTypeOK
  <2>3. \A r \in Spes :
          atomic_state'[r] = 0 => atomic_count'[r] = 0 /\ front'[r] = 0
    BY <1>1 DEF RingInv, FrontInv, memVars, TypeInv, TypeOK, HostTypeOK
  <2>4. QED
    BY <2>1, <2>2, <2>3 DEF FrontInv
<1>7. TakenInv'
  BY <1>1 DEF RingInv, TakenInv, Ahead, Kicked, WindowEnd, BackSlot, svcVars, memVars
<1>8. MonitorInv' /\ AckAccounting'
  BY <1>1 DEF RingInv, MonitorInv, AckAccounting, Acked, Taken, InWindow,
     Collecting, Ahead, Kicked, WindowEnd, BackSlot, monVars, svcVars, memVars
<1>9. OwedInv'
  BY <1>1 DEF RingInv, OwedInv, TypeInv, TypeOK, HostTypeOK
<1>10. QED
  BY <1>4, <1>5, <1>6, <1>7, <1>8, <1>9 DEF RingInv

(* A step of fifothread or of an SPE leaves the application where it is:   *)
(* what RingInv says of it stays true when no ring loses its room.         *)
LEMMA AppUntouched ==
  ASSUME RingInv, UNCHANGED <<appVars, atomic_count, atomic_state>>,
         \A s \in Spes : WindowEnd(s) = front[s] /\ HasFree(s) => HasFree(s)'
  PROVE  OpenInv' /\ RoomInv' /\ FrontInv'
<1>1. \A s \in Spes : WindowEnd(s)' = WindowEnd(s)
  BY DEF WindowEnd
<1>2. OpenInv'
  BY DEF RingInv, OpenInv, AllKicked, appVars
<1>3. FrontInv'
  BY <1>1 DEF RingInv, FrontInv, Kicking, appVars
<1>4. RoomInv'
  <2>1. app_pc = "fill" => HasFree(current_spe)'
    <3> SUFFICES ASSUME app_pc = "fill" PROVE HasFree(current_spe)'
        OBVIOUS
    <3>1. PICK s \in Spes : s = current_spe
      BY DEF RingInv, TypeInv, TypeOK, HostTypeOK
    <3>2. WindowEnd(s) = front[s] /\ HasFree(s) /\ current_spe' = s
      BY <3>1 DEF RingInv, FrontInv, Kicking, RoomInv, appVars
    <3>3. QED
      BY <3>1, <3>2
  <2>2. registering = 1 =>
          \A s \in Spes : s > app_spe \/ (s = app_spe /\ app_pc = "register")
                           => HasFree(s)'
    <3> SUFFICES ASSUME registering = 1, NEW s \in Spes,
                        s > app_spe \/ (s = app_spe /\ app_pc = "register")
                 PROVE  HasFree(s)'
        OBVIOUS
    <3>1. ~Kicking(s)
      BY DEF Kicking, Spes
    <3>2. QED
      BY <3>1 DEF RingInv, FrontInv, RoomInv
  <2>3. \A s \in Spes : isKicked[s] = 0 /\ WindowEnd(s) = front[s] => HasFree(s)'
    BY DEF RingInv, RoomInv
  <2>4. QED
    BY <1>1, <2>1, <2>2, <2>3 DEF RoomInv, appVars
<1>5. QED
  BY <1>2, <1>3, <1>4

(* fifothread looks at the word at back.                                   *)
LEMMA MonReadStep ==
  ASSUME RingInv, UNCHANGED svcVars, MonRead, TypeInv'
  PROVE  RingInv'
<1>1. /\ UNCHANGED <<appVars, back, owed, svcVars, memVars>>
      /\ mon_pc = "read" /\ mon_pc' \in {"read", "clear"}
      /\ mon_pc' = "clear" => ack_fifo[mon_spe][back[mon_spe]] # ACK_CLEAR
                              /\ mon_spe' = mon_spe
  BY DEF MonRead
<1>2. /\ TakenInv' /\ OwedInv'
      /\ \A s \in Spes : WindowEnd(s)' = WindowEnd(s) /\ HasFree(s)' = HasFree(s)
  BY <1>1, RingsUntouched DEF appVars, memVars
<1>3. OpenInv' /\ RoomInv' /\ FrontInv'
  BY <1>1, <1>2, AppUntouched DEF memVars
<1>4. MonitorInv'
  BY <1>1 DEF MonitorInv, Acked, memVars
<1>5. AckAccounting'
  <2>1. \A s \in Spes, k \in Slots : ~Collecting(s, k)'
    BY <1>1 DEF Collecting
  <2>2. QED
    BY <1>1, <2>1 DEF RingInv, AckAccounting, Acked, Taken, InWindow, Ahead,
       Kicked, WindowEnd, BackSlot, svcVars, memVars
<1>6. QED
  BY <1>2, <1>3, <1>4, <1>5 DEF RingInv

(* fifothread clears the acknowledgement it has seen.                      *)
LEMMA MonClearStep ==
  ASSUME RingInv, UNCHANGED svcVars, MonClear, TypeInv'
  PROVE  RingInv'
<1>0. PICK s \in Spes : s = mon_spe
  BY DEF RingInv, TypeInv, TypeOK, HostTypeOK
<1>1. /\ UNCHANGED <<appVars, back, owed, svcVars, atomic_count, atomic_state>>
      /\ mon_pc = "clear" /\ mon_pc' = "inc" /\ mon_spe' = s /\ mon_spe = s
      /\ ack_fifo' = [ack_fifo EXCEPT ![s][back[s]] = ACK_CLEAR]
      /\ Acked(s, back[s])
  BY <1>0 DEF MonClear, RingInv, MonitorInv
<1>2. \A r \in Spes : WindowEnd(r)' = WindowEnd(r) /\ HasFree(r)' = HasFree(r)
  BY <1>1 DEF WindowEnd, HasFree, appVars
<1>3. OpenInv' /\ RoomInv' /\ FrontInv'
  BY <1>1, <1>2, AppUntouched
<1>4. TakenInv' /\ OwedInv' /\ MonitorInv'
  BY <1>1 DEF RingInv, TakenInv, OwedInv, MonitorInv, Ahead, Kicked, WindowEnd,
     BackSlot, svcVars, appVars
<1>5. AckAccounting'
  <2>1. \A r \in Spes, k \in Slots :
          /\ Taken(r, k)' = Taken(r, k) /\ InWindow(r, k)' = InWindow(r, k)
          /\ (k \in working[r])' = (k \in working[r])
    BY <1>1 DEF Taken, InWindow, Ahead, Kicked, WindowEnd, BackSlot, svcVars
  <2>2. \A r \in Spes, k \in Slots :
          /\ Collecting(r, k)' <=> r = s /\ k = back[s]
          /\ Acked(r, k)' <=> Acked(r, k) /\ ~(r = s /\ k = back[s])
    BY <1>1, IndicesInRing DEF Collecting, Acked, RingInv, TypeInv, TypeOK, MemTypeOK
  <2>3. QED
    BY <1>1, <2>1, <2>2, IndicesInRing DEF RingInv, AckAccounting
<1>6. QED
  BY <1>3, <1>4, <1>5 DEF RingInv



(* ringIncBack: the window gives up the slot that was collected.           *)
LEMMA MonIncStep ==
  ASSUME RingInv, IncBackStores = 1, UNCHANGED svcVars, MonInc, TypeInv'
  PROVE  RingInv'
<1>0. PICK s \in Spes : s = mon_spe
  BY DEF RingInv, TypeInv, TypeOK, HostTypeOK
<1>b. PICK b \in Slots : b = back[s]
  BY IndicesInRing
<1> DEFINE t == ringInc(in_back[s], MaxEntries)
           w == WindowEnd(s)
<1>1. /\ UNCHANGED <<appVars, svcVars, memVars>>
      /\ mon_pc = "inc" /\ mon_pc' = "read" /\ mon_spe = s /\ back[s] = b
      /\ back' = [back EXCEPT ![s] = ringInc(b, MaxEntries)]
      /\ owed' = [owed EXCEPT ![s] = @ - 1]
  BY <1>0, <1>b DEF MonInc
<1>2. /\ b \in Slots /\ t \in Slots /\ w \in Slots /\ front[s] \in Slots
      /\ ringInc(b, MaxEntries) \in Slots /\ BackSlot(s) = b
  BY <1>b, IndicesInRing, IncInRing
<1>3. back'[s] = ringInc(b, MaxEntries) /\ BackSlot(s)' = ringInc(b, MaxEntries)
  BY <1>1, <1>2, EntriesAssumption
  DEF RingInv, TypeInv, TypeOK, HostTypeOK, BackSlot, Slots
<1>4. \A r \in Spes : r # s => back'[r] = back[r] /\ BackSlot(r)' = BackSlot(r)
  BY <1>1 DEF RingInv, TypeInv, TypeOK, HostTypeOK, BackSlot
<1>5. t # b /\ w # b
  <2>1. Collecting(s, b)
    BY <1>1 DEF Collecting
  <2>2. Taken(s, b) /\ InWindow(s, b)
    BY <1>2, <2>1 DEF RingInv, AckAccounting
  <2>3. QED
    BY <1>2, <2>2, GapRange DEF Taken, InWindow, Ahead, Kicked
<1>6. \A r \in Spes : WindowEnd(r)' = WindowEnd(r) /\ in_back'[r] = in_back[r]
  BY <1>1 DEF WindowEnd, memVars, svcVars
<1>7. OpenInv' /\ RoomInv' /\ FrontInv'
  <2>1. ASSUME NEW r \in Spes, WindowEnd(r) = front[r], HasFree(r)
        PROVE  HasFree(r)'
    <3>1. CASE r = s
      <4>1. front[s] # b
        BY <1>5, <2>1, <3>1
      <4>2. ringInc(front[s], MaxEntries) # ringInc(b, MaxEntries)
        BY <1>2, <4>1, IncInjective
      <4>3. QED
        BY <1>1, <1>3, <3>1, <4>2 DEF HasFree, ringHasFree, ringInc, appVars
    <3>2. CASE r # s
      BY <1>1, <1>4, <2>1, <3>2 DEF HasFree, appVars
    <3>3. QED
      BY <3>1, <3>2
  <2>2. QED
    BY <1>1, <2>1, AppUntouched DEF memVars
<1>8. \A k \in Slots : k # b => Ahead(s, k)' = Ahead(s, k) - 1
  BY <1>2, <1>3, GapIncLower DEF Ahead
<1>9. Kicked(s)' = Kicked(s) - 1
  BY <1>2, <1>3, <1>5, <1>6, GapIncLower DEF Kicked
<1>10. Ahead(s, t)' = Ahead(s, t) - 1
  BY <1>2, <1>5, <1>6, <1>8, <1>3, GapIncLower DEF Ahead
<1>11. \A r \in Spes, k \in Slots : r # s => Ahead(r, k)' = Ahead(r, k)
  BY <1>4 DEF Ahead
<1>12. \A r \in Spes : r # s => Kicked(r)' = Kicked(r)
  BY <1>4, <1>6 DEF Kicked
<1>13. \A r \in Spes, k \in Slots : Ahead(r, k) \in Nat /\ Kicked(r) \in Nat
  BY IndicesInRing, GapRange, EntriesAssumption DEF Ahead, Kicked
<1>14. TakenInv'
  <2> SUFFICES ASSUME NEW r \in Spes
               PROVE  Ahead(r, ringInc(in_back[r], MaxEntries))' <= Kicked(r)'
      BY DEF TakenInv
  <2>1. Ahead(r, ringInc(in_back[r], MaxEntries)) <= Kicked(r)
    BY DEF RingInv, TakenInv
  <2>2. CASE r = s
    BY <1>2, <1>9, <1>10, <1>13, <2>1, <2>2
  <2>3. CASE r # s
    BY <1>4, <1>6, <1>12, <2>1, <2>3 DEF Ahead
  <2>4. QED
    BY <2>2, <2>3
<1>15. MonitorInv'
  BY <1>1 DEF MonitorInv
<1>16. OwedInv'
  <2> SUFFICES ASSUME NEW r \in Spes
               PROVE  owed'[r] = Dist(IF isKicked[r] = 1 THEN front[r]
                                      ELSE ringInc(front[r], MaxEntries),
                                      back'[r], MaxEntries)
      BY <1>1 DEF OwedInv, appVars
  <2>1. owed[r] = Dist(IF isKicked[r] = 1 THEN front[r]
                       ELSE ringInc(front[r], MaxEntries), back[r], MaxEntries)
    BY DEF RingInv, OwedInv
  <2>2. CASE r # s
    BY <1>1, <1>4, <2>1, <2>2 DEF RingInv, TypeInv, TypeOK, HostTypeOK
  <2>3. CASE r = s
    <3>1. owed'[s] = owed[s] - 1
      BY <1>1 DEF RingInv, TypeInv, TypeOK, HostTypeOK
    <3>2. CASE isKicked[s] = 1
      <4>1. ~Kicking(s)
        BY <3>2 DEF RingInv, OpenInv, Kicking
      <4>2. front[s] # b
        BY <1>5, <4>1 DEF RingInv, FrontInv
      <4>3. QED
        BY <1>2, <1>3, <2>1, <2>3, <3>1, <3>2, <4>2, <1>1, GapIncLower
    <3>3. CASE isKicked[s] # 1
      <4>1. isKicked[s] = 0
        BY <3>3 DEF RingInv, TypeInv, TypeOK, HostTypeOK
      <4>2. w \in {front[s], ringInc(front[s], MaxEntries)}
        BY DEF RingInv, FrontInv
      <4>3. ringInc(front[s], MaxEntries) # b
        BY <1>1, <1>5, <4>1, <4>2, HasFreeIsRoom DEF RingInv, RoomInv
      <4>4. ringInc(front[s], MaxEntries) \in Slots
        BY <1>2, IncInRing
      <4>5. QED
        BY <1>2, <1>3, <2>1, <2>3, <3>1, <3>3, <4>3, <4>4, <1>1, GapIncLower
    <3>4. QED
      BY <3>2, <3>3
  <2>4. QED
    BY <2>2, <2>3
<1>17. AckAccounting'
  <2>1. \A r \in Spes, k \in Slots :
          /\ Acked(r, k)' = Acked(r, k) /\ ~Collecting(r, k)'
          /\ (k \in working[r])' = (k \in working[r])
    BY <1>1 DEF Acked, Collecting, memVars, svcVars
  <2>2. \A r \in Spes, k \in Slots :
          r # s => /\ Taken(r, k)' = Taken(r, k)
                   /\ InWindow(r, k)' = InWindow(r, k)
    BY <1>4, <1>6, <1>11, <1>12 DEF Taken, InWindow, Ahead
  <2>3. \A k \in Slots :
          k # b => /\ Taken(s, k)' = Taken(s, k)
                   /\ InWindow(s, k)' = InWindow(s, k)
    BY <1>2, <1>8, <1>9, <1>10, <1>13 DEF Taken, InWindow
  <2>4. ~Taken(s, b)'
    <3>1. Ahead(s, b)' = MaxEntries - 1
      BY <1>2, <1>3, GapWidest DEF Ahead
    <3>2. Ahead(s, t)' \in 0 .. (MaxEntries - 1)
      <4>1. t' = t
        BY <1>6
      <4>2. QED
        BY <1>2, <1>3, <4>1, GapRange DEF Ahead
    <3>3. QED
      BY <3>1, <3>2, EntriesAssumption DEF Taken
  <2>5. b \notin working[s] /\ ~Acked(s, b)
    BY <1>1, <1>2 DEF RingInv, AckAccounting, Collecting
  <2>6. QED
    BY <2>1, <2>2, <2>3, <2>4, <2>5 DEF RingInv, AckAccounting
<1>18. QED
  BY <1>7, <1>14, <1>15, <1>16, <1>17 DEF RingInv



(* stage1: the SPE takes the first slot it has not taken.                  *)
LEMMA TakeStep ==
  ASSUME RingInv, UNCHANGED hostVars, NEW s \in Spes, Take(s), TypeInv'
  PROVE  RingInv'
<1>1. PICK b \in Slots, t \in Slots, w \in Slots :
        /\ b = back[s] /\ BackSlot(s) = b
        /\ t = ringInc(in_back[s], MaxEntries) /\ w = WindowEnd(s)
  BY IndicesInRing, IncInRing
<1>2. /\ UNCHANGED <<appVars, monVars, back, owed, memVars>>
      /\ atomic_state[s] = 1 /\ in_back[s] # atomic_count[s]
      /\ in_back' = [in_back EXCEPT ![s] = t]
      /\ working' = [working EXCEPT ![s] = @ \cup {t}]
  BY <1>1 DEF Take, hostVars
<1>3. \A r \in Spes : /\ WindowEnd(r)' = WindowEnd(r) /\ HasFree(r)' = HasFree(r)
                      /\ BackSlot(r)' = BackSlot(r) /\ Kicked(r)' = Kicked(r)
  BY <1>2 DEF WindowEnd, HasFree, BackSlot, Kicked, appVars, memVars
<1>4. OpenInv' /\ RoomInv' /\ FrontInv'
  BY <1>2, <1>3, AppUntouched DEF memVars
<1>5. OwedInv' /\ MonitorInv'
  BY <1>2 DEF RingInv, OwedInv, MonitorInv, Acked, appVars, monVars, memVars
<1>6. Dist(t, b, MaxEntries) < Dist(w, b, MaxEntries)
  <2>1. t # w
    BY <1>1, <1>2, IndicesInRing, IncInjective DEF WindowEnd
  <2>2. Dist(t, b, MaxEntries) # Dist(w, b, MaxEntries)
    BY <1>1, <2>1, GapUnique
  <2>3. Dist(t, b, MaxEntries) <= Dist(w, b, MaxEntries)
    BY <1>1 DEF RingInv, TakenInv, Ahead, Kicked
  <2>4. QED
    BY <1>1, <2>2, <2>3, GapRange
<1>7. Dist(ringInc(t, MaxEntries), b, MaxEntries) = Dist(t, b, MaxEntries) + 1
  <2>1. Dist(t, b, MaxEntries) # MaxEntries - 1
    BY <1>1, <1>6, GapRange, EntriesAssumption
  <2>2. QED
    BY <1>1, <2>1, GapWidest, GapIncUpper
<1>8. in_back'[s] = t /\ \A r \in Spes : r # s => in_back'[r] = in_back[r]
  BY <1>2 DEF RingInv, TypeInv, TypeOK, SvcTypeOK
<1>9. TakenInv'
  <2> SUFFICES ASSUME NEW r \in Spes
               PROVE  Ahead(r, ringInc(in_back[r], MaxEntries))' <= Kicked(r)'
      BY DEF TakenInv
  <2>1. CASE r = s
    <3>1. Ahead(s, ringInc(in_back[s], MaxEntries))' = Dist(t, b, MaxEntries) + 1
      BY <1>1, <1>3, <1>7, <1>8 DEF Ahead
    <3>2. Kicked(s)' = Dist(w, b, MaxEntries)
      BY <1>1, <1>3 DEF Kicked
    <3>3. QED
      BY <1>1, <1>6, <2>1, <3>1, <3>2, GapRange
  <2>2. CASE r # s
    BY <1>3, <1>8, <2>2 DEF RingInv, TakenInv, Ahead
  <2>3. QED
    BY <2>1, <2>2
<1>10. AckAccounting'
  <2>1. \A r \in Spes, k \in Slots :
          /\ Acked(r, k)' = Acked(r, k) /\ Collecting(r, k)' = Collecting(r, k)
          /\ Ahead(r, k)' = Ahead(r, k) /\ InWindow(r, k)' = InWindow(r, k)
    BY <1>2, <1>3 DEF Acked, Collecting, Ahead, InWindow, memVars, monVars
  <2>2. \A r \in Spes, k \in Slots :
          r # s => /\ Taken(r, k)' = Taken(r, k)
                   /\ (k \in working[r])' = (k \in working[r])
    BY <1>2, <1>3, <1>8 DEF Taken, Ahead, RingInv, TypeInv, TypeOK, SvcTypeOK
  <2>3. \A k \in Slots :
          /\ Taken(s, k) <=> Dist(k, b, MaxEntries) < Dist(t, b, MaxEntries)
          /\ Taken(s, k)' <=> Dist(k, b, MaxEntries) < Dist(t, b, MaxEntries) + 1
          /\ InWindow(s, k)' <=> Dist(k, b, MaxEntries) < Dist(w, b, MaxEntries)
          /\ (k \in working[s])' <=> k \in working[s] \/ k = t
    <3>1. \A k \in Slots : Taken(s, k) <=>
                             Dist(k, b, MaxEntries) < Dist(t, b, MaxEntries)
      BY <1>1 DEF Taken, Ahead
    <3>2. \A k \in Slots : Taken(s, k)' <=>
                             Dist(k, b, MaxEntries) < Dist(t, b, MaxEntries) + 1
      BY <1>1, <1>3, <1>7, <1>8 DEF Taken, Ahead
    <3>3. \A k \in Slots : InWindow(s, k)' <=>
                             Dist(k, b, MaxEntries) < Dist(w, b, MaxEntries)
      BY <1>1, <1>3 DEF InWindow, Ahead, Kicked
    <3>4. \A k \in Slots : (k \in working[s])' <=> k \in working[s] \/ k = t
      BY <1>2 DEF RingInv, TypeInv, TypeOK, SvcTypeOK
    <3>5. QED
      BY <3>1, <3>2, <3>3, <3>4
  <2>4. ~Taken(s, t) /\ Taken(s, t)'
    BY <1>1, <2>3, GapRange
  <2>5. \A k \in Slots : Taken(s, k) => Taken(s, k)'
    BY <1>1, <2>3, GapRange
  <2>6. \A k \in Slots : Taken(s, k)' => InWindow(s, k)'
    BY <1>1, <1>6, <2>3, GapRange
  <2>7. QED
    BY <2>1, <2>2, <2>3, <2>4, <2>5, <2>6 DEF RingInv, AckAccounting
<1>11. QED
  BY <1>4, <1>5, <1>9, <1>10 DEF RingInv

(* stage4: the SPE acknowledges a slot it works on.                        *)
LEMMA AcknowledgeStep ==
  ASSUME RingInv, UNCHANGED hostVars, NEW s \in Spes, NEW k \in Slots,
         Acknowledge(s, k), TypeInv'
  PROVE  RingInv'
<1>1. PICK x \in AckWords : ack_fifo' = [ack_fifo EXCEPT ![s][k] = x]
  BY DEF Acknowledge
<1>2. /\ UNCHANGED <<appVars, monVars, back, owed, in_back>>
      /\ UNCHANGED <<atomic_count, atomic_state>>
      /\ working' = [working EXCEPT ![s] = @ \ {k}] /\ k \in working[s]
  BY DEF Acknowledge, hostVars
<1>3. \A r \in Spes : WindowEnd(r)' = WindowEnd(r) /\ HasFree(r)' = HasFree(r)
  BY <1>2 DEF WindowEnd, HasFree, appVars
<1>4. OpenInv' /\ RoomInv' /\ FrontInv'
  BY <1>2, <1>3, AppUntouched
<1>5. TakenInv' /\ OwedInv'
  BY <1>2 DEF RingInv, TakenInv, OwedInv, Ahead, Kicked, WindowEnd, BackSlot,
     appVars
<1>6. Taken(s, k) /\ ~Acked(s, k) /\ ~Collecting(s, k)
  BY <1>2 DEF RingInv, AckAccounting
<1>7. \A r \in Spes, j \in Slots :
        ~(r = s /\ j = k) =>
          Acked(r, j)' = Acked(r, j) /\ (j \in working[r])' = (j \in working[r])
  BY <1>1, <1>2 DEF Acked, RingInv, TypeInv, TypeOK, MemTypeOK, SvcTypeOK
<1>8. MonitorInv'
  BY <1>2, <1>6, <1>7, IndicesInRing
  DEF RingInv, MonitorInv, TypeInv, TypeOK, HostTypeOK, monVars
<1>9. AckAccounting'
  <2>1. \A r \in Spes, j \in Slots :
          /\ Taken(r, j)' = Taken(r, j) /\ InWindow(r, j)' = InWindow(r, j)
          /\ Collecting(r, j)' = Collecting(r, j)
    BY <1>2 DEF Taken, InWindow, Collecting, Ahead, Kicked, WindowEnd, BackSlot,
       monVars
  <2>2. k \notin working'[s]
    BY <1>2 DEF RingInv, TypeInv, TypeOK, SvcTypeOK
  <2>3. QED
    BY <1>6, <1>7, <2>1, <2>2 DEF RingInv, AckAccounting
<1>10. QED
  BY <1>4, <1>5, <1>8, <1>9 DEF RingInv



-----------------------------------------------------------------------------
(* The invariant is inductive.                                             *)
LEMMA RingStep ==
  ASSUME Client \in {"disciplined", "draining"}, IncBackStores = 1
  PROVE  RingInv /\ [Next]_vars => RingInv'
<1> SUFFICES ASSUME RingInv, [Next]_vars PROVE RingInv'
    OBVIOUS
<1>0. TypeInv'
  BY TypeStep DEF RingInv
<1>1. CASE /\ UNCHANGED svcVars
           /\ \/ CallBegin \/ selectfifo \/ SendFrontRetry \/ CallRegister
              \/ CallWait \/ fifoWait \/ fifoIsEmpty
              \/ \E s \in Spes : fifoAdd(s) \/ fifoKick(s)
  BY <1>0, <1>1, QuietStep
<1>2. CASE (\E command \in Commands : fifoBegin(command)) /\ UNCHANGED svcVars
  BY <1>0, <1>2, BeginStep
<1>3. CASE SendFrontState /\ UNCHANGED svcVars
  BY <1>0, <1>3, SendStateStep
<1>4. CASE SendFrontCount /\ UNCHANGED svcVars
  BY <1>0, <1>4, SendCountStep
<1>5. CASE KickDone /\ UNCHANGED svcVars
  BY <1>0, <1>5, KickDoneStep
<1>6. CASE fifoRegisterProgram /\ UNCHANGED svcVars
  BY <1>0, <1>6, RegisterStep
<1>7. CASE MonRead /\ UNCHANGED svcVars
  BY <1>0, <1>7, MonReadStep
<1>8. CASE MonClear /\ UNCHANGED svcVars
  BY <1>0, <1>8, MonClearStep
<1>9. CASE MonInc /\ UNCHANGED svcVars
  BY <1>0, <1>9, MonIncStep
<1>10. CASE MonWrap /\ UNCHANGED svcVars
  BY <1>10 DEF MonWrap, RingInv, MonitorInv
<1>11. CASE (\E s \in Spes : Take(s)) /\ UNCHANGED hostVars
  BY <1>0, <1>11, TakeStep
<1>12. CASE (\E s \in Spes, k \in Slots : Acknowledge(s, k)) /\ UNCHANGED hostVars
  BY <1>0, <1>12, AcknowledgeStep
<1>13. CASE UNCHANGED vars
  <2>1. TakenInv' /\ OwedInv' /\ MonitorInv' /\ AckAccounting'
    BY <1>13, RingsUntouched DEF vars, hostVars, appVars, memVars
  <2>2. OpenInv' /\ RoomInv' /\ FrontInv'
    BY <1>13, AppUntouched DEF vars, hostVars, appVars, memVars, HasFree
  <2>3. QED
    BY <1>0, <2>1, <2>2 DEF RingInv
<1>14. QED
  BY <1>1, <1>2, <1>3, <1>4, <1>5, <1>6, <1>7, <1>8, <1>9, <1>10, <1>11,
     <1>12, <1>13
  DEF Next, HostNext, AppInside, AppCall, fifothread, SvcNext

(***************************************************************************)
(* With an application that kicks each entry before it begins the next and *)
(* a ringIncBack that stores once, the indices of the application, the     *)
(* lock line, the SPE and fifothread keep their order around the ring.     *)
(***************************************************************************)
THEOREM RingInvariant ==
  ASSUME Client \in {"disciplined", "draining"}, IncBackStores = 1
  PROVE  Spec => []RingInv
<1>1. RingInv /\ [Next]_vars => RingInv'
  BY RingStep
<1>2. QED
  BY <1>1, RingInit, PTL DEF Spec

(***************************************************************************)
(* No acknowledgement is stale, doubled or ahead of its task, for any      *)
(* number of SPEs, any size of the fifos and any order of the steps.       *)
(***************************************************************************)
THEOREM AcksAccountedFor ==
  ASSUME Client \in {"disciplined", "draining"}, IncBackStores = 1
  PROVE  Spec => []AckAccounting
<1>1. Spec => []RingInv
  BY RingInvariant
<1>2. RingInv => AckAccounting
  BY DEF RingInv
<1>3. QED
  BY <1>1, <1>2, PTL

(***************************************************************************)
(* selectfifo returns a ring that has room, whatever fifothread does       *)
(* between its test and the first store of fifoBegin.                      *)
(***************************************************************************)
THEOREM SelectIsSafe ==
  ASSUME Client \in {"disciplined", "draining"}, IncBackStores = 1
  PROVE  Spec => []SelectFindsFree
<1>1. Spec => []RingInv
  BY RingInvariant
<1>2. RingInv => SelectFindsFree
  <2> SUFFICES ASSUME RingInv, app_pc = "fill"
               PROVE  owed[current_spe] < MaxEntries - 1
      BY DEF SelectFindsFree
  <2>1. PICK s \in Spes : s = current_spe
    BY DEF RingInv, TypeInv, TypeOK, HostTypeOK
  <2>2. isKicked[s] = 1 /\ HasFree(s)
    BY <2>1 DEF RingInv, OpenInv, RoomInv, AllKicked
  <2>3. owed[s] = Dist(front[s], back[s], MaxEntries)
    BY <2>2 DEF RingInv, OwedInv
  <2>4. QED
    BY <2>1, <2>2, <2>3, IndicesInRing, HasFreeIsRoom, GapWidest, GapRange,
       EntriesAssumption
<1>3. QED
  BY <1>1, <1>2, PTL

(***************************************************************************)
(* The slot that fifoBegin and fifoAdd write is not shown to the SPE.      *)
(***************************************************************************)
THEOREM OpenSlotSafe ==
  ASSUME Client \in {"disciplined", "draining"}, IncBackStores = 1
  PROVE  Spec => []OpenSlotIsPrivate
<1>1. Spec => []RingInv
  BY RingInvariant
<1>2. RingInv => OpenSlotIsPrivate
  <2> SUFFICES ASSUME RingInv, NEW s \in Spes, ~Kicking(s)
               PROVE  ~InWindow(s, front[s])
      BY DEF OpenSlotIsPrivate
  <2>1. WindowEnd(s) = front[s]
    BY DEF RingInv, FrontInv
  <2>2. QED
    BY <2>1, IndicesInRing, GapRange DEF InWindow, Ahead, Kicked
<1>3. QED
  BY <1>1, <1>2, PTL
=============================================================================
