--------------------------- MODULE SpeFifoProofs ----------------------------
(***************************************************************************)
(* Proofs about SpeFifo: the whole task fifo implements HostSystem, where  *)
(* the SPEs are what SpeService promises, and SpuSystem, where the PPU is  *)
(* what PpuService promises.  Each half needs what the other one keeps:    *)
(* the pipeline takes only what the lock line shows, which is what the PPU *)
(* put there, and the PPU reuses a slot only when its acknowledgement has  *)
(* come, which is what the pipeline sent.  So the two inductive            *)
(* invariants, RingInv of HostSystem and PipeInv of SpuSystem, are carried *)
(* through every step together.                                            *)
(***************************************************************************)
EXTENDS SpeFifo, TLAPS

(* What the refinement mappings of SpeFifo put for the variables of the    *)
(* two services.                                                           *)
SvcBack == [s \in Spes |-> IF spu_pc[s] = "boot" THEN MaxEntries - 1
                                                 ELSE in_back[s]]
SvcWorking == [s \in Spes |-> Working(s)]

(* The slot after the last one that the lock line shows.                   *)
ShownEnd(s) ==
  IF atomic_state[s] = 0 THEN 0 ELSE ringInc(atomic_count[s], MaxEntries)

PpuCollected ==
  [s \in Spes |-> IF mon_pc = "inc" /\ mon_spe = s
                    THEN ringInc(back[s], MaxEntries) ELSE back[s]]
PpuFilled == [s \in Spes |-> isKicked[s] = 0 /\ front[s] = ShownEnd(s)]

HP == INSTANCE HostQueueProofs WITH
        in_back <- SvcBack, working <- SvcWorking

PP == INSTANCE SpuSystemProofs WITH
        Commands <- Commands \cup {REGISTER_PROGRAM},
        collected <- PpuCollected, filled <- PpuFilled

-----------------------------------------------------------------------------
(* HostSystem and SpuSystem contain the same actions as SpeFifo: reached   *)
(* through an instance, an action that names no variable of a service is   *)
(* the action itself.  First the steps of the PPU.                         *)
LEMMA HostSteps == HostNext <=> HP!HostNext
  BY Zenon
  DEF HostNext, AppInside, AppCall, fifothread, selectfifo, fifoBegin,
      SendFrontState, SendFrontCount, SendFrontRetry, KickDone,
      fifoRegisterProgram, fifoWait, fifoIsEmpty, CallBegin, fifoAdd, fifoKick,
      CallRegister, CallWait, MonRead, MonClear, MonInc, MonWrap, MayBegin,
      MayRegister, AllKicked, Drained, HasFree, HasRemaining, nextSpe, BeginSlot,
      fifoWaitRes, appVars, monVars, memVars, ringInc, ringHasFree,
      ringHasRemaining, MaxEntries, TaskWords, Spes, REGISTER_PROGRAM, ACK_CLEAR,
      HP!HostNext, HP!AppInside, HP!AppCall, HP!fifothread, HP!selectfifo,
      HP!fifoBegin, HP!SendFrontState, HP!SendFrontCount, HP!SendFrontRetry,
      HP!KickDone, HP!fifoRegisterProgram, HP!fifoWait, HP!fifoIsEmpty,
      HP!CallBegin, HP!fifoAdd, HP!fifoKick, HP!CallRegister, HP!CallWait,
      HP!MonRead, HP!MonClear, HP!MonInc, HP!MonWrap, HP!MayBegin,
      HP!MayRegister, HP!AllKicked, HP!Drained, HP!HasFree, HP!HasRemaining,
      HP!nextSpe, HP!BeginSlot, HP!fifoWaitRes, HP!appVars, HP!monVars,
      HP!memVars, HP!ringInc, HP!ringHasFree, HP!ringHasRemaining,
      HP!MaxEntries, HP!TaskWords, HP!Spes, HP!REGISTER_PROGRAM, HP!ACK_CLEAR

(* The steps of the SPEs.                                                  *)
LEMMA SpuSteps == SpuNext <=> PP!SpuNext
  BY Zenon
  DEF SpuNext, pipeline, Mfc, MfcTag, SpuMain, stage1, stage2, stage3, stage4,
      MfcGet, MfcPut, check_tasks, increment, Context, Lookup, TagDone,
      RetiredActive, NextCycle, Unfetched, memVars, MaxEntries, Spes, Ctx,
      STAGES, REGISTER_PROGRAM,
      PP!SpuNext, PP!pipeline, PP!Mfc, PP!MfcTag, PP!SpuMain, PP!stage1,
      PP!stage2, PP!stage3, PP!stage4, PP!MfcGet, PP!MfcPut, PP!check_tasks,
      PP!increment, PP!Context, PP!Lookup, PP!TagDone, PP!RetiredActive,
      PP!NextCycle, PP!Unfetched, PP!memVars, PP!MaxEntries, PP!Spes, PP!Ctx,
      PP!STAGES, PP!REGISTER_PROGRAM

(* The initial states of HostSystem, and when its variables stay.          *)
LEMMA HostNames ==
  /\ HP!Init <=> allocate_fifo /\ fifoInit
                   /\ SvcBack = [s \in Spes |-> MaxEntries - 1]
                   /\ SvcWorking = [s \in Spes |-> {}]
  /\ UNCHANGED HP!vars <=> UNCHANGED <<hostVars, SvcBack, SvcWorking, memVars>>
  /\ UNCHANGED HP!svcVars <=> UNCHANGED <<SvcBack, SvcWorking>>
  /\ UNCHANGED HP!hostVars <=> UNCHANGED hostVars
  BY Zenon
  DEF allocate_fifo, fifoInit, hostVars, appVars, monVars, memVars, Spes, Slots,
      MaxEntries, ACK_CLEAR, HP!Init, HP!allocate_fifo, HP!fifoInit, HP!SvcInit,
      HP!vars, HP!svcVars, HP!hostVars, HP!appVars, HP!monVars, HP!memVars,
      HP!Spes, HP!Slots, HP!MaxEntries, HP!ACK_CLEAR

(* The initial states of SpuSystem, and when its variables stay.           *)
LEMMA SpuNames ==
  /\ PP!Init <=> allocate_fifo /\ SpuInit
                   /\ PpuCollected = [s \in Spes |-> 0]
                   /\ PpuFilled = [s \in Spes |-> FALSE]
  /\ UNCHANGED PP!vars <=> UNCHANGED <<PpuCollected, PpuFilled, spuVars, memVars>>
  /\ UNCHANGED PP!ppuVars <=> UNCHANGED <<PpuCollected, PpuFilled>>
  /\ UNCHANGED PP!spuVars <=> UNCHANGED spuVars
  BY Zenon
  DEF allocate_fifo, SpuInit, spuVars, memVars, Spes, Slots, Ctx, STAGES,
      MaxEntries, ACK_CLEAR, NoSlot, Unfetched, PP!Init, PP!allocate_fifo,
      PP!PpuInit, PP!SpuInit, PP!vars, PP!ppuVars, PP!spuVars, PP!memVars,
      PP!Spes, PP!Slots, PP!Ctx, PP!STAGES, PP!MaxEntries, PP!ACK_CLEAR,
      PP!NoSlot, PP!Unfetched

(* What makes a step of the SPE of SpeService: it takes a slot,            *)
LEMMA TakeStep ==
  ASSUME NEW s \in Spes,
         atomic_state[s] = 1, SvcBack[s] # atomic_count[s],
         SvcBack' = [SvcBack EXCEPT ![s] = ringInc(SvcBack[s], MaxEntries)],
         SvcWorking' = [SvcWorking EXCEPT
                          ![s] = @ \cup {ringInc(SvcBack[s], MaxEntries)}],
         UNCHANGED memVars
  PROVE  HP!SvcNext
  BY Zenon
  DEF HP!SvcNext, HP!Take, HP!memVars, HP!ringInc, HP!MaxEntries, HP!Spes,
      memVars, ringInc, MaxEntries, Spes

(* or it acknowledges one.                                                 *)
LEMMA AcknowledgeStep ==
  ASSUME NEW s \in Spes, NEW k \in Slots, NEW w \in AckWords,
         k \in SvcWorking[s],
         ack_fifo' = [ack_fifo EXCEPT ![s][k] = w],
         SvcWorking' = [SvcWorking EXCEPT ![s] = @ \ {k}],
         UNCHANGED <<SvcBack, task_fifo, atomic_count, atomic_state>>
  PROVE  HP!SvcNext
  BY Zenon
  DEF HP!SvcNext, HP!Acknowledge, HP!MaxEntries, HP!Spes, HP!Slots, MaxEntries,
      Spes, Slots

(* What makes a step of the PPU of PpuService: it fills the next slot,     *)
LEMMA FillStep ==
  ASSUME NEW s \in Spes, NEW command \in Commands \cup {REGISTER_PROGRAM},
         ~PpuFilled[s],
         ringHasFree(ShownEnd(s), PpuCollected[s], MaxEntries),
         task_fifo' = [task_fifo EXCEPT ![s][ShownEnd(s)] = command],
         PpuFilled' = [PpuFilled EXCEPT ![s] = TRUE],
         UNCHANGED <<PpuCollected, ack_fifo, atomic_count, atomic_state>>
  PROVE  PP!PpuNext
  BY Zenon
  DEF PP!PpuNext, PP!Fill, PP!NextSlot, PP!ringHasFree, PP!ringInc,
      PP!MaxEntries, PP!Spes, ShownEnd, ringHasFree, ringInc, MaxEntries, Spes

(* shows it,                                                               *)
LEMMA ShowStep ==
  ASSUME NEW s \in Spes,
         PpuFilled[s],
         atomic_state' = [atomic_state EXCEPT ![s] = 1],
         atomic_count' = [atomic_count EXCEPT ![s] = ShownEnd(s)],
         PpuFilled' = [PpuFilled EXCEPT ![s] = FALSE],
         UNCHANGED <<PpuCollected, task_fifo, ack_fifo>>
  PROVE  PP!PpuNext
  BY Zenon
  DEF PP!PpuNext, PP!Show, PP!NextSlot, PP!ringInc, PP!MaxEntries, PP!Spes,
      ShownEnd, ringInc, MaxEntries, Spes

(* or collects an acknowledgement.                                         *)
LEMMA CollectStep ==
  ASSUME NEW s \in Spes,
         ack_fifo[s][PpuCollected[s]] # ACK_CLEAR,
         ack_fifo' = [ack_fifo EXCEPT ![s][PpuCollected[s]] = ACK_CLEAR],
         PpuCollected' = [PpuCollected EXCEPT ![s] = ringInc(@, MaxEntries)],
         UNCHANGED <<PpuFilled, task_fifo, atomic_count, atomic_state>>
  PROVE  PP!PpuNext
  BY Zenon
  DEF PP!PpuNext, PP!Collect, PP!ringInc, PP!MaxEntries, PP!Spes, PP!ACK_CLEAR,
      ringInc, MaxEntries, Spes, ACK_CLEAR

-----------------------------------------------------------------------------
(* What RingInv says of the two indices, the lock line and the room, in    *)
(* the terms of SpeFifo.                                                   *)
LEMMA RingFacts ==
  ASSUME HP!RingInv
  PROVE  /\ MemTypeOK /\ HostTypeOK
         /\ back \in [Spes -> Slots]
         /\ mon_pc # "wrap"
         /\ mon_pc = "clear" => ack_fifo[mon_spe][back[mon_spe]] # ACK_CLEAR
         /\ mon_pc = "inc" => ShownEnd(mon_spe) # back[mon_spe]
         /\ app_pc \in {"fill", "register"} => AllKicked
         /\ app_pc = "fill" => HasFree(current_spe)
         /\ app_pc = "register" => HasFree(app_spe)
         /\ app_pc \in {"lock", "stwcx", "inc"} => isKicked[app_spe] = 0
         /\ \A s \in Spes : atomic_state[s] = 0 => atomic_count[s] = 0 /\ front[s] = 0
         /\ \A s \in Spes : ~Kicking(s) => ShownEnd(s) = front[s]
         /\ \A s \in Spes : Kicking(s) =>
              ShownEnd(s) \in {front[s], ringInc(front[s], MaxEntries)}
         /\ app_pc \in {"stwcx", "inc"} => atomic_state[app_spe] = 1
         /\ app_pc = "inc" =>
              ShownEnd(app_spe) = ringInc(front[app_spe], MaxEntries)
<1>1. /\ HP!TypeInv /\ HP!OpenInv /\ HP!RoomInv /\ HP!FrontInv /\ HP!MonitorInv
      /\ HP!AckAccounting
  BY DEF HP!RingInv
<1>2. /\ HP!MaxEntries = MaxEntries /\ HP!TaskWords = TaskWords
      /\ HP!Spes = Spes /\ HP!Slots = Slots
      /\ \A x, n : HP!ringInc(x, n) = ringInc(x, n)
  BY Zenon DEF HP!MaxEntries, MaxEntries, HP!TaskWords, TaskWords, HP!Spes, Spes,
      HP!Slots, Slots, HP!ringInc, ringInc
<1>3. MemTypeOK /\ HostTypeOK
  BY <1>1, <1>2, Zenon DEF HP!TypeInv, HP!TypeOK, HP!MemTypeOK, HP!HostTypeOK,
      MemTypeOK, HostTypeOK, HP!CommandWords, CommandWords, HP!REGISTER_PROGRAM,
      REGISTER_PROGRAM, HP!ACK_CLEAR, ACK_CLEAR, HP!ACK_OTHER, ACK_OTHER,
      HP!AppPcs, AppPcs, HP!MonPcs, MonPcs
<1>4. mon_pc # "wrap"
  BY <1>1 DEF HP!MonitorInv
<1>5. back \in [Spes -> Slots]
  <2>1. ASSUME NEW s \in Spes PROVE back[s] # MaxEntries
    BY <1>1, <1>2, <1>4 DEF HP!TypeInv
  <2> QED
    BY <1>3, <2>1, EntriesAssumption DEF HostTypeOK, Slots
<1>6. \A s : HP!WindowEnd(s) = ShownEnd(s)
  BY <1>2, Zenon DEF HP!WindowEnd, ShownEnd
<1>7. \A s : (HP!Kicking(s) <=> Kicking(s)) /\ (HP!HasFree(s) <=> HasFree(s))
  BY <1>2, Zenon DEF HP!Kicking, Kicking, HP!HasFree, HasFree, HP!ringHasFree,
      ringHasFree
<1>8. HP!AllKicked <=> AllKicked
  BY <1>2, Zenon DEF HP!AllKicked, AllKicked
<1>9. mon_pc = "inc" => ShownEnd(mon_spe) # back[mon_spe]
  <2> SUFFICES ASSUME mon_pc = "inc" PROVE ShownEnd(mon_spe) # back[mon_spe]
    OBVIOUS
  <2>1. PICK s \in Spes : s = mon_spe
    BY <1>3 DEF HostTypeOK
  <2>2. back[s] \in Slots /\ back[s] # MaxEntries
    BY <1>5, EntriesAssumption DEF Slots
  <2>3. HP!Collecting(s, back[s])
    BY <2>1 DEF HP!Collecting
  <2>4. HP!InWindow(s, back[s])
    BY <1>1, <1>2, <2>2, <2>3 DEF HP!AckAccounting
  <2>5. HP!Dist(back[s], back[s], MaxEntries)
          < HP!Dist(ShownEnd(s), back[s], MaxEntries)
    BY <1>2, <1>6, <2>2, <2>4
    DEF HP!InWindow, HP!Ahead, HP!Kicked, HP!BackSlot
  <2> QED
    BY <2>1, <2>2, <2>5, EntriesAssumption DEF HP!Dist, Slots
<1>10. mon_pc = "clear" => ack_fifo[mon_spe][back[mon_spe]] # ACK_CLEAR
  BY <1>1 DEF HP!MonitorInv, HP!Acked, HP!ACK_CLEAR, ACK_CLEAR
<1>11. app_pc \in {"fill", "register"} => AllKicked
  BY <1>1, <1>8 DEF HP!OpenInv
<1>12. app_pc \in {"lock", "stwcx", "inc"} => isKicked[app_spe] = 0
  BY <1>1, <1>2, <1>3 DEF HP!OpenInv, HostTypeOK
<1>13. /\ app_pc = "fill" => HasFree(current_spe)
       /\ app_pc = "register" => HasFree(app_spe)
  BY <1>1, <1>2, <1>3, <1>7 DEF HP!RoomInv, HP!TypeInv, HostTypeOK
<1>14. ASSUME NEW s \in Spes
       PROVE  /\ atomic_state[s] = 0 => atomic_count[s] = 0 /\ front[s] = 0
              /\ ~Kicking(s) => ShownEnd(s) = front[s]
              /\ Kicking(s) =>
                   ShownEnd(s) \in {front[s], ringInc(front[s], MaxEntries)}
  BY <1>1, <1>2, <1>6, <1>7 DEF HP!FrontInv
<1>15. /\ app_pc \in {"stwcx", "inc"} => atomic_state[app_spe] = 1
       /\ app_pc = "inc" =>
            ShownEnd(app_spe) = ringInc(front[app_spe], MaxEntries)
  <2>1. app_pc \in {"stwcx", "inc"} => app_spe \in Spes /\ Kicking(app_spe)
    BY <1>3 DEF HostTypeOK, Kicking
  <2> QED
    BY <1>1, <1>2, <1>6, <1>7, <2>1 DEF HP!FrontInv
<1> QED
  BY <1>3, <1>4, <1>5, <1>9, <1>10, <1>11, <1>12, <1>13, <1>14, <1>15

(* What PipeInv says of the variables of the SPEs, of what stage1 fetches  *)
(* and of an acknowledgement that is under way.                            *)
LEMMA PipeFacts ==
  ASSUME PP!PipeInv
  PROVE  /\ SpuTypeOK
         /\ \A s \in Spes :
              spu_pc[s] = "stage1" /\ in_back[s] # check_tasks(s) =>
                /\ atomic_state[s] = 1 /\ in_back[s] # atomic_count[s]
                /\ active[s][Context(s, 1)] = 0
         /\ \A s \in Spes : \A d \in dma[s] : d.op = "put" =>
              /\ d.slot \in Slots
              /\ \A c \in Ctx : active[s][c] = 1 => entry[s][c] # d.slot
              /\ \A e \in dma[s] : e.op = "put" /\ e.slot = d.slot => e = d
<1>1. /\ PP!MaxEntries = MaxEntries /\ PP!TaskWords = TaskWords
      /\ PP!Spes = Spes /\ PP!Slots = Slots /\ PP!Ctx = Ctx
      /\ PP!STAGES = STAGES /\ PP!CommandWords = CommandWords
      /\ PP!ACK_CLEAR = ACK_CLEAR /\ PP!ACK_OTHER = ACK_OTHER
      /\ PP!REGISTER_PROGRAM = REGISTER_PROGRAM
      /\ \A s : PP!check_tasks(s) = check_tasks(s)
      /\ \A s, n : PP!Context(s, n) = Context(s, n)
  BY Zenon DEF PP!MaxEntries, MaxEntries, PP!TaskWords, TaskWords, PP!Spes, Spes,
      PP!Slots, Slots, PP!Ctx, Ctx, PP!STAGES, STAGES, PP!CommandWords,
      CommandWords, PP!ACK_CLEAR, ACK_CLEAR, PP!ACK_OTHER, ACK_OTHER,
      PP!REGISTER_PROGRAM, REGISTER_PROGRAM, PP!check_tasks, check_tasks,
      PP!Context, Context
<1>2. SpuTypeOK
  BY <1>1, Zenon DEF PP!PipeInv, PP!TypeOK, PP!SpuTypeOK, SpuTypeOK, PP!SpuPcs,
      SpuPcs, PP!Dma, Dma, PP!Tasks, Tasks, PP!Unfetched, Unfetched, PP!NoSlot,
      NoSlot
<1>3. Commands \cup {REGISTER_PROGRAM} \subseteq CommandWords
  BY CommandsAssumption DEF CommandWords
<1>4. ASSUME NEW s \in Spes, spu_pc[s] = "stage1", in_back[s] # check_tasks(s)
      PROVE  /\ atomic_state[s] = 1 /\ in_back[s] # atomic_count[s]
             /\ active[s][Context(s, 1)] = 0
  BY <1>1, <1>3, <1>4, PP!TakesWhatIsShown, SpesAssumption, EntriesAssumption,
     WordsAssumption, CommandsAssumption, AckWordsAssumption, CyclesAssumption,
     LookupsAssumption
<1>5. ASSUME NEW s \in Spes, NEW d \in dma[s], d.op = "put"
      PROVE  /\ d.slot \in Slots
             /\ \A c \in Ctx : active[s][c] = 1 => entry[s][c] # d.slot
             /\ \A e \in dma[s] : e.op = "put" /\ e.slot = d.slot => e = d
  BY <1>1, <1>3, <1>5, PP!PutStandsAlone, SpesAssumption, EntriesAssumption,
     WordsAssumption, CommandsAssumption, AckWordsAssumption, CyclesAssumption,
     LookupsAssumption
<1> QED
  BY <1>2, <1>4, <1>5

-----------------------------------------------------------------------------
(* Zenon does not know the numbers.                                        *)
LEMMA ZeroIsNotOne == 0 # 1
  OBVIOUS

(* Two slots have the same successor only when they are the same slot, and *)
(* no slot is its own successor.                                           *)
LEMMA RingIncInjective ==
  /\ \A i, j \in Slots : ringInc(i, MaxEntries) = ringInc(j, MaxEntries) => i = j
  /\ \A i \in Slots : ringInc(i, MaxEntries) \in Slots \ {i}
  BY EntriesAssumption DEF Slots, ringInc

(* The steps of the application and fifothread that neither move an index  *)
(* nor write to the shared memory change nothing that PpuService speaks of.*)
LEMMA QuietSteps ==
  ASSUME UNCHANGED <<front, isKicked, memVars, back, monVars>>
  PROVE  UNCHANGED <<PpuCollected, PpuFilled, memVars>>
  BY Zenon DEF PpuCollected, PpuFilled, ShownEnd, memVars, monVars

(* A slot of the ring that the application sees free is free for           *)
(* PpuService too: to be just collecting an acknowledgement only makes     *)
(* more room.                                                              *)
LEMMA RoomToFill ==
  ASSUME HP!RingInv, NEW s \in Spes, HasFree(s), ShownEnd(s) = front[s]
  PROVE  ringHasFree(ShownEnd(s), PpuCollected[s], MaxEntries)
<1>1. front[s] \in Slots /\ back[s] \in Slots
  BY RingFacts DEF HostTypeOK
<1>2. CASE mon_pc = "inc" /\ mon_spe = s
  <2>1. PpuCollected[s] = ringInc(back[s], MaxEntries)
    BY <1>2 DEF PpuCollected
  <2>2. front[s] # back[s]
    BY <1>2, RingFacts
  <2>3. ringInc(front[s], MaxEntries) # ringInc(back[s], MaxEntries)
    BY <1>1, <2>2, RingIncInjective
  <2> QED
    BY <2>1, <2>3 DEF ringHasFree, ringInc
<1>3. CASE ~(mon_pc = "inc" /\ mon_spe = s)
  <2>1. PpuCollected[s] = back[s]
    BY <1>3, Zenon DEF PpuCollected
  <2> QED
    BY <2>1 DEF HasFree
<1> QED
  BY <1>2, <1>3

(* fifoBegin fills the slot that selectfifo found free: it is the one      *)
(* after the last kicked slot.                                             *)
LEMMA BeginFills ==
  ASSUME HP!RingInv, NEW command \in Commands, fifoBegin(command)
  PROVE  PP!PpuNext
<1> DEFINE s == current_spe
<1>1. /\ s \in Spes /\ AllKicked /\ HasFree(s) /\ isKicked[s] = 1
      /\ BeginSlot(s) = front[s] /\ ShownEnd(s) = front[s]
      /\ front \in [Spes -> Slots] /\ isKicked \in [Spes -> {0, 1}]
  BY RingFacts DEF fifoBegin, HostTypeOK, AllKicked, BeginSlot, Kicking
<1>2. ~PpuFilled[s]
  BY <1>1, ZeroIsNotOne, Zenon DEF PpuFilled
<1>3. ringHasFree(ShownEnd(s), PpuCollected[s], MaxEntries)
  BY <1>1, RoomToFill
<1>4. task_fifo' = [task_fifo EXCEPT ![s][ShownEnd(s)] = command]
  BY <1>1 DEF fifoBegin
<1>5. PpuFilled' = [PpuFilled EXCEPT ![s] = TRUE]
  <2>1. /\ front' = front /\ isKicked' = [isKicked EXCEPT ![s] = 0]
        /\ UNCHANGED <<atomic_state, atomic_count>>
    BY <1>1 DEF fifoBegin
  <2> QED
    BY <1>1, <2>1 DEF PpuFilled, ShownEnd
<1>6. UNCHANGED <<PpuCollected, ack_fifo, atomic_count, atomic_state>>
  BY DEF fifoBegin, PpuCollected, monVars
<1> HIDE DEF s
<1> QED
  BY <1>1, <1>2, <1>3, <1>4, <1>5, <1>6, FillStep

(* fifoRegisterProgram does not look for room, but a disciplined           *)
(* application calls it only when there is some.                           *)
LEMMA RegisterFills ==
  ASSUME HP!RingInv, fifoRegisterProgram
  PROVE  PP!PpuNext
<1> DEFINE s == app_spe
<1>1. /\ s \in Spes /\ AllKicked /\ HasFree(s) /\ isKicked[s] = 1
      /\ ShownEnd(s) = front[s]
      /\ front \in [Spes -> Slots] /\ isKicked \in [Spes -> {0, 1}]
  BY RingFacts DEF fifoRegisterProgram, HostTypeOK, AllKicked, Kicking
<1>2. ~PpuFilled[s]
  BY <1>1, ZeroIsNotOne, Zenon DEF PpuFilled
<1>3. ringHasFree(ShownEnd(s), PpuCollected[s], MaxEntries)
  BY <1>1, RoomToFill
<1>4. task_fifo' = [task_fifo EXCEPT ![s][ShownEnd(s)] = REGISTER_PROGRAM]
  BY <1>1 DEF fifoRegisterProgram
<1>5. PpuFilled' = [PpuFilled EXCEPT ![s] = TRUE]
  <2>1. /\ front' = front /\ isKicked' = [isKicked EXCEPT ![s] = 0]
        /\ UNCHANGED <<atomic_state, atomic_count>>
    BY <1>1 DEF fifoRegisterProgram
  <2> QED
    BY <1>1, <2>1 DEF PpuFilled, ShownEnd
<1>6. UNCHANGED <<PpuCollected, ack_fifo, atomic_count, atomic_state>>
  BY DEF fifoRegisterProgram, PpuCollected, monVars
<1> HIDE DEF s
<1> QED
  BY <1>1, <1>2, <1>3, <1>4, <1>5, <1>6, FillStep, Zenon

(* The store to state shows slot 0 the first time; later it changes        *)
(* nothing.                                                                *)
LEMMA StateShows ==
  ASSUME HP!RingInv, SendFrontState
  PROVE  PP!PpuNext \/ UNCHANGED <<PpuCollected, PpuFilled, memVars>>
<1>0. PICK s \in Spes : s = app_spe
  BY RingFacts DEF SendFrontState, HostTypeOK
<1>1. /\ isKicked[s] = 0 /\ Kicking(s)
      /\ front \in [Spes -> Slots] /\ atomic_state \in [Spes -> {0, 1}]
      /\ atomic_count \in [Spes -> Slots]
  BY <1>0, RingFacts DEF SendFrontState, HostTypeOK, MemTypeOK, Kicking
<1>2. /\ atomic_state' = [atomic_state EXCEPT ![s] = 1]
      /\ UNCHANGED <<front, isKicked, back, mon_pc, mon_spe, task_fifo, ack_fifo,
                     atomic_count>>
  BY <1>0 DEF SendFrontState, monVars
<1>3. PpuCollected' = PpuCollected
  BY <1>2 DEF PpuCollected
<1>4. CASE atomic_state[s] = 0
  <2>1. atomic_count[s] = 0 /\ front[s] = 0 /\ ShownEnd(s) = 0
    BY <1>1, <1>4, RingFacts DEF ShownEnd
  <2>2. PpuFilled[s]
    BY <1>1, <2>1, Zenon DEF PpuFilled
  <2>3. atomic_count' = [atomic_count EXCEPT ![s] = ShownEnd(s)]
    BY <1>1, <1>2, <2>1
  <2>4. ShownEnd(s)' # front[s]
    BY <1>1, <1>2, <2>1, EntriesAssumption DEF ShownEnd, ringInc
  <2>5. ASSUME NEW r \in Spes, r # s PROVE ShownEnd(r)' = ShownEnd(r)
    BY <1>1, <1>2, <2>5 DEF ShownEnd
  <2>6. PpuFilled' = [PpuFilled EXCEPT ![s] = FALSE]
    BY <1>1, <1>2, <2>4, <2>5 DEF PpuFilled
  <2> QED
    BY <1>1, <1>2, <1>3, <2>2, <2>3, <2>6, ShowStep
<1>5. CASE atomic_state[s] = 1
  <2>1. atomic_state' = atomic_state
    BY <1>1, <1>2, <1>5
  <2> QED
    BY <1>2, <2>1, QuietSteps DEF memVars, monVars
<1> QED
  BY <1>1, <1>4, <1>5

(* The store conditional shows the slot at front, unless an earlier store  *)
(* to state has.                                                           *)
LEMMA CountShows ==
  ASSUME HP!RingInv, SendFrontCount
  PROVE  PP!PpuNext \/ UNCHANGED <<PpuCollected, PpuFilled, memVars>>
<1>0. PICK s \in Spes : s = app_spe
  BY RingFacts DEF SendFrontCount, HostTypeOK
<1>1. /\ isKicked[s] = 0 /\ Kicking(s) /\ atomic_state[s] = 1
      /\ front \in [Spes -> Slots] /\ atomic_state \in [Spes -> {0, 1}]
      /\ atomic_count \in [Spes -> Slots]
  BY <1>0, RingFacts DEF SendFrontCount, HostTypeOK, MemTypeOK, Kicking
<1>2. /\ atomic_count' = [atomic_count EXCEPT ![s] = front[s]]
      /\ UNCHANGED <<front, isKicked, back, mon_pc, mon_spe, task_fifo, ack_fifo,
                     atomic_state>>
  BY <1>0 DEF SendFrontCount, monVars
<1>3. PpuCollected' = PpuCollected
  BY <1>2 DEF PpuCollected
<1>4. CASE ShownEnd(s) = front[s]
  <2>1. PpuFilled[s]
    BY <1>1, <1>4, Zenon DEF PpuFilled
  <2>2. atomic_state' = [atomic_state EXCEPT ![s] = 1]
    BY <1>1, <1>2
  <2>3. ShownEnd(s)' # front[s]
    BY <1>1, <1>2, RingIncInjective DEF ShownEnd
  <2>4. ASSUME NEW r \in Spes, r # s PROVE ShownEnd(r)' = ShownEnd(r)
    BY <1>1, <1>2, <2>4 DEF ShownEnd
  <2>5. PpuFilled' = [PpuFilled EXCEPT ![s] = FALSE]
    BY <1>1, <1>2, <2>3, <2>4 DEF PpuFilled
  <2> QED
    BY <1>1, <1>2, <1>3, <1>4, <2>1, <2>2, <2>5, ShowStep
<1>5. CASE ShownEnd(s) # front[s]
  <2>1. ringInc(atomic_count[s], MaxEntries) = ringInc(front[s], MaxEntries)
    BY <1>1, <1>5, RingFacts DEF ShownEnd
  <2>2. atomic_count[s] = front[s]
    BY <1>1, <2>1, RingIncInjective
  <2>3. atomic_count' = atomic_count
    BY <1>1, <1>2, <2>2
  <2> QED
    BY <1>2, <2>3, QuietSteps DEF memVars, monVars
<1> QED
  BY <1>4, <1>5

(* The rest of fifoKick moves front to the slot after the one shown.       *)
LEMMA KickDoneQuiet ==
  ASSUME HP!RingInv, KickDone
  PROVE  UNCHANGED <<PpuCollected, PpuFilled, memVars>>
<1> DEFINE s == app_spe
<1>1. /\ s \in Spes /\ isKicked[s] = 0 /\ front \in [Spes -> Slots]
      /\ isKicked \in [Spes -> {0, 1}]
      /\ ShownEnd(s) = ringInc(front[s], MaxEntries)
  BY RingFacts DEF KickDone, HostTypeOK
<1>2. /\ isKicked' = [isKicked EXCEPT ![s] = 1]
      /\ front' = [front EXCEPT ![s] = ringInc(front[s], MaxEntries)]
      /\ UNCHANGED <<mon_pc, mon_spe, back, memVars>>
  BY DEF KickDone, monVars
<1>3. PpuCollected' = PpuCollected
  BY <1>2 DEF PpuCollected
<1>4. ShownEnd(s) # front[s]
  BY <1>1, RingIncInjective
<1>5. ASSUME NEW r \in Spes PROVE ShownEnd(r)' = ShownEnd(r)
  BY <1>2 DEF ShownEnd, memVars
<1>6. PpuFilled' = PpuFilled
  BY <1>1, <1>2, <1>4, <1>5 DEF PpuFilled
<1> QED
  BY <1>2, <1>3, <1>6

(* fifothread collects when it clears the word; then it moves back.        *)
LEMMA MonitorCollects ==
  ASSUME HP!RingInv, fifothread, IncBackStores = 1
  PROVE  PP!PpuNext \/ UNCHANGED <<PpuCollected, PpuFilled, memVars>>
<1> DEFINE s == mon_spe
<1>1. s \in Spes /\ back \in [Spes -> Slots] /\ mon_pc # "wrap"
  BY RingFacts DEF HostTypeOK
<1>2. /\ UNCHANGED <<front, isKicked, task_fifo, atomic_count, atomic_state>>
      /\ PpuFilled' = PpuFilled
  <2>1. UNCHANGED <<front, isKicked, task_fifo, atomic_count, atomic_state>>
    BY DEF fifothread, MonRead, MonClear, MonInc, MonWrap, appVars, memVars
  <2> QED
    BY <2>1 DEF PpuFilled, ShownEnd
<1>3. CASE MonRead
  <2>1. /\ mon_pc = "read" /\ mon_pc' \in {"read", "clear"}
        /\ UNCHANGED <<back, memVars>>
    BY <1>3 DEF MonRead
  <2>2. PpuCollected' = PpuCollected
    BY <2>1 DEF PpuCollected
  <2> QED
    BY <1>2, <2>1, <2>2
<1>4. CASE MonClear
  <2>1. /\ mon_pc = "clear" /\ mon_pc' = "inc" /\ UNCHANGED <<mon_spe, back>>
        /\ ack_fifo' = [ack_fifo EXCEPT ![s][back[s]] = ACK_CLEAR]
        /\ ack_fifo[s][back[s]] # ACK_CLEAR
    BY <1>4, RingFacts DEF MonClear
  <2>2. PpuCollected = back
    BY <1>1, <2>1 DEF PpuCollected
  <2>3. PpuCollected' = [PpuCollected EXCEPT ![s] = ringInc(@, MaxEntries)]
    BY <1>1, <2>1, <2>2 DEF PpuCollected
  <2> HIDE DEF s
  <2> QED
    BY <1>1, <1>2, <2>1, <2>2, <2>3, CollectStep
<1>5. CASE MonInc
  <2>1. /\ mon_pc = "inc" /\ mon_pc' = "read" /\ mon_spe' = mon_spe
        /\ back' = [back EXCEPT ![s] = ringInc(@, MaxEntries)]
        /\ UNCHANGED memVars
    BY <1>5 DEF MonInc
  <2>2. PpuCollected' = PpuCollected
    BY <1>1, <2>1 DEF PpuCollected
  <2> QED
    BY <1>2, <2>1, <2>2
<1>6. CASE MonWrap
  BY <1>1, <1>6 DEF MonWrap
<1> QED
  BY <1>3, <1>4, <1>5, <1>6 DEF fifothread

(* Every step of the PPU keeps the promise of PpuService.                  *)
LEMMA HostKeepsPromise ==
  ASSUME HP!RingInv, IncBackStores = 1, HostNext
  PROVE  PP!PpuNext \/ UNCHANGED <<PpuCollected, PpuFilled, memVars>>
<1>1. CASE \/ selectfifo \/ SendFrontRetry \/ fifoWait \/ fifoIsEmpty
           \/ CallBegin \/ CallRegister \/ CallWait
           \/ \E s \in Spes : fifoAdd(s) \/ fifoKick(s)
  <2>1. UNCHANGED <<front, isKicked, memVars, back, monVars>>
    BY <1>1 DEF selectfifo, SendFrontRetry, fifoWait, fifoIsEmpty, CallBegin,
                CallRegister, CallWait, fifoAdd, fifoKick
  <2> QED
    BY <2>1, QuietSteps
<1>2. CASE \E command \in Commands : fifoBegin(command)
  BY <1>2, BeginFills
<1>3. CASE fifoRegisterProgram
  BY <1>3, RegisterFills
<1>4. CASE SendFrontState
  BY <1>4, StateShows
<1>5. CASE SendFrontCount
  BY <1>5, CountShows
<1>6. CASE KickDone
  BY <1>6, KickDoneQuiet
<1>7. CASE fifothread
  BY <1>7, MonitorCollects
<1> QED
  BY <1>1, <1>2, <1>3, <1>4, <1>5, <1>6, <1>7 DEF HostNext, AppInside, AppCall


-----------------------------------------------------------------------------
(* The contexts of the stages that begin and end the work on a task.       *)
LEMMA ContextInCtx ==
  ASSUME cycle \in [Spes -> 0 .. (Cycles - 1)], NEW s \in Spes
  PROVE  Context(s, 1) \in Ctx /\ Context(s, 4) \in Ctx
<1>1. cycle[s] \in Nat
  BY CyclesAssumption
<1> QED
  BY <1>1 DEF Context, STAGES, Ctx

(* A slot is worked on in a context or by a put.                           *)
LEMMA WorkingMember ==
  ASSUME NEW s, NEW k
  PROVE  k \in Working(s) <=>
           \/ \E c \in Ctx : active[s][c] = 1 /\ entry[s][c] = k
           \/ \E d \in dma[s] : d.op = "put" /\ d.slot = k
  BY Zenon DEF Working

(* The same after a step.                                                  *)
LEMMA WorkingMemberNext ==
  ASSUME NEW CONSTANT s, NEW CONSTANT k
  PROVE  k \in Working(s)' <=>
           \/ \E c \in Ctx : active'[s][c] = 1 /\ entry'[s][c] = k
           \/ \E d \in dma'[s] : d.op = "put" /\ d.slot = k
  BY Zenon DEF Working

(* The set is the same when the contexts and the puts are.                 *)
LEMMA WorkingSame ==
  ASSUME NEW CONSTANT s,
         active'[s] = active[s], entry'[s] = entry[s],
         \A d : d.op = "put" => (d \in dma'[s] <=> d \in dma[s])
  PROVE  Working(s)' = Working(s)
<1> SUFFICES ASSUME NEW CONSTANT k PROVE k \in Working(s)' <=> k \in Working(s)
  OBVIOUS
<1>1. k \in Working(s) <=>
       \/ \E x \in Ctx : active[s][x] = 1 /\ entry[s][x] = k
       \/ \E d \in dma[s] : d.op = "put" /\ d.slot = k
  BY WorkingMember
<1>2. k \in Working(s)' <=>
       \/ \E x \in Ctx : active'[s][x] = 1 /\ entry'[s][x] = k
       \/ \E d \in dma'[s] : d.op = "put" /\ d.slot = k
  BY WorkingMemberNext
<1> QED
  BY <1>1, <1>2

(* main sets in_back to what SpeService starts from.                       *)
LEMMA MainQuiet ==
  ASSUME PP!PipeInv, NEW s \in Spes, SpuMain(s)
  PROVE  UNCHANGED <<SvcBack, SvcWorking, memVars>>
<1>1. /\ in_back \in [Spes -> Slots] /\ spu_pc \in [Spes -> SpuPcs]
      /\ spu_pc[s] = "boot"
      /\ in_back' = [in_back EXCEPT ![s] = MaxEntries - 1]
      /\ spu_pc' = [spu_pc EXCEPT ![s] = "stage1"]
      /\ UNCHANGED <<active, entry, dma, memVars>>
  BY PipeFacts DEF SpuMain, SpuTypeOK
<1>2. SvcBack' = SvcBack
  BY <1>1 DEF SvcBack
<1>3. SvcWorking' = SvcWorking
  BY <1>1, WorkingSame DEF SvcWorking
<1> QED
  BY <1>1, <1>2, <1>3

(* stage2 and stage3 change neither the contexts' entries nor the puts.    *)
LEMMA MiddleQuiet ==
  ASSUME PP!PipeInv, NEW s \in Spes, stage2(s) \/ stage3(s)
  PROVE  UNCHANGED <<SvcBack, SvcWorking, memVars>>
<1>1. /\ spu_pc \in [Spes -> SpuPcs] /\ spu_pc[s] # "boot"
      /\ UNCHANGED <<in_back, active, entry, dma, memVars>>
  BY PipeFacts DEF stage2, stage3, SpuTypeOK
<1>2. \E p \in SpuPcs : p # "boot" /\ spu_pc' = [spu_pc EXCEPT ![s] = p]
  BY DEF stage2, stage3, Lookup, SpuPcs
<1>3. SvcBack' = SvcBack
  BY <1>1, <1>2 DEF SvcBack
<1>4. SvcWorking' = SvcWorking
  BY <1>1, WorkingSame DEF SvcWorking
<1> QED
  BY <1>1, <1>3, <1>4

(* stage1 takes the next slot into a context that is free, or nothing.     *)
LEMMA Stage1Takes ==
  ASSUME PP!PipeInv, NEW s \in Spes, stage1(s)
  PROVE  HP!SvcNext \/ UNCHANGED <<SvcBack, SvcWorking, memVars>>
<1>1. /\ in_back \in [Spes -> Slots] /\ spu_pc \in [Spes -> SpuPcs]
      /\ active \in [Spes -> [Ctx -> {0, 1}]]
      /\ entry \in [Spes -> [Ctx -> Slots]]
      /\ dma \in [Spes -> SUBSET Dma] /\ cycle \in [Spes -> 0 .. (Cycles - 1)]
  BY PipeFacts DEF SpuTypeOK
<1>2. /\ spu_pc[s] = "stage1" /\ spu_pc' = [spu_pc EXCEPT ![s] = "stage2"]
      /\ UNCHANGED memVars
  BY DEF stage1
<1>3. SvcBack[s] = in_back[s]
  BY <1>2 DEF SvcBack
<1>4. CASE in_back[s] = check_tasks(s)
  <2>1. UNCHANGED <<dma, active, in_back, entry>>
    BY <1>4 DEF stage1
  <2>2. SvcBack' = SvcBack
    BY <1>1, <1>2, <2>1 DEF SvcBack
  <2>3. SvcWorking' = SvcWorking
    BY <2>1, WorkingSame DEF SvcWorking
  <2> QED
    BY <1>2, <2>2, <2>3
<1>5. CASE in_back[s] # check_tasks(s)
  <2> DEFINE next == ringInc(in_back[s], MaxEntries)
  <2>1. PICK c \in Ctx : c = Context(s, 1)
    BY <1>1, ContextInCtx
  <2>2. /\ dma' = [dma EXCEPT ![s] =
                     @ \cup {[op |-> "get", tag |-> c, slot |-> in_back[s]]}]
        /\ active' = [active EXCEPT ![s][c] = 1]
        /\ in_back' = [in_back EXCEPT ![s] = next]
        /\ entry' = [entry EXCEPT ![s][c] = next]
    BY <1>5, <2>1 DEF stage1, increment, ringInc
  <2>3. /\ atomic_state[s] = 1 /\ SvcBack[s] # atomic_count[s]
        /\ active[s][c] = 0
    BY <1>2, <1>3, <1>5, <2>1, PipeFacts
  <2>4. SvcBack' = [SvcBack EXCEPT ![s] = next]
    BY <1>1, <1>2, <2>2 DEF SvcBack
  <2>5. ASSUME NEW CONSTANT r \in Spes, r # s PROVE Working(r)' = Working(r)
    BY <1>1, <2>2, <2>5, WorkingSame
  <2>6. Working(s)' = Working(s) \cup {next}
    <3>1. /\ active'[s] = [active[s] EXCEPT ![c] = 1]
          /\ entry'[s] = [entry[s] EXCEPT ![c] = next]
          /\ active[s] \in [Ctx -> {0, 1}] /\ entry[s] \in [Ctx -> Slots]
          /\ dma'[s] = dma[s] \cup {[op |-> "get", tag |-> c, slot |-> in_back[s]]}
      BY <1>1, <2>2
    <3> HIDE DEF next
    <3>2. ASSUME NEW CONSTANT k
          PROVE  (\E x \in Ctx : active'[s][x] = 1 /\ entry'[s][x] = k) <=>
                   k = next \/ \E x \in Ctx : active[s][x] = 1 /\ entry[s][x] = k
      BY <2>3, <3>1
    <3>3. ASSUME NEW CONSTANT k
          PROVE  (\E d \in dma'[s] : d.op = "put" /\ d.slot = k) <=>
                   (\E d \in dma[s] : d.op = "put" /\ d.slot = k)
      BY <3>1
    <3>4. ASSUME NEW CONSTANT k
          PROVE  k \in Working(s)' <=> k \in Working(s) \cup {next}
      <4>1. k \in Working(s) <=>
             \/ \E x \in Ctx : active[s][x] = 1 /\ entry[s][x] = k
             \/ \E d \in dma[s] : d.op = "put" /\ d.slot = k
        BY WorkingMember
      <4>2. k \in Working(s)' <=>
             \/ \E x \in Ctx : active'[s][x] = 1 /\ entry'[s][x] = k
             \/ \E d \in dma'[s] : d.op = "put" /\ d.slot = k
        BY WorkingMemberNext
      <4> QED
        BY <3>2, <3>3, <4>1, <4>2
    <3> QED
      BY <3>4
  <2>7. SvcWorking' = [SvcWorking EXCEPT ![s] = @ \cup {next}]
    BY <2>5, <2>6 DEF SvcWorking
  <2> HIDE DEF next
  <2>8. next = ringInc(SvcBack[s], MaxEntries)
    BY <1>3 DEF next
  <2> QED
    BY <1>2, <2>3, <2>4, <2>7, <2>8, TakeStep
<1> QED
  BY <1>4, <1>5

(* stage4 turns the work of a context into the work of a put.              *)
LEMMA Stage4Quiet ==
  ASSUME PP!PipeInv, NEW s \in Spes, stage4(s)
  PROVE  UNCHANGED <<SvcBack, SvcWorking, memVars>>
<1>1. /\ in_back \in [Spes -> Slots] /\ spu_pc \in [Spes -> SpuPcs]
      /\ active \in [Spes -> [Ctx -> {0, 1}]]
      /\ entry \in [Spes -> [Ctx -> Slots]]
      /\ dma \in [Spes -> SUBSET Dma] /\ cycle \in [Spes -> 0 .. (Cycles - 1)]
  BY PipeFacts DEF SpuTypeOK
<1>2. /\ spu_pc[s] = "stage4" /\ spu_pc' = [spu_pc EXCEPT ![s] = "stage1"]
      /\ UNCHANGED <<in_back, memVars>>
  BY DEF stage4
<1>3. SvcBack' = SvcBack
  BY <1>1, <1>2 DEF SvcBack
<1>4. PICK c \in Ctx : c = Context(s, 4)
  BY <1>1, ContextInCtx
<1>5. CASE active[s][c] = 0
  <2>1. UNCHANGED <<dma, active, entry>>
    BY <1>4, <1>5 DEF stage4
  <2>2. SvcWorking' = SvcWorking
    BY <2>1, WorkingSame DEF SvcWorking
  <2> QED
    BY <1>2, <1>3, <2>2
<1>6. CASE active[s][c] = 1
  <2>1. /\ active' = [active EXCEPT ![s][c] = 0]
        /\ entry' = [entry EXCEPT ![s][c] = 0]
        /\ dma' = [dma EXCEPT ![s] =
                     @ \cup {[op |-> "put", tag |-> c, slot |-> entry[s][c]]}]
    BY <1>4, <1>6 DEF stage4, RetiredActive
  <2>2. ASSUME NEW CONSTANT r \in Spes, r # s PROVE Working(r)' = Working(r)
    BY <1>1, <2>1, <2>2, WorkingSame
  <2>3. Working(s)' = Working(s)
    <3>1. /\ active'[s] = [active[s] EXCEPT ![c] = 0]
          /\ entry'[s] = [entry[s] EXCEPT ![c] = 0]
          /\ active[s] \in [Ctx -> {0, 1}] /\ entry[s] \in [Ctx -> Slots]
          /\ dma'[s] = dma[s] \cup {[op |-> "put", tag |-> c, slot |-> entry[s][c]]}
      BY <1>1, <2>1
    <3>2. ASSUME NEW CONSTANT k
          PROVE  (\E x \in Ctx : active[s][x] = 1 /\ entry[s][x] = k) <=>
                   \/ k = entry[s][c]
                   \/ \E x \in Ctx : active'[s][x] = 1 /\ entry'[s][x] = k
      BY <1>6, <3>1
    <3>3. ASSUME NEW CONSTANT k
          PROVE  (\E d \in dma'[s] : d.op = "put" /\ d.slot = k) <=>
                   \/ k = entry[s][c]
                   \/ \E d \in dma[s] : d.op = "put" /\ d.slot = k
      <4> DEFINE put == [op |-> "put", tag |-> c, slot |-> entry[s][c]]
      <4>1. put.op = "put" /\ put.slot = entry[s][c]
        OBVIOUS
      <4>2. dma'[s] = dma[s] \cup {put}
        BY <3>1
      <4> HIDE DEF put
      <4> QED
        BY <4>1, <4>2, Zenon
    <3>4. ASSUME NEW CONSTANT k
          PROVE  k \in Working(s)' <=> k \in Working(s)
      <4>1. k \in Working(s) <=>
             \/ \E x \in Ctx : active[s][x] = 1 /\ entry[s][x] = k
             \/ \E d \in dma[s] : d.op = "put" /\ d.slot = k
        BY WorkingMember
      <4>2. k \in Working(s)' <=>
             \/ \E x \in Ctx : active'[s][x] = 1 /\ entry'[s][x] = k
             \/ \E d \in dma'[s] : d.op = "put" /\ d.slot = k
        BY WorkingMemberNext
      <4> QED
        BY <3>2, <3>3, <4>1, <4>2
    <3> QED
      BY <3>4
  <2>4. SvcWorking' = SvcWorking
    BY <2>2, <2>3 DEF SvcWorking
  <2> QED
    BY <1>2, <1>3, <2>4
<1> QED
  BY <1>1, <1>5, <1>6

(* A get is not an acknowledgement.                                        *)
LEMMA GetQuiet ==
  ASSUME PP!PipeInv, NEW s \in Spes, NEW d \in dma[s], MfcGet(s, d)
  PROVE  UNCHANGED <<SvcBack, SvcWorking, memVars>>
<1>1. /\ dma \in [Spes -> SUBSET Dma] /\ d.op = "get"
      /\ dma' = [dma EXCEPT ![s] = @ \ {d}]
      /\ UNCHANGED <<spu_pc, in_back, active, entry, memVars>>
  BY PipeFacts DEF SpuTypeOK, MfcGet
<1>2. SvcBack' = SvcBack
  BY <1>1 DEF SvcBack
<1>3. ASSUME NEW CONSTANT r \in Spes PROVE Working(r)' = Working(r)
  BY <1>1, WorkingSame
<1>4. SvcWorking' = SvcWorking
  BY <1>3 DEF SvcWorking
<1> QED
  BY <1>1, <1>2, <1>4

(* A put acknowledges its slot, which nothing else works on.               *)
LEMMA PutAcknowledges ==
  ASSUME PP!PipeInv, NEW s \in Spes, NEW d \in dma[s], MfcPut(s, d)
  PROVE  HP!SvcNext
<1>1. /\ dma \in [Spes -> SUBSET Dma] /\ d.op = "put" /\ d.slot \in Slots
      /\ \A c \in Ctx : active[s][c] = 1 => entry[s][c] # d.slot
      /\ \A e \in dma[s] : e.op = "put" /\ e.slot = d.slot => e = d
      /\ dma' = [dma EXCEPT ![s] = @ \ {d}]
      /\ UNCHANGED <<spu_pc, in_back, active, entry, task_fifo, atomic_count,
                     atomic_state>>
  BY PipeFacts DEF SpuTypeOK, MfcPut
<1>2. PICK w \in AckWords : ack_fifo' = [ack_fifo EXCEPT ![s][d.slot] = w]
  BY DEF MfcPut
<1>3. SvcBack' = SvcBack
  BY <1>1 DEF SvcBack
<1>4. ASSUME NEW CONSTANT r \in Spes, r # s PROVE Working(r)' = Working(r)
  BY <1>1, <1>4, WorkingSame
<1>5. PICK k \in Slots : k = d.slot
  BY <1>1
<1>6. Working(s)' = Working(s) \ {k}
  <2>1. dma'[s] = dma[s] \ {d}
    BY <1>1
  <2>2. ASSUME NEW CONSTANT j
        PROVE  j \in Working(s)' <=> j \in Working(s) \ {k}
    <3>1. j \in Working(s) <=>
           \/ \E x \in Ctx : active[s][x] = 1 /\ entry[s][x] = j
           \/ \E e \in dma[s] : e.op = "put" /\ e.slot = j
      BY WorkingMember
    <3>2. j \in Working(s)' <=>
           \/ \E x \in Ctx : active'[s][x] = 1 /\ entry'[s][x] = j
           \/ \E e \in dma'[s] : e.op = "put" /\ e.slot = j
      BY WorkingMemberNext
    <3> QED
      BY <1>1, <1>5, <2>1, <3>1, <3>2
  <2> QED
    BY <2>2
<1>7. k \in Working(s)
  BY <1>1, <1>5, WorkingMember
<1>8. SvcWorking' = [SvcWorking EXCEPT ![s] = @ \ {k}]
  BY <1>4, <1>6 DEF SvcWorking
<1>9. k \in SvcWorking[s]
  BY <1>7 DEF SvcWorking
<1> QED
  BY <1>1, <1>2, <1>3, <1>5, <1>8, <1>9, AcknowledgeStep

(* Every step of an SPU and of its MFC keeps the promise of SpeService.    *)
LEMMA SpuKeepsPromise ==
  ASSUME PP!PipeInv, SpuNext
  PROVE  HP!SvcNext \/ UNCHANGED <<SvcBack, SvcWorking, memVars>>
<1>1. PICK s \in Spes : pipeline(s) \/ Mfc(s)
  BY DEF SpuNext
<1>2. CASE pipeline(s)
  BY <1>2, MainQuiet, MiddleQuiet, Stage1Takes, Stage4Quiet DEF pipeline
<1>3. CASE Mfc(s)
  BY <1>3, GetQuiet, PutAcknowledges DEF Mfc, MfcTag
<1> QED
  BY <1>1, <1>2, <1>3

-----------------------------------------------------------------------------
(* The inductive invariant of the whole: the two of its halves.            *)
WholeInv == HP!RingInv /\ PP!PipeInv

(* Every step of the whole task fifo is a step of HostSystem.              *)
LEMMA StepOfHostSystem ==
  ASSUME WholeInv, [Next]_vars
  PROVE  [HP!Next]_(HP!vars)
<1>1. CASE HostNext /\ UNCHANGED spuVars
  <2>1. SvcBack' = SvcBack
    BY <1>1 DEF spuVars, SvcBack
  <2>2. SvcWorking' = SvcWorking
    BY <1>1, WorkingSame DEF spuVars, SvcWorking
  <2> QED
    BY <1>1, <2>1, <2>2, HostSteps, HostNames DEF HP!Next
<1>2. CASE SpuNext /\ UNCHANGED hostVars
  BY <1>2, SpuKeepsPromise, HostNames DEF HP!Next, WholeInv
<1>3. CASE UNCHANGED vars
  <2>1. SvcBack' = SvcBack
    BY <1>3 DEF vars, spuVars, SvcBack
  <2>2. SvcWorking' = SvcWorking
    BY <1>3, WorkingSame DEF vars, spuVars, SvcWorking
  <2> QED
    BY <1>3, <2>1, <2>2, HostNames DEF vars
<1> QED
  BY <1>1, <1>2, <1>3 DEF Next

(* Every step of it is a step of SpuSystem.                                *)
LEMMA StepOfSpuSystem ==
  ASSUME WholeInv, [Next]_vars, IncBackStores = 1
  PROVE  [PP!Next]_(PP!vars)
<1>1. CASE HostNext /\ UNCHANGED spuVars
  BY <1>1, HostKeepsPromise, SpuNames DEF PP!Next, WholeInv
<1>2. CASE SpuNext /\ UNCHANGED hostVars
  <2>1. UNCHANGED <<front, isKicked, back, mon_pc, mon_spe>>
    BY <1>2 DEF hostVars, appVars, monVars
  <2>2. UNCHANGED <<atomic_count, atomic_state>>
    <3>1. PICK s \in Spes : pipeline(s) \/ Mfc(s)
      BY <1>2 DEF SpuNext
    <3>2. CASE pipeline(s)
      BY <3>2, Zenon DEF pipeline, SpuMain, stage1, stage2, stage3, stage4, memVars
    <3>3. CASE Mfc(s)
      BY <3>3, Zenon DEF Mfc, MfcTag, MfcGet, MfcPut, memVars
    <3> QED
      BY <3>1, <3>2, <3>3
  <2>3. UNCHANGED <<PpuCollected, PpuFilled>>
    BY <2>1, <2>2, Zenon DEF PpuCollected, PpuFilled, ShownEnd
  <2> QED
    BY <1>2, <2>3, SpuSteps, SpuNames DEF PP!Next
<1>3. CASE UNCHANGED vars
  <2>1. UNCHANGED <<front, isKicked, memVars, back, monVars>>
    BY <1>3 DEF vars, hostVars, appVars
  <2> QED
    BY <1>3, <2>1, QuietSteps, SpuNames DEF vars
<1> QED
  BY <1>1, <1>2, <1>3 DEF Next

(* The whole starts as both halves do.                                     *)
LEMMA WholeInit ==
  ASSUME Init
  PROVE  HP!Init /\ PP!Init
<1>1. SvcBack = [s \in Spes |-> MaxEntries - 1]
  BY DEF Init, SpuInit, SvcBack
<1>2. SvcWorking = [s \in Spes |-> {}]
  <2>1. ASSUME NEW s \in Spes PROVE Working(s) = {}
    BY DEF Init, SpuInit, Working
  <2> QED
    BY <2>1 DEF SvcWorking
<1>3. PpuCollected = [s \in Spes |-> 0]
  BY DEF Init, fifoInit, PpuCollected
<1>4. PpuFilled = [s \in Spes |-> FALSE]
  <2>1. ASSUME NEW s \in Spes PROVE isKicked[s] # 0
    BY DEF Init, fifoInit
  <2> QED
    BY <2>1, Zenon DEF PpuFilled
<1> QED
  BY <1>1, <1>2, <1>3, <1>4, HostNames, SpuNames DEF Init

(* The assumptions on the constants of the two halves hold for the whole.  *)
LEMMA WholeInvInit == Init => WholeInv
<1> SUFFICES ASSUME Init PROVE WholeInv
  OBVIOUS
<1>1. HP!Init /\ PP!Init
  BY WholeInit
<1>2. HP!RingInv
  BY <1>1, HP!RingInit, SpesAssumption, EntriesAssumption, WordsAssumption,
     CommandsAssumption, AckWordsAssumption, ClientAssumption,
     IncBackStoresAssumption
  DEF HP!MaxEntries, MaxEntries, HP!TaskWords, TaskWords, HP!CommandWords,
      CommandWords, HP!ACK_CLEAR, ACK_CLEAR, HP!ACK_OTHER, ACK_OTHER,
      HP!REGISTER_PROGRAM, REGISTER_PROGRAM
<1>3. PP!PipeInv
  BY <1>1, PP!PipeInit, SpesAssumption, EntriesAssumption, WordsAssumption,
     CommandsAssumption, AckWordsAssumption, CyclesAssumption, LookupsAssumption
  DEF PP!MaxEntries, MaxEntries, PP!TaskWords, TaskWords, PP!CommandWords,
      CommandWords, PP!ACK_CLEAR, ACK_CLEAR, PP!ACK_OTHER, ACK_OTHER,
      PP!REGISTER_PROGRAM, REGISTER_PROGRAM, PP!STAGES, STAGES
<1> QED
  BY <1>2, <1>3 DEF WholeInv

(* Every step keeps both invariants, each because the step is one of its   *)
(* half while the other invariant holds.                                   *)
LEMMA WholeInvStep ==
  ASSUME Client \in {"disciplined", "draining"}, IncBackStores = 1
  PROVE  WholeInv /\ [Next]_vars => WholeInv'
<1> SUFFICES ASSUME WholeInv, [Next]_vars PROVE WholeInv'
  OBVIOUS
<1>1. HP!RingInv /\ PP!PipeInv
  BY DEF WholeInv
<1>2. [HP!Next]_(HP!vars) /\ [PP!Next]_(PP!vars)
  BY StepOfHostSystem, StepOfSpuSystem
<1>3. HP!RingInv'
  BY <1>1, <1>2, HP!RingStep, SpesAssumption, EntriesAssumption, WordsAssumption,
     CommandsAssumption, AckWordsAssumption, ClientAssumption,
     IncBackStoresAssumption
  DEF HP!MaxEntries, MaxEntries, HP!TaskWords, TaskWords, HP!CommandWords,
      CommandWords, HP!ACK_CLEAR, ACK_CLEAR, HP!ACK_OTHER, ACK_OTHER,
      HP!REGISTER_PROGRAM, REGISTER_PROGRAM
<1>4. PP!PipeInv'
  BY <1>1, <1>2, PP!PipeStep, SpesAssumption, EntriesAssumption, WordsAssumption,
     CommandsAssumption, AckWordsAssumption, CyclesAssumption, LookupsAssumption
  DEF PP!MaxEntries, MaxEntries, PP!TaskWords, TaskWords, PP!CommandWords,
      CommandWords, PP!ACK_CLEAR, ACK_CLEAR, PP!ACK_OTHER, ACK_OTHER,
      PP!REGISTER_PROGRAM, REGISTER_PROGRAM, PP!STAGES, STAGES
<1> QED
  BY <1>3, <1>4 DEF WholeInv

(***************************************************************************)
(* The two invariants hold together in the whole task fifo, for every      *)
(* number of SPEs, every size of the ring, every modulus of the cycle      *)
(* counter and every order of the threads, the SPUs and the transfers.     *)
(***************************************************************************)
THEOREM WholeInvariant ==
  ASSUME Client \in {"disciplined", "draining"}, IncBackStores = 1
  PROVE  Spec => []WholeInv
<1>1. Init => WholeInv
  BY WholeInvInit
<1>2. WholeInv /\ [Next]_vars => WholeInv'
  BY WholeInvStep
<1> QED
  BY <1>1, <1>2, PTL DEF Spec

-----------------------------------------------------------------------------
(* HP is HS of SpeFifo with the proofs,                                    *)
LEMMA HostSystemIsHS ==
  /\ HP!Init => HS!Init
  /\ [HP!Next]_(HP!vars) => [HS!Next]_(HS!vars)
<1> USE DEF SvcBack, SvcWorking
<1>1. HP!Init => HS!Init
  BY Zenon
  DEF HP!Init, HP!allocate_fifo, HP!fifoInit, HP!SvcInit, HP!Spes, HP!Slots,
      HP!MaxEntries, HP!ACK_CLEAR, HS!Init, HS!allocate_fifo, HS!fifoInit,
      HS!SvcInit, HS!Spes, HS!Slots, HS!MaxEntries, HS!ACK_CLEAR
<1>2. UNCHANGED HP!vars => UNCHANGED HS!vars
  BY Zenon
  DEF HP!vars, HP!svcVars, HP!hostVars, HP!appVars, HP!monVars, HP!memVars,
      HS!vars, HS!svcVars, HS!hostVars, HS!appVars, HS!monVars, HS!memVars
<1>3. HostNext <=> HS!HostNext
  BY Zenon
  DEF HostNext, AppInside, AppCall, fifothread, selectfifo, fifoBegin,
      SendFrontState, SendFrontCount, SendFrontRetry, KickDone,
      fifoRegisterProgram, fifoWait, fifoIsEmpty, CallBegin, fifoAdd, fifoKick,
      CallRegister, CallWait, MonRead, MonClear, MonInc, MonWrap, MayBegin,
      MayRegister, AllKicked, Drained, HasFree, HasRemaining, nextSpe, BeginSlot,
      fifoWaitRes, appVars, monVars, memVars, ringInc, ringHasFree,
      ringHasRemaining, MaxEntries, TaskWords, Spes, REGISTER_PROGRAM, ACK_CLEAR,
      HS!HostNext, HS!AppInside, HS!AppCall, HS!fifothread, HS!selectfifo,
      HS!fifoBegin, HS!SendFrontState, HS!SendFrontCount, HS!SendFrontRetry,
      HS!KickDone, HS!fifoRegisterProgram, HS!fifoWait, HS!fifoIsEmpty,
      HS!CallBegin, HS!fifoAdd, HS!fifoKick, HS!CallRegister, HS!CallWait,
      HS!MonRead, HS!MonClear, HS!MonInc, HS!MonWrap, HS!MayBegin,
      HS!MayRegister, HS!AllKicked, HS!Drained, HS!HasFree, HS!HasRemaining,
      HS!nextSpe, HS!BeginSlot, HS!fifoWaitRes, HS!appVars, HS!monVars,
      HS!memVars, HS!ringInc, HS!ringHasFree, HS!ringHasRemaining,
      HS!MaxEntries, HS!TaskWords, HS!Spes, HS!REGISTER_PROGRAM, HS!ACK_CLEAR
<1>4. HP!SvcNext => HS!SvcNext
  BY Zenon
  DEF HP!SvcNext, HP!Take, HP!Acknowledge, HP!memVars, HP!ringInc, HP!MaxEntries,
      HP!Spes, HP!Slots, HS!SvcNext, HS!Take, HS!Acknowledge, HS!memVars,
      HS!ringInc, HS!MaxEntries, HS!Spes, HS!Slots
<1>5. /\ UNCHANGED HP!svcVars => UNCHANGED HS!svcVars
      /\ UNCHANGED HP!hostVars => UNCHANGED HS!hostVars
  BY Zenon
  DEF HP!svcVars, HP!hostVars, HP!appVars, HP!monVars, HS!svcVars, HS!hostVars,
      HS!appVars, HS!monVars
<1> QED
  BY <1>1, <1>2, <1>3, <1>4, <1>5, HostSteps DEF HP!Next, HS!Next

(* and PP is PS.                                                           *)
LEMMA SpuSystemIsPS ==
  /\ PP!Init => PS!Init
  /\ [PP!Next]_(PP!vars) => [PS!Next]_(PS!vars)
<1> USE DEF PpuCollected, PpuFilled, ShownEnd
<1>1. PP!Init => PS!Init
  BY Zenon
  DEF PP!Init, PP!allocate_fifo, PP!PpuInit, PP!SpuInit, PP!Spes, PP!Slots,
      PP!Ctx, PP!STAGES, PP!MaxEntries, PP!ACK_CLEAR, PP!NoSlot, PP!Unfetched,
      PS!Init, PS!allocate_fifo, PS!PpuInit, PS!SpuInit, PS!Spes, PS!Slots,
      PS!Ctx, PS!STAGES, PS!MaxEntries, PS!ACK_CLEAR, PS!NoSlot, PS!Unfetched
<1>2. UNCHANGED PP!vars => UNCHANGED PS!vars
  BY Zenon
  DEF PP!vars, PP!ppuVars, PP!spuVars, PP!memVars, PS!vars, PS!ppuVars,
      PS!spuVars, PS!memVars
<1>3. SpuNext <=> PS!SpuNext
  BY Zenon
  DEF SpuNext, pipeline, Mfc, MfcTag, SpuMain, stage1, stage2, stage3, stage4,
      MfcGet, MfcPut, check_tasks, increment, Context, Lookup, TagDone,
      RetiredActive, NextCycle, Unfetched, memVars, MaxEntries, Spes, Ctx,
      STAGES, REGISTER_PROGRAM,
      PS!SpuNext, PS!pipeline, PS!Mfc, PS!MfcTag, PS!SpuMain, PS!stage1,
      PS!stage2, PS!stage3, PS!stage4, PS!MfcGet, PS!MfcPut, PS!check_tasks,
      PS!increment, PS!Context, PS!Lookup, PS!TagDone, PS!RetiredActive,
      PS!NextCycle, PS!Unfetched, PS!memVars, PS!MaxEntries, PS!Spes, PS!Ctx,
      PS!STAGES, PS!REGISTER_PROGRAM
<1>4. PP!PpuNext => PS!PpuNext
  BY Zenon
  DEF PP!PpuNext, PP!Fill, PP!Show, PP!Collect, PP!NextSlot, PP!ringHasFree,
      PP!ringInc, PP!MaxEntries, PP!Spes, PP!ACK_CLEAR, PP!memVars,
      PS!PpuNext, PS!Fill, PS!Show, PS!Collect, PS!NextSlot, PS!ringHasFree,
      PS!ringInc, PS!MaxEntries, PS!Spes, PS!ACK_CLEAR, PS!memVars
<1>5. /\ UNCHANGED PP!ppuVars => UNCHANGED PS!ppuVars
      /\ UNCHANGED PP!spuVars => UNCHANGED PS!spuVars
  BY Zenon DEF PP!ppuVars, PP!spuVars, PS!ppuVars, PS!spuVars
<1> QED
  BY <1>1, <1>2, <1>3, <1>4, <1>5, SpuSteps DEF PP!Next, PS!Next

(***************************************************************************)
(* The SPU's pipeline with its asynchronous transfers, working for the     *)
(* real PPU side, keeps the promise of SpeService, so that whatever is     *)
(* proved of HostSystem holds for the whole task fifo.                     *)
(***************************************************************************)
THEOREM PipelineKeepsPromise ==
  ASSUME Client \in {"disciplined", "draining"}, IncBackStores = 1
  PROVE  Spec => ImplementsSpeService
<1>1. Init => HS!Init
  BY WholeInit, HostSystemIsHS
<1>2. WholeInv /\ [Next]_vars => [HS!Next]_(HS!vars)
  BY StepOfHostSystem, HostSystemIsHS
<1> QED
  BY <1>1, <1>2, WholeInvariant, PTL DEF Spec, ImplementsSpeService, HS!Spec

(***************************************************************************)
(* The application and fifothread, with the real pipeline, keep the        *)
(* promise of PpuService, so that whatever is proved of SpuSystem holds    *)
(* for the whole task fifo.                                                *)
(***************************************************************************)
THEOREM PpuKeepsPromise ==
  ASSUME Client \in {"disciplined", "draining"}, IncBackStores = 1
  PROVE  Spec => ImplementsPpuService
<1>1. Init => PS!Init
  BY WholeInit, SpuSystemIsPS
<1>2. WholeInv /\ [Next]_vars => [PS!Next]_(PS!vars)
  BY StepOfSpuSystem, SpuSystemIsPS
<1> QED
  BY <1>1, <1>2, WholeInvariant, PTL DEF Spec, ImplementsPpuService, PS!Spec

(***************************************************************************)
(* fifoBegin, fifoAdd and fifoRegisterProgram never write a slot that the  *)
(* SPU has yet to copy.                                                    *)
(***************************************************************************)
THEOREM OpenSlotIsNotFetched ==
  ASSUME Client \in {"disciplined", "draining"}, IncBackStores = 1
  PROVE  Spec => []FetchIsStable
<1>1. WholeInv => FetchIsStable
  <2> SUFFICES ASSUME WholeInv, NEW s \in Spes, isKicked[s] = 0, ~Kicking(s)
               PROVE  front[s] \notin YetToFetch(s)
    BY DEF FetchIsStable
  <2>1. ShownEnd(s) = front[s]
    BY RingFacts DEF WholeInv
  <2>2. PpuFilled[s]
    BY <2>1, Zenon DEF PpuFilled
  <2>3. PP!FetchIsStable
    BY PP!FilledIsFetched, SpesAssumption, EntriesAssumption, WordsAssumption,
       CommandsAssumption, AckWordsAssumption, CyclesAssumption,
       LookupsAssumption
    DEF WholeInv, PP!MaxEntries, MaxEntries, PP!TaskWords, TaskWords,
        PP!CommandWords, CommandWords, PP!ACK_CLEAR, ACK_CLEAR, PP!ACK_OTHER,
        ACK_OTHER, PP!REGISTER_PROGRAM, REGISTER_PROGRAM, PP!STAGES, STAGES
  <2>4. PP!NextSlot(s) = ShownEnd(s) /\ PP!YetToFetch(s) = YetToFetch(s)
        /\ PP!Spes = Spes
    BY Zenon DEF PP!NextSlot, ShownEnd, PP!YetToFetch, YetToFetch, PP!Slots,
        Slots, PP!Dist, Dist, PP!ringInc, ringInc, PP!MaxEntries, MaxEntries,
        PP!Spes, Spes
  <2> QED
    BY <2>1, <2>2, <2>3, <2>4 DEF PP!FetchIsStable
<1> QED
  BY <1>1, WholeInvariant, PTL

(***************************************************************************)
(* The whole task fifo, application, monitor, pipeline and transfers,      *)
(* implements the bounded queues of TaskFifo: an entry is kicked into a    *)
(* queue that has room, taken in order, acknowledged in any order and      *)
(* collected in order.                                                     *)
(***************************************************************************)
THEOREM WholeImplementsQueues ==
  ASSUME Client \in {"disciplined", "draining"}, IncBackStores = 1
  PROVE  Spec => HP!ImplementsTaskFifo
<1>1. Init => HP!Init
  BY WholeInit
<1>2. WholeInv /\ [Next]_vars => [HP!Next]_(HP!vars)
  BY StepOfHostSystem
<1>3. Spec => HP!Spec
  BY <1>1, <1>2, WholeInvariant, PTL DEF Spec, HP!Spec
<1>4. HP!Spec => HP!ImplementsTaskFifo
  BY HP!QueuesImplemented, SpesAssumption, EntriesAssumption, WordsAssumption,
     CommandsAssumption, AckWordsAssumption, ClientAssumption,
     IncBackStoresAssumption
  DEF HP!MaxEntries, MaxEntries, HP!TaskWords, TaskWords, HP!CommandWords,
      CommandWords, HP!ACK_CLEAR, ACK_CLEAR, HP!ACK_OTHER, ACK_OTHER,
      HP!REGISTER_PROGRAM, REGISTER_PROGRAM
<1> QED
  BY <1>3, <1>4, PTL

(***************************************************************************)
(* What is proved of the pipeline with a PPU that behaves as PpuService    *)
(* says holds with the real one: stage3 executes the task of its context,  *)
(* the contexts retire in order, and the pipeline is left only when it is  *)
(* empty.                                                                  *)
(***************************************************************************)
THEOREM PipelineWorksInWhole ==
  ASSUME Client \in {"disciplined", "draining"}, IncBackStores = 1
  PROVE  Spec => [](ContextHoldsItsTask /\ RetiresInOrder /\ LeavesEmptyPipeline)
<1>1. Init => PP!Init
  BY WholeInit
<1>2. WholeInv /\ [Next]_vars => [PP!Next]_(PP!vars)
  BY StepOfSpuSystem
<1>3. Spec => PP!Spec
  BY <1>1, <1>2, WholeInvariant, PTL DEF Spec, PP!Spec
<1>4. /\ PP!Spec => []PP!ContextHoldsItsTask
      /\ PP!Spec => []PP!RetiresInOrder
      /\ PP!Spec => []PP!LeavesEmptyPipeline
  BY PP!ExecutesTheTask, PP!RetirementInOrder, PP!PipelineLeftEmpty,
     SpesAssumption, EntriesAssumption, WordsAssumption, CommandsAssumption,
     AckWordsAssumption, CyclesAssumption, LookupsAssumption
  DEF PP!MaxEntries, MaxEntries, PP!TaskWords, TaskWords, PP!CommandWords,
      CommandWords, PP!ACK_CLEAR, ACK_CLEAR, PP!ACK_OTHER, ACK_OTHER,
      PP!REGISTER_PROGRAM, REGISTER_PROGRAM, PP!STAGES, STAGES
<1>5. /\ PP!ContextHoldsItsTask => ContextHoldsItsTask
      /\ PP!RetiresInOrder => RetiresInOrder
      /\ PP!LeavesEmptyPipeline => LeavesEmptyPipeline
  BY Zenon
  DEF PP!ContextHoldsItsTask, ContextHoldsItsTask, PP!RetiresInOrder,
      RetiresInOrder, PP!LeavesEmptyPipeline, LeavesEmptyPipeline, PP!Before,
      Before, PP!Context, Context, PP!increment, increment, PP!MaxEntries,
      MaxEntries, PP!Spes, Spes, PP!Ctx, Ctx, PP!STAGES, STAGES
<1> QED
  BY <1>3, <1>4, <1>5, PTL
=============================================================================
