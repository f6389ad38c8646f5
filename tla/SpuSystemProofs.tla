--------------------------- MODULE SpuSystemProofs ---------------------------
(***************************************************************************)
(* Proofs about SpuSystem for every number of SPEs, every fifo size, every *)
(* counter width that is a multiple of the pipeline's depth and every set  *)
(* of command words: the inductive invariant PipeInv of the pipeline, its  *)
(* DMA commands and the ring, and the properties that follow from it.      *)
(***************************************************************************)
EXTENDS SpuSystem, FiniteSetTheorems, TLAPS

-----------------------------------------------------------------------------
(* The index arithmetic: increment of spu_taskmanager.h is ringIncFront,   *)
(* and it stays in the ring.                                               *)
LEMMA IncrementIsInc ==
  \A a \in Slots : /\ increment(a, MaxEntries) = ringInc(a, MaxEntries)
                   /\ ringInc(a, MaxEntries) \in Slots
                   /\ a = Before(ringInc(a, MaxEntries))
  BY EntriesAssumption, SMT DEF increment, ringInc, Slots, Before

(* Before stays in the ring and undoes increment.                          *)
LEMMA BeforeInRing ==
  \A a \in Slots : Before(a) \in Slots /\ ringInc(Before(a), MaxEntries) = a
  BY EntriesAssumption, SMT DEF ringInc, Slots, Before

(* A distance is a slot number, and it determines the slot.                *)
LEMMA DistInRing ==
  \A a, b \in Slots :
    /\ Dist(a, b, MaxEntries) \in Slots
    /\ Dist(a, b, MaxEntries) = 0 <=> a = b
    /\ \A c \in Slots :
         Dist(a, b, MaxEntries) = Dist(c, b, MaxEntries) => a = c
  BY EntriesAssumption, SMT DEF Dist, Slots

(* Going up one slot adds one to the distance, except at the base.         *)
LEMMA DistInc ==
  \A a, b \in Slots :
    Dist(ringInc(a, MaxEntries), b, MaxEntries) =
      IF Dist(a, b, MaxEntries) = MaxEntries - 1
      THEN 0 ELSE Dist(a, b, MaxEntries) + 1
  BY EntriesAssumption, SMT DEF Dist, Slots, ringInc

(* Moving the base up one slot takes one off the distance of every other   *)
(* slot and puts the old base at the far end.                              *)
LEMMA DistIncBase ==
  \A a, b \in Slots :
    Dist(a, ringInc(b, MaxEntries), MaxEntries) =
      IF a = b THEN MaxEntries - 1 ELSE Dist(a, b, MaxEntries) - 1
  BY EntriesAssumption, SMT DEF Dist, Slots, ringInc

(* Seen from a third slot the distance of two is a difference.             *)
LEMMA DistFrom ==
  \A a, b, c \in Slots :
    Dist(b, c, MaxEntries) <= Dist(a, c, MaxEntries) =>
      Dist(a, b, MaxEntries) = Dist(a, c, MaxEntries) - Dist(b, c, MaxEntries)
  BY EntriesAssumption, SMT DEF Dist, Slots

(* Distances add up as long as they do not go around the ring.             *)
LEMMA DistAdd ==
  \A a, b, c \in Slots :
    Dist(b, c, MaxEntries) + Dist(a, b, MaxEntries) < MaxEntries =>
      Dist(a, c, MaxEntries) = Dist(b, c, MaxEntries) + Dist(a, b, MaxEntries)
  BY EntriesAssumption, SMT DEF Dist, Slots

(* Two slots keep their distance when both go up.                          *)
LEMMA DistBothInc ==
  \A a, b \in Slots :
    Dist(ringInc(a, MaxEntries), ringInc(b, MaxEntries), MaxEntries)
      = Dist(a, b, MaxEntries)
  BY EntriesAssumption, SMT DEF Dist, Slots, ringInc

-----------------------------------------------------------------------------
(* The four stages work on four different contexts, and on all of them.    *)
LEMMA ContextsOfStages ==
  ASSUME SpuTypeOK, NEW s \in Spes
  PROVE  /\ \A n \in 1 .. STAGES : Context(s, n) \in Ctx
         /\ \A n, m \in 1 .. STAGES : Context(s, n) = Context(s, m) => n = m
         /\ \A c \in Ctx : \E n \in 1 .. STAGES : c = Context(s, n)
<1>1. cycle[s] \in Nat
  BY CyclesAssumption, SMT DEF SpuTypeOK
<1> QED
  BY <1>1, SMT DEF Context, STAGES, Ctx

(* A turn of the pipeline hands the context of every stage to the next     *)
(* stage and the one of stage4 to stage1, also where the counter wraps.    *)
LEMMA ContextsMoveOn ==
  ASSUME SpuTypeOK, NEW s \in Spes, cycle'[s] = NextCycle(cycle[s])
  PROVE  /\ Context(s, 1)' = Context(s, 4)
         /\ Context(s, 2)' = Context(s, 1)
         /\ Context(s, 3)' = Context(s, 2)
         /\ Context(s, 4)' = Context(s, 3)
<1>1. cycle[s] \in 0 .. (Cycles - 1)
  BY SMT DEF SpuTypeOK
<1> QED
  BY <1>1, CyclesAssumption, SMT DEF Context, STAGES, NextCycle

-----------------------------------------------------------------------------
(* The parts of PipeInv that speak of one SPE.                             *)
RowInv(s) == OrderInv(s) /\ ContextInv(s) /\ FetchInv(s) /\ AckInv(s)

(* A step leaves everything of an SPE alone.                               *)
SameRow(s) ==
  /\ collected'[s] = collected[s] /\ filled'[s] = filled[s]
  /\ task_fifo'[s] = task_fifo[s] /\ ack_fifo'[s] = ack_fifo[s]
  /\ atomic_count'[s] = atomic_count[s] /\ atomic_state'[s] = atomic_state[s]
  /\ spu_pc'[s] = spu_pc[s] /\ tfront'[s] = tfront[s]
  /\ in_back'[s] = in_back[s] /\ out_back'[s] = out_back[s]
  /\ cycle'[s] = cycle[s] /\ active'[s] = active[s] /\ entry'[s] = entry[s]
  /\ task'[s] = task[s] /\ dma'[s] = dma[s]

(* The order of the indices depends on the indices only.                   *)
LEMMA OrderFrame ==
  ASSUME NEW s \in Spes, OrderInv(s), filled'[s] => filled[s],
         spu_pc'[s] = "boot" => spu_pc[s] = "boot",
         UNCHANGED <<collected[s], atomic_count[s], atomic_state[s]>>,
         Started(s, tfront[s])' = Started(s, tfront[s]),
         Started(s, in_back[s])' = Started(s, in_back[s]),
         Started(s, out_back[s])' = Started(s, out_back[s])
  PROVE  OrderInv(s)'
  BY DEF OrderInv, Retired, Fetched, Seen, Shown, Depth, NextSlot

(* What is in the contexts depends on the contexts and two indices only.   *)
LEMMA ContextFrame ==
  ASSUME NEW s \in Spes, ContextInv(s),
         spu_pc'[s] = "boot" => spu_pc[s] = "boot",
         spu_pc'[s] = "stage1" => spu_pc[s] \in {"boot", "stage1"},
         Started(s, in_back[s])' = Started(s, in_back[s]),
         Started(s, out_back[s])' = Started(s, out_back[s]),
         UNCHANGED <<cycle[s], active[s], entry[s]>>
  PROVE  ContextInv(s)'
  BY DEF ContextInv, Load, Context

(* Fetches depend on the contexts, the DMA commands and the task slots.    *)
LEMMA FetchFrame ==
  ASSUME NEW s \in Spes, FetchInv(s),
         spu_pc'[s] \in {"stage3", "stage4"} => spu_pc[s] \in {"stage3", "stage4"},
         UNCHANGED <<cycle[s], active[s], entry[s], task[s], dma[s], task_fifo[s]>>
  PROVE  FetchInv(s)'
  BY DEF FetchInv, FetchOf, TaskOf, TagDone, Context

(* Acknowledgements depend on the DMA commands and on what is retired.     *)
LEMMA AckFrame ==
  ASSUME NEW s \in Spes, AckInv(s),
         Started(s, out_back[s])' = Started(s, out_back[s]),
         UNCHANGED <<collected[s], dma[s], ack_fifo[s]>>
  PROVE  AckInv(s)'
  BY DEF AckInv, Puts, Depth, Retired

(* What leaves an SPE alone keeps its part of the invariant.               *)
LEMMA RowFrame ==
  ASSUME NEW s \in Spes, RowInv(s), SameRow(s)
  PROVE  RowInv(s)'
<1>1. /\ Started(s, tfront[s])' = Started(s, tfront[s])
      /\ Started(s, in_back[s])' = Started(s, in_back[s])
      /\ Started(s, out_back[s])' = Started(s, out_back[s])
  BY DEF SameRow, Started
<1>2. OrderInv(s)'
  BY <1>1, OrderFrame DEF SameRow, RowInv
<1>3. ContextInv(s)'
  BY <1>1, ContextFrame DEF SameRow, RowInv
<1>4. FetchInv(s)'
  BY <1>1, FetchFrame DEF SameRow, RowInv
<1>5. AckInv(s)'
  BY <1>1, AckFrame DEF SameRow, RowInv
<1> QED
  BY <1>2, <1>3, <1>4, <1>5 DEF RowInv

-----------------------------------------------------------------------------
(* An assignment to one element of one SPE's array: the types, the element *)
(* that changes and those that do not.                                     *)
LEMMA ElementAssigned ==
  ASSUME NEW S, NEW T, NEW V, NEW f \in [S -> [T -> V]], NEW s \in S,
         NEW c \in T, NEW v \in V
  PROVE  /\ [f EXCEPT ![s][c] = v] \in [S -> [T -> V]]
         /\ [f EXCEPT ![s][c] = v][s][c] = v
         /\ \A d \in T : d # c => [f EXCEPT ![s][c] = v][s][d] = f[s][d]
         /\ \A r \in S : r # s => [f EXCEPT ![s][c] = v][r] = f[r]
  OBVIOUS

(* The variables as the program starts with them have their types.         *)
LEMMA TypeInit ==
  Init => TypeOK
<1> SUFFICES ASSUME Init PROVE TypeOK
  OBVIOUS
<1>1. 0 \in Slots /\ 0 \in 0 .. (Cycles - 1)
  BY EntriesAssumption, CyclesAssumption, SMT DEF Slots, STAGES
<1>2. MemTypeOK
  BY <1>1, CommandsAssumption
     DEF Init, allocate_fifo, MemTypeOK
<1>3. PpuTypeOK
  BY <1>1 DEF Init, PpuInit, PpuTypeOK
<1>4. SpuTypeOK
  BY <1>1 DEF Init, SpuInit, SpuTypeOK, SpuPcs, Tasks
<1> QED
  BY <1>2, <1>3, <1>4 DEF TypeOK

(* The steps of the PPU keep the types.                                    *)
LEMMA TypePpu ==
  ASSUME TypeOK, PpuNext, UNCHANGED spuVars
  PROVE  TypeOK'
<1>1. SpuTypeOK'
  BY DEF TypeOK, SpuTypeOK, spuVars
<1>2. PICK s \in Spes :
        (\E command \in Commands : Fill(s, command)) \/ Show(s) \/ Collect(s)
  BY DEF PpuNext
<1>3. NextSlot(s) \in Slots /\ ringInc(collected[s], MaxEntries) \in Slots
  <2>1. 0 \in Slots /\ atomic_count[s] \in Slots /\ collected[s] \in Slots
    BY EntriesAssumption, SMT DEF TypeOK, MemTypeOK, PpuTypeOK, Slots
  <2> QED
    BY <2>1, IncrementIsInc DEF NextSlot
<1>4. CASE \E command \in Commands : Fill(s, command)
  <2>1. PICK command \in Commands : Fill(s, command)
    BY <1>4
  <2>2. command \in CommandWords
    BY CommandsAssumption
  <2> QED
    BY <1>1, <2>1, <2>2, <1>3 DEF Fill, TypeOK, MemTypeOK, PpuTypeOK
<1>5. CASE Show(s)
  BY <1>1, <1>3, <1>5 DEF Show, TypeOK, MemTypeOK, PpuTypeOK
<1>6. CASE Collect(s)
  BY <1>1, <1>3, <1>6 DEF Collect, TypeOK, MemTypeOK, PpuTypeOK
<1> QED
  BY <1>2, <1>4, <1>5, <1>6

(* The steps of the SPUs and their MFCs keep the types.                    *)
LEMMA TypeSpu ==
  ASSUME TypeOK, SpuNext, UNCHANGED ppuVars
  PROVE  TypeOK'
<1>1. PpuTypeOK'
  BY DEF TypeOK, PpuTypeOK, ppuVars
<1>2. PICK s \in Spes : pipeline(s) \/ Mfc(s)
  BY DEF SpuNext
<1> USE DEF TypeOK
<1>3. /\ \A n \in 1 .. STAGES : Context(s, n) \in Ctx
      /\ 1 \in 1 .. STAGES /\ 2 \in 1 .. STAGES /\ 3 \in 1 .. STAGES
      /\ 4 \in 1 .. STAGES
  BY ContextsOfStages, SMT DEF STAGES
<1>4. /\ increment(in_back[s], MaxEntries) \in Slots
      /\ increment(out_back[s], MaxEntries) \in Slots
      /\ MaxEntries - 1 \in Slots /\ 0 \in Slots
      /\ check_tasks(s) \in Slots
  <2>1. in_back[s] \in Slots /\ out_back[s] \in Slots
    BY DEF SpuTypeOK
  <2>2. MaxEntries - 1 \in Slots /\ 0 \in Slots
    BY EntriesAssumption, SMT DEF Slots
  <2>3. check_tasks(s) \in Slots
    BY DEF check_tasks, SpuTypeOK, MemTypeOK
  <2> QED
    BY <2>1, <2>2, <2>3, IncrementIsInc
<1>5. CASE SpuMain(s)
  BY <1>1, <1>4, <1>5 DEF SpuMain, SpuTypeOK, MemTypeOK, memVars, SpuPcs
<1>6. CASE stage1(s)
  <2>1. PICK c \in Ctx : c = Context(s, 1)
    BY <1>3
  <2>2. MemTypeOK'
    BY <1>6 DEF stage1, MemTypeOK, memVars
  <2>3. dma' \in [Spes -> SUBSET Dma]
    <3>1. PICK x \in Dma : x = [op |-> "get", tag |-> c, slot |-> in_back[s]]
      BY DEF Dma, SpuTypeOK
    <3>2. dma' = dma \/ dma' = [dma EXCEPT ![s] = @ \cup {x}]
      BY <1>6, <2>1, <3>1 DEF stage1
    <3>3. dma[s] \cup {x} \in SUBSET Dma
      BY DEF SpuTypeOK
    <3> QED
      BY <3>2, <3>3 DEF SpuTypeOK
  <2>4. active' \in [Spes -> [Ctx -> {0, 1}]]
    <3>1. active' = active \/ active' = [active EXCEPT ![s][c] = 1]
      BY <1>6, <2>1 DEF stage1
    <3>2. [active EXCEPT ![s][c] = 1] \in [Spes -> [Ctx -> {0, 1}]]
      BY DEF SpuTypeOK
    <3> QED
      BY <3>1, <3>2, Zenon DEF SpuTypeOK
  <2>5. in_back' \in [Spes -> Slots] /\ entry' \in [Spes -> [Ctx -> Slots]]
    <3>1. PICK next \in Slots : next = increment(in_back[s], MaxEntries)
      BY <1>4
    <3>2. in_back' = in_back \/ in_back' = [in_back EXCEPT ![s] = next]
      BY <1>6, <3>1 DEF stage1
    <3>3. entry' = entry \/ entry' = [entry EXCEPT ![s][c] = next]
      BY <1>6, <2>1, <3>1 DEF stage1
    <3>4. in_back' \in [Spes -> Slots]
      BY <3>2 DEF SpuTypeOK
    <3>5. [entry EXCEPT ![s][c] = next] \in [Spes -> [Ctx -> Slots]]
      BY DEF SpuTypeOK
    <3>6. entry' \in [Spes -> [Ctx -> Slots]]
      BY <3>3, <3>5, Zenon DEF SpuTypeOK
    <3> QED
      BY <3>4, <3>6
  <2>6. tfront' \in [Spes -> Slots]
    BY <1>4, <1>6 DEF stage1, SpuTypeOK
  <2>7. spu_pc' \in [Spes -> SpuPcs]
    BY <1>6 DEF stage1, SpuTypeOK, SpuPcs
  <2>8. SpuTypeOK'
    BY <1>6, <2>3, <2>4, <2>5, <2>6, <2>7 DEF stage1, SpuTypeOK
  <2> QED
    BY <1>1, <2>2, <2>8
<1>7. CASE stage2(s)
  <2>1. spu_pc' \in [Spes -> SpuPcs]
    BY <1>7, LookupsAssumption DEF stage2, Lookup, SpuTypeOK, SpuPcs
  <2> QED
    BY <1>1, <1>7, <2>1 DEF stage2, SpuTypeOK, MemTypeOK, memVars
<1>8. CASE stage3(s)
  <2>1. spu_pc' \in [Spes -> SpuPcs]
    BY <1>8, LookupsAssumption DEF stage3, Lookup, SpuTypeOK, SpuPcs
  <2>2. task[s][Context(s, 3)].slot \in Slots
    BY <1>3, <1>4 DEF SpuTypeOK, Tasks, Unfetched
  <2>3. executed' \in [Spes -> Slots \cup {NoSlot}]
    BY <1>8, <2>2 DEF stage3, SpuTypeOK
  <2> QED
    BY <1>1, <1>8, <2>1, <2>3 DEF stage3, SpuTypeOK, MemTypeOK, memVars
<1>9. CASE stage4(s)
  <2>1. PICK c \in Ctx : c = Context(s, 4)
    BY <1>3
  <2>2. MemTypeOK'
    BY <1>9 DEF stage4, MemTypeOK, memVars
  <2>3. dma' \in [Spes -> SUBSET Dma]
    <3>1. PICK x \in Dma : x = [op |-> "put", tag |-> c, slot |-> entry[s][c]]
      BY DEF Dma, SpuTypeOK
    <3>2. dma' = dma \/ dma' = [dma EXCEPT ![s] = @ \cup {x}]
      BY <1>9, <2>1, <3>1 DEF stage4
    <3>3. dma[s] \cup {x} \in SUBSET Dma
      BY DEF SpuTypeOK
    <3> QED
      BY <3>2, <3>3 DEF SpuTypeOK
  <2>4. active' \in [Spes -> [Ctx -> {0, 1}]]
    <3>1. active' = active \/ active' = [active EXCEPT ![s][c] = 0]
      BY <1>9, <2>1 DEF stage4, RetiredActive
    <3>2. [active EXCEPT ![s][c] = 0] \in [Spes -> [Ctx -> {0, 1}]]
      BY DEF SpuTypeOK
    <3> QED
      BY <3>1, <3>2, Zenon DEF SpuTypeOK
  <2>5. entry' \in [Spes -> [Ctx -> Slots]]
    <3>1. entry' = entry \/ entry' = [entry EXCEPT ![s][c] = 0]
      BY <1>9, <2>1 DEF stage4
    <3>2. [entry EXCEPT ![s][c] = 0] \in [Spes -> [Ctx -> Slots]]
      BY <1>4 DEF SpuTypeOK
    <3> QED
      BY <3>1, <3>2, Zenon DEF SpuTypeOK
  <2>6. task' \in [Spes -> [Ctx -> Tasks]]
    <3>1. Unfetched \in Tasks
      BY DEF Tasks
    <3>2. task' = task \/ task' = [task EXCEPT ![s][c] = Unfetched]
      BY <1>9, <2>1 DEF stage4
    <3>3. [task EXCEPT ![s][c] = Unfetched] \in [Spes -> [Ctx -> Tasks]]
      BY <3>1 DEF SpuTypeOK
    <3> QED
      BY <3>2, <3>3, Zenon DEF SpuTypeOK
  <2>7. out_back' \in [Spes -> Slots]
    <3>1. \/ out_back' = out_back
          \/ out_back' = [out_back EXCEPT ![s] = increment(out_back[s], MaxEntries)]
      BY <1>9 DEF stage4
    <3> QED
      BY <1>4, <3>1 DEF SpuTypeOK
  <2>8. cycle' \in [Spes -> 0 .. (Cycles - 1)]
    <3>1. NextCycle(cycle[s]) \in 0 .. (Cycles - 1)
      BY CyclesAssumption, SMT DEF NextCycle, SpuTypeOK, STAGES
    <3>2. cycle' = [cycle EXCEPT ![s] = NextCycle(cycle[s])]
      BY <1>9 DEF stage4
    <3> QED
      BY <3>1, <3>2 DEF SpuTypeOK
  <2>9. spu_pc' \in [Spes -> SpuPcs]
    BY <1>9 DEF stage4, SpuTypeOK, SpuPcs
  <2>10. SpuTypeOK'
    BY <1>9, <2>3, <2>4, <2>5, <2>6, <2>7, <2>8, <2>9 DEF stage4, SpuTypeOK
  <2> QED
    BY <1>1, <2>2, <2>10
<1>10. CASE Mfc(s)
  <2>1. PICK d \in dma[s] : MfcGet(s, d) \/ MfcPut(s, d)
    BY <1>10 DEF Mfc, MfcTag
  <2>2. d \in Dma
    BY DEF SpuTypeOK
  <2>3. CASE MfcGet(s, d)
    <3>1. [cmd |-> task_fifo[s][d.slot], slot |-> d.slot] \in Tasks
      BY <2>2 DEF Tasks, Dma, MemTypeOK
    <3> QED
      BY <1>1, <2>2, <2>3, <3>1 DEF MfcGet, SpuTypeOK, MemTypeOK, memVars, Dma
  <2>4. CASE MfcPut(s, d)
    BY <1>1, <2>2, <2>4, AckWordsAssumption
       DEF MfcPut, SpuTypeOK, MemTypeOK, Dma
  <2> QED
    BY <2>1, <2>3, <2>4
<1> QED
  BY <1>2, <1>5, <1>6, <1>7, <1>8, <1>9, <1>10 DEF pipeline

(***************************************************************************)
(* The variables of the pipeline, of its MFC and of the shared memory keep *)
(* their types: every index stays in its ring, every context number below  *)
(* four and the unsigned counter in its range.                             *)
(***************************************************************************)
THEOREM TypeCorrect ==
  Spec => []TypeOK
<1>1. TypeOK /\ [Next]_vars => TypeOK'
  <2> SUFFICES ASSUME TypeOK, [Next]_vars PROVE TypeOK'
    OBVIOUS
  <2>1. CASE PpuNext /\ UNCHANGED spuVars
    BY <2>1, TypePpu
  <2>2. CASE SpuNext /\ UNCHANGED ppuVars
    BY <2>2, TypeSpu
  <2>3. CASE UNCHANGED vars
    BY <2>3 DEF vars, ppuVars, spuVars, memVars, TypeOK, MemTypeOK, PpuTypeOK,
                SpuTypeOK
  <2> QED
    BY <2>1, <2>2, <2>3 DEF Next
<1> QED
  BY TypeInit, <1>1, PTL DEF Spec

-----------------------------------------------------------------------------
(* The load of the stages, written out.                                    *)
LEMMA LoadIs ==
  ASSUME TypeOK, NEW s \in Spes
  PROVE  /\ \A n \in 1 .. STAGES : active[s][Context(s, n)] \in {0, 1}
         /\ Load(s, 4) = active[s][Context(s, 4)]
         /\ Load(s, 3) = active[s][Context(s, 3)] + Load(s, 4)
         /\ Load(s, 2) = active[s][Context(s, 2)] + Load(s, 3)
         /\ Load(s, 1) = active[s][Context(s, 1)] + Load(s, 2)
<1>1. \A n \in 1 .. STAGES : active[s][Context(s, n)] \in {0, 1}
  BY ContextsOfStages DEF TypeOK, SpuTypeOK
<1>2. /\ active[s][Context(s, 1)] \in {0, 1}
      /\ active[s][Context(s, 2)] \in {0, 1}
      /\ active[s][Context(s, 3)] \in {0, 1}
      /\ active[s][Context(s, 4)] \in {0, 1}
  BY <1>1, SMT DEF STAGES
<1> QED
  BY <1>1, <1>2, SMT DEF Load

(* A stage's load counts its own context, and stage1's counts them all.    *)
LEMMA LoadRange ==
  ASSUME TypeOK, NEW s \in Spes, NEW n \in 1 .. STAGES
  PROVE  /\ Load(s, n) \in 0 .. STAGES
         /\ active[s][Context(s, n)] <= Load(s, n)
         /\ Load(s, n) <= Load(s, 1)
         /\ \A m \in 1 .. STAGES :
              m < n => Load(s, n) + active[s][Context(s, m)] <= Load(s, m)
<1>1. /\ active[s][Context(s, 1)] \in {0, 1}
      /\ active[s][Context(s, 2)] \in {0, 1}
      /\ active[s][Context(s, 3)] \in {0, 1}
      /\ active[s][Context(s, 4)] \in {0, 1}
  BY LoadIs, SMT DEF STAGES
<1>2. n \in {1, 2, 3, 4} /\ \A m \in 1 .. STAGES : m \in {1, 2, 3, 4}
  BY SMT DEF STAGES
<1> QED
  BY <1>1, <1>2, LoadIs, SMT DEF STAGES

(* The indices and their distances from the slot collected next are slot   *)
(* numbers.                                                                *)
LEMMA DepthsInRing ==
  ASSUME TypeOK, NEW s \in Spes
  PROVE  /\ collected[s] \in Slots /\ NextSlot(s) \in Slots
         /\ Started(s, out_back[s]) \in Slots /\ Started(s, in_back[s]) \in Slots
         /\ Started(s, tfront[s]) \in Slots
         /\ \A k \in Slots : Depth(s, k) \in Slots
         /\ Retired(s) \in Slots /\ Fetched(s) \in Slots /\ Seen(s) \in Slots
         /\ Shown(s) \in Slots
<1>1. 0 \in Slots /\ MaxEntries - 1 \in Slots
  BY EntriesAssumption, SMT DEF Slots
<1>2. /\ collected[s] \in Slots /\ out_back[s] \in Slots /\ in_back[s] \in Slots
      /\ tfront[s] \in Slots /\ atomic_count[s] \in Slots
  BY DEF TypeOK, MemTypeOK, PpuTypeOK, SpuTypeOK
<1>3. /\ Started(s, out_back[s]) \in Slots /\ Started(s, in_back[s]) \in Slots
      /\ Started(s, tfront[s]) \in Slots
  BY <1>1, <1>2 DEF Started
<1>4. NextSlot(s) \in Slots
  BY <1>1, <1>2, IncrementIsInc DEF NextSlot
<1>5. \A k \in Slots : Depth(s, k) \in Slots
  BY <1>2, DistInRing DEF Depth
<1>6. /\ Retired(s) \in Slots /\ Fetched(s) \in Slots /\ Seen(s) \in Slots
      /\ Shown(s) \in Slots
  BY <1>3, <1>4, <1>5, IncrementIsInc DEF Retired, Fetched, Seen, Shown
<1> QED
  BY <1>2, <1>3, <1>4, <1>5, <1>6

(* What is between out_back and in_back is what is fetched and not retired.*)
LEMMA InThePipe ==
  ASSUME TypeOK, NEW s \in Spes, OrderInv(s), ContextInv(s)
  PROVE  Fetched(s) = Retired(s) + Load(s, 1)
<1> DEFINE i == Started(s, in_back[s])
           o == Started(s, out_back[s])
<1>1. i \in Slots /\ o \in Slots /\ collected[s] \in Slots
  BY DepthsInRing
<1>2. ringInc(i, MaxEntries) \in Slots /\ ringInc(o, MaxEntries) \in Slots
  BY <1>1, IncrementIsInc
<1>3. Dist(ringInc(i, MaxEntries), ringInc(o, MaxEntries), MaxEntries)
        = Load(s, 1)
  BY <1>1, DistBothInc DEF ContextInv
<1>4. Fetched(s) - Retired(s) = Load(s, 1)
  BY <1>1, <1>2, <1>3, DistFrom DEF OrderInv, Fetched, Retired, Depth
<1>5. Fetched(s) \in Int /\ Retired(s) \in Int /\ Load(s, 1) \in Int
  BY DepthsInRing, LoadRange, SMT DEF Slots, STAGES
<1> QED
  BY <1>4, <1>5, SMT

(* The slot of an active context is one of those, and the contexts closer  *)
(* to stage4 come first.                                                   *)
LEMMA EntryDepth ==
  ASSUME TypeOK, NEW s \in Spes, OrderInv(s), ContextInv(s),
         NEW n \in 1 .. STAGES, active[s][Context(s, n)] = 1
  PROVE  LET e == entry[s][Context(s, n)] IN
         /\ e \in Slots
         /\ Depth(s, e) = Retired(s) + Load(s, n) - 1
         /\ Retired(s) <= Depth(s, e) /\ Depth(s, e) < Fetched(s)
<1> DEFINE e == entry[s][Context(s, n)]
           o == Started(s, out_back[s])
<1>1. e \in Slots /\ o \in Slots /\ collected[s] \in Slots
  BY DepthsInRing, ContextsOfStages DEF TypeOK, SpuTypeOK
<1>2. ringInc(o, MaxEntries) \in Slots
  BY <1>1, IncrementIsInc
<1>3. Dist(e, o, MaxEntries) = Load(s, n)
  BY DEF ContextInv
<1>4. Load(s, n) \in 1 .. Load(s, 1) /\ Load(s, 1) \in Nat
  BY LoadRange, SMT DEF STAGES
<1>5. Dist(e, ringInc(o, MaxEntries), MaxEntries) = Load(s, n) - 1
  BY <1>1, <1>3, <1>4, DistIncBase, DistInRing, SMT
<1>6. /\ Retired(s) \in Nat /\ Fetched(s) \in Nat /\ Fetched(s) < MaxEntries
      /\ Fetched(s) = Retired(s) + Load(s, 1)
  BY InThePipe, DepthsInRing, EntriesAssumption, SMT DEF Slots
<1>7. Depth(s, e) = Retired(s) + Load(s, n) - 1
  <2>1. Retired(s) = Dist(ringInc(o, MaxEntries), collected[s], MaxEntries)
    BY DEF Retired, Depth
  <2> DEFINE b == ringInc(o, MaxEntries)
  <2>2. b \in Slots
    BY <1>2
  <2>3. Retired(s) + (Load(s, n) - 1) < MaxEntries
    BY <1>4, <1>6, EntriesAssumption, SMT
  <2> HIDE DEF b, e, o
  <2>4. Dist(e, b, MaxEntries) = Load(s, n) - 1
        /\ Retired(s) = Dist(b, collected[s], MaxEntries)
    BY <1>5, <2>1 DEF b
  <2>5. Dist(e, collected[s], MaxEntries) = Retired(s) + (Load(s, n) - 1)
    BY <1>1, <2>2, <2>3, <2>4, DistAdd
  <2> QED
    BY <1>4, <1>6, <2>5, SMT DEF Depth
<1> QED
  BY <1>1, <1>4, <1>6, <1>7, SMT

-----------------------------------------------------------------------------
(* The program starts with an empty ring and an empty pipeline.            *)
LEMMA RowInit ==
  ASSUME Init, NEW s \in Spes
  PROVE  RowInv(s)
<1>1. TypeOK
  BY TypeInit
<1>2. /\ collected[s] = 0 /\ filled[s] = FALSE /\ atomic_count[s] = 0
      /\ atomic_state[s] = 0 /\ spu_pc[s] = "boot" /\ dma[s] = {}
      /\ \A c \in Ctx : active[s][c] = 0
      /\ \A k \in Slots : ack_fifo[s][k] = ACK_CLEAR
  BY DEF Init, allocate_fifo, PpuInit, SpuInit
<1>3. /\ Started(s, in_back[s]) = MaxEntries - 1
      /\ Started(s, out_back[s]) = MaxEntries - 1
      /\ Started(s, tfront[s]) = MaxEntries - 1
  BY <1>2 DEF Started
<1>4. /\ Retired(s) = 0 /\ Fetched(s) = 0 /\ Seen(s) = 0 /\ Shown(s) = 0
      /\ \A k \in Slots : Depth(s, k) = k
  BY <1>2, <1>3, EntriesAssumption, SMT
     DEF Retired, Fetched, Seen, Shown, Depth, Dist, ringInc, NextSlot, Slots
<1>5. OrderInv(s)
  BY <1>2, <1>4, SMT DEF OrderInv
<1>6. \A n \in 1 .. STAGES : active[s][Context(s, n)] = 0
  BY <1>1, <1>2, ContextsOfStages DEF TypeOK
<1>7. Load(s, 1) = 0
  BY <1>6, SMT DEF Load, STAGES
<1>8. ContextInv(s)
  BY <1>2, <1>3, <1>6, <1>7, EntriesAssumption, SMT DEF ContextInv, Dist, STAGES
<1>9. FetchInv(s)
  BY <1>2, <1>6, SMT DEF FetchInv, STAGES
<1>10. AckInv(s)
  BY <1>2, <1>4, SMT DEF AckInv, Puts, Slots
<1> QED
  BY <1>5, <1>8, <1>9, <1>10 DEF RowInv

(* The PPU fills a slot: none of those the pipeline fetches or holds.      *)
LEMMA FillKeepsRow ==
  ASSUME TypeOK, NEW s \in Spes, RowInv(s), NEW command \in Commands,
         Fill(s, command), UNCHANGED spuVars
  PROVE  RowInv(s)'
<1>1. /\ Started(s, tfront[s])' = Started(s, tfront[s])
      /\ Started(s, in_back[s])' = Started(s, in_back[s])
      /\ Started(s, out_back[s])' = Started(s, out_back[s])
  BY DEF Started, spuVars
<1>2. Shown(s) <= MaxEntries - 2
  <2>1. ringInc(NextSlot(s), MaxEntries) # collected[s]
    BY DEF Fill, ringHasFree, ringInc
  <2>2. NextSlot(s) \in Slots /\ collected[s] \in Slots
    BY DepthsInRing
  <2> QED
    BY <2>1, <2>2, EntriesAssumption, SMT DEF Shown, Depth, Slots, Dist, ringInc
<1>3. OrderInv(s)'
  <2>1. OrderInv(s) /\ UNCHANGED <<collected, atomic_count, atomic_state>>
    BY DEF Fill, RowInv
  <2>2. /\ Retired(s)' = Retired(s) /\ Fetched(s)' = Fetched(s)
        /\ Seen(s)' = Seen(s) /\ Shown(s)' = Shown(s)
    BY <1>1, <2>1 DEF Retired, Fetched, Seen, Shown, Depth, NextSlot
  <2>3. spu_pc' = spu_pc
    BY DEF spuVars
  <2> QED
    BY <1>2, <2>1, <2>2, <2>3 DEF OrderInv
<1>4. ContextInv(s)'
  BY <1>1, ContextFrame DEF RowInv, spuVars
<1>5. AckInv(s)'
  BY <1>1, AckFrame DEF RowInv, spuVars, Fill
<1>6. \A c \in Ctx : active[s][c] = 1 =>
        /\ Before(entry[s][c]) \in Slots
        /\ Before(entry[s][c]) # NextSlot(s)
  <2> SUFFICES ASSUME NEW c \in Ctx, active[s][c] = 1
               PROVE  /\ Before(entry[s][c]) \in Slots
                      /\ Before(entry[s][c]) # NextSlot(s)
    OBVIOUS
  <2>1. PICK n \in 1 .. STAGES : c = Context(s, n)
    BY ContextsOfStages DEF TypeOK
  <2>2. entry[s][c] \in Slots /\ Depth(s, entry[s][c]) < Fetched(s)
    BY <2>1, EntryDepth DEF RowInv
  <2>3. Before(entry[s][c]) \in Slots
        /\ entry[s][c] = ringInc(Before(entry[s][c]), MaxEntries)
    BY <2>2, BeforeInRing
  <2>4. ASSUME Before(entry[s][c]) = NextSlot(s) PROVE FALSE
    <3>1. Depth(s, entry[s][c]) = Shown(s) + 1
      BY <1>2, <2>3, <2>4, DistInc, DepthsInRing, EntriesAssumption, SMT
         DEF Shown, Depth, Slots
    <3> QED
      BY <2>2, <3>1, DepthsInRing, EntriesAssumption, SMT
         DEF RowInv, OrderInv, Slots
  <2> QED
    BY <2>3, <2>4
<1>7. FetchInv(s)'
  <2>1. UNCHANGED <<cycle, active, entry, task, dma, spu_pc>>
    BY DEF spuVars
  <2>2. \A k \in Slots : k # NextSlot(s) => task_fifo'[s][k] = task_fifo[s][k]
    BY DEF Fill, TypeOK, MemTypeOK
  <2>3. \A c \in Ctx : FetchOf(s, c)' = FetchOf(s, c)
    BY <2>1 DEF FetchOf
  <2>4. \A c \in Ctx : active[s][c] = 1 => TaskOf(s, c)' = TaskOf(s, c)
    BY <2>1, <2>2, <1>6 DEF TaskOf
  <2>5. \A d \in dma[s] : d.op = "get" => d.tag \in Ctx
    BY DEF TypeOK, SpuTypeOK, Dma
  <2>6. \A n \in 1 .. STAGES : Context(s, n)' = Context(s, n)
    BY <2>1 DEF Context
  <2>7. \A n \in 1 .. STAGES : TagDone(s, Context(s, n))' = TagDone(s, Context(s, n))
    BY <2>1, <2>6 DEF TagDone
  <2>8. \A n \in 2 .. STAGES : n \in 1 .. STAGES
    BY SMT DEF STAGES
  <2>9. FetchInv(s)
    BY DEF RowInv
  <2>10. \A d \in dma[s] :
           d.op = "get" => active[s][d.tag] = 1 /\ d = FetchOf(s, d.tag)'
    BY <2>3, <2>5, <2>9 DEF FetchInv
  <2>11. \A c \in Ctx : active[s][c] = 1 =>
           FetchOf(s, c)' \in dma[s] \/ task[s][c] = TaskOf(s, c)'
    BY <2>3, <2>4, <2>9 DEF FetchInv
  <2>12. \A n \in 2 .. STAGES :
           active[s][Context(s, n)'] = 1
             /\ (n = 2 => spu_pc[s] \in {"stage3", "stage4"})
               => TagDone(s, Context(s, n))'
    BY <2>6, <2>7, <2>8, <2>9 DEF FetchInv
  <2> QED
    BY <2>1, <2>10, <2>11, <2>12 DEF FetchInv
<1> QED
  BY <1>3, <1>4, <1>5, <1>7 DEF RowInv

(* The PPU shows the slot that it has filled.                              *)
LEMMA ShowKeepsRow ==
  ASSUME TypeOK, NEW s \in Spes, RowInv(s), Show(s), UNCHANGED spuVars
  PROVE  RowInv(s)'
<1>1. /\ Started(s, tfront[s])' = Started(s, tfront[s])
      /\ Started(s, in_back[s])' = Started(s, in_back[s])
      /\ Started(s, out_back[s])' = Started(s, out_back[s])
  BY DEF Started, spuVars
<1>2. /\ filled[s] /\ filled'[s] = FALSE
      /\ atomic_state'[s] = 1 /\ atomic_count'[s] = NextSlot(s)
      /\ UNCHANGED <<collected, task_fifo, ack_fifo>>
  BY DEF Show, TypeOK, PpuTypeOK, MemTypeOK
<1>3. Shown(s)' = Shown(s) + 1
  <2>1. NextSlot(s)' = ringInc(NextSlot(s), MaxEntries)
    BY <1>2 DEF NextSlot
  <2>2. Shown(s) <= MaxEntries - 2
    BY <1>2 DEF RowInv, OrderInv
  <2>3. NextSlot(s) \in Slots /\ collected[s] \in Slots
    BY DepthsInRing
  <2>4. Dist(ringInc(NextSlot(s), MaxEntries), collected[s], MaxEntries)
          = Dist(NextSlot(s), collected[s], MaxEntries) + 1
    BY <2>2, <2>3, EntriesAssumption, SMT DEF Shown, Depth, Slots, Dist, ringInc
  <2> QED
    BY <1>2, <2>1, <2>4 DEF Shown, Depth
<1>4. OrderInv(s)'
  <2>1. /\ Retired(s)' = Retired(s) /\ Fetched(s)' = Fetched(s)
        /\ Seen(s)' = Seen(s)
    BY <1>1, <1>2 DEF Retired, Fetched, Seen, Depth
  <2>2. Seen(s) \in Int /\ Shown(s) \in Int
    BY DepthsInRing, EntriesAssumption, SMT DEF Slots
  <2>3. spu_pc' = spu_pc
    BY DEF spuVars
  <2> QED
    BY <1>2, <1>3, <2>1, <2>2, <2>3, SMT DEF RowInv, OrderInv
<1>5. ContextInv(s)'
  BY <1>1, ContextFrame DEF RowInv, spuVars
<1>6. FetchInv(s)'
  BY <1>2, FetchFrame DEF RowInv, spuVars
<1>7. AckInv(s)'
  BY <1>1, <1>2, AckFrame DEF RowInv, spuVars
<1> QED
  BY <1>4, <1>5, <1>6, <1>7 DEF RowInv

(* The PPU collects an acknowledgement: every other slot comes one closer. *)
LEMMA CollectKeepsRow ==
  ASSUME TypeOK, NEW s \in Spes, RowInv(s), Collect(s), UNCHANGED spuVars
  PROVE  RowInv(s)'
<1>1. /\ Started(s, tfront[s])' = Started(s, tfront[s])
      /\ Started(s, in_back[s])' = Started(s, in_back[s])
      /\ Started(s, out_back[s])' = Started(s, out_back[s])
  BY DEF Started, spuVars
<1>2. /\ ack_fifo[s][collected[s]] # ACK_CLEAR
      /\ ack_fifo'[s][collected[s]] = ACK_CLEAR
      /\ \A k \in Slots : k # collected[s] => ack_fifo'[s][k] = ack_fifo[s][k]
      /\ collected'[s] = ringInc(collected[s], MaxEntries)
      /\ UNCHANGED <<filled, task_fifo, atomic_count, atomic_state>>
  BY DepthsInRing DEF Collect, TypeOK, PpuTypeOK, MemTypeOK
<1>3. collected[s] \in Slots
  BY DepthsInRing
<1>4. \A k \in Slots : Depth(s, k)' = IF k = collected[s] THEN MaxEntries - 1
                                      ELSE Depth(s, k) - 1
  BY <1>2, <1>3, DistIncBase DEF Depth
<1>5. \A k \in Slots : Depth(s, k) = 0 <=> k = collected[s]
  BY <1>3, DistInRing DEF Depth
<1>6. 0 < Retired(s)
  <2>1. Depth(s, collected[s]) < Retired(s)
    BY <1>2, <1>3 DEF RowInv, AckInv
  <2> QED
    BY <1>3, <1>5, <2>1
<1>7. Puts(s, collected[s]) = {}
  BY <1>2, <1>3 DEF RowInv, AckInv
<1>8. /\ Retired(s) \in Int /\ Fetched(s) \in Int /\ Seen(s) \in Int
      /\ Shown(s) \in Int /\ \A k \in Slots : Depth(s, k) \in Nat
  BY DepthsInRing, EntriesAssumption, SMT DEF Slots
<1>9. /\ Retired(s)' = Retired(s) - 1 /\ Fetched(s)' = Fetched(s) - 1
      /\ Seen(s)' = Seen(s) - 1 /\ Shown(s)' = Shown(s) - 1
  <2>1. 0 < Fetched(s) /\ 0 < Seen(s) /\ 0 < Shown(s)
    BY <1>6, <1>8, SMT DEF RowInv, OrderInv
  <2>2. /\ ringInc(Started(s, out_back[s]), MaxEntries) \in Slots
        /\ ringInc(Started(s, in_back[s]), MaxEntries) \in Slots
        /\ ringInc(Started(s, tfront[s]), MaxEntries) \in Slots
        /\ NextSlot(s) \in Slots
    BY DepthsInRing, IncrementIsInc
  <2>3. NextSlot(s)' = NextSlot(s)
    BY <1>2 DEF NextSlot
  <2>4. /\ Depth(s, ringInc(Started(s, out_back[s]), MaxEntries)) # 0
        /\ Depth(s, ringInc(Started(s, in_back[s]), MaxEntries)) # 0
        /\ Depth(s, ringInc(Started(s, tfront[s]), MaxEntries)) # 0
        /\ Depth(s, NextSlot(s)) # 0
    BY <1>6, <2>1, <1>8, SMT DEF Retired, Fetched, Seen, Shown
  <2>5. ASSUME NEW k \in Slots, Depth(s, k) # 0
        PROVE  Dist(k, collected'[s], MaxEntries) = Depth(s, k) - 1
    BY <1>4, <1>5, <2>5 DEF Depth
  <2>6. Shown(s)' = Shown(s) - 1
    BY <2>2, <2>3, <2>4, <2>5 DEF Shown, Depth
  <2>7. Retired(s)' = Retired(s) - 1
    BY <1>1, <2>2, <2>4, <2>5 DEF Retired, Depth
  <2>8. Fetched(s)' = Fetched(s) - 1
    BY <1>1, <2>2, <2>4, <2>5 DEF Fetched, Depth
  <2>9. Seen(s)' = Seen(s) - 1
    BY <1>1, <2>2, <2>4, <2>5 DEF Seen, Depth
  <2> QED
    BY <2>6, <2>7, <2>8, <2>9
<1>10. OrderInv(s)'
  <2>1. spu_pc' = spu_pc /\ spu_pc[s] # "boot"
    BY <1>6, SMT DEF spuVars, RowInv, OrderInv
  <2>2. atomic_state[s] # 0
    <3>1. SUFFICES ASSUME atomic_state[s] = 0 PROVE FALSE
      OBVIOUS
    <3>2. NextSlot(s) = collected[s]
      BY <3>1 DEF NextSlot, RowInv, OrderInv
    <3>3. Shown(s) = 0
      BY <1>3, <1>5, <3>2 DEF Shown
    <3> QED
      BY <1>6, <1>8, <3>3, SMT DEF RowInv, OrderInv
  <2> QED
    BY <1>2, <1>8, <1>9, <2>1, <2>2, EntriesAssumption, SMT DEF RowInv, OrderInv
<1>11. ContextInv(s)'
  BY <1>1, ContextFrame DEF RowInv, spuVars
<1>12. FetchInv(s)'
  BY <1>2, FetchFrame DEF RowInv, spuVars
<1>13. AckInv(s)'
  <2>1. \A k \in Slots : Puts(s, k)' = Puts(s, k)
    BY DEF Puts, spuVars
  <2>2. \A k \in Slots : k # collected[s] =>
          (Depth(s, k)' < Retired(s)' <=> Depth(s, k) < Retired(s))
    BY <1>4, <1>8, <1>9, SMT
  <2>3. \A k \in Slots : k = collected[s] => ~(Depth(s, k)' < Retired(s)')
    <3>1. Retired(s) \in Slots
      BY DepthsInRing
    <3> QED
      BY <1>4, <1>8, <1>9, <3>1, EntriesAssumption, SMT DEF Slots
  <2>4. AckInv(s)
    BY DEF RowInv
  <2>5. \A k \in Slots :
          /\ Puts(s, k)' # {} => (Depth(s, k) < Retired(s))'
                                  /\ ack_fifo'[s][k] = ACK_CLEAR
          /\ ack_fifo'[s][k] # ACK_CLEAR => (Depth(s, k) < Retired(s))'
          /\ \A d, e \in Puts(s, k)' : d = e
    BY <1>2, <1>3, <1>7, <2>1, <2>2, <2>4 DEF AckInv
  <2>6. ACK_CLEAR \notin AckWords =>
          \A k \in Slots : (Depth(s, k) < Retired(s))' =>
                             Puts(s, k)' # {} \/ ack_fifo'[s][k] # ACK_CLEAR
    BY <1>2, <2>1, <2>2, <2>3, <2>4 DEF AckInv
  <2> QED
    BY <2>5, <2>6 DEF AckInv
<1> QED
  BY <1>10, <1>11, <1>12, <1>13 DEF RowInv

-----------------------------------------------------------------------------
(* main sets the indices to what they have counted as until then.          *)
LEMMA MainKeepsRow ==
  ASSUME TypeOK, NEW s \in Spes, RowInv(s), SpuMain(s), UNCHANGED ppuVars
  PROVE  RowInv(s)'
<1>1. /\ spu_pc[s] = "boot" /\ spu_pc'[s] = "stage1"
      /\ tfront'[s] = MaxEntries - 1 /\ in_back'[s] = MaxEntries - 1
      /\ out_back'[s] = MaxEntries - 1
      /\ UNCHANGED <<cycle, active, entry, task, dma, collected, filled,
                     task_fifo, ack_fifo, atomic_count, atomic_state>>
  BY DEF SpuMain, TypeOK, SpuTypeOK, memVars, ppuVars
<1>2. /\ Started(s, tfront[s])' = Started(s, tfront[s])
      /\ Started(s, in_back[s])' = Started(s, in_back[s])
      /\ Started(s, out_back[s])' = Started(s, out_back[s])
  BY <1>1 DEF Started
<1>3. OrderInv(s)'
  BY <1>1, <1>2, OrderFrame DEF RowInv
<1>4. ContextInv(s)'
  BY <1>1, <1>2, ContextFrame DEF RowInv
<1>5. FetchInv(s)'
  BY <1>1, FetchFrame DEF RowInv
<1>6. AckInv(s)'
  BY <1>1, <1>2, AckFrame DEF RowInv
<1> QED
  BY <1>3, <1>4, <1>5, <1>6 DEF RowInv

(* stage2 and stage3 move on without touching the indices or the contexts; *)
(* behind stage2 the fetch of its context is done.                         *)
LEMMA MiddleKeepsRow ==
  ASSUME TypeOK, NEW s \in Spes, RowInv(s), UNCHANGED ppuVars,
         stage2(s) \/ stage3(s)
  PROVE  RowInv(s)'
<1>1. /\ spu_pc[s] \in {"stage2", "stage3"}
      /\ spu_pc'[s] \in {"stage3", "stage4", "lost"}
      /\ UNCHANGED <<tfront, in_back, out_back, cycle, active, entry, task, dma,
                     collected, filled, task_fifo, ack_fifo, atomic_count,
                     atomic_state>>
  BY DEF stage2, stage3, Lookup, TypeOK, SpuTypeOK, memVars, ppuVars
<1>2. /\ Started(s, tfront[s])' = Started(s, tfront[s])
      /\ Started(s, in_back[s])' = Started(s, in_back[s])
      /\ Started(s, out_back[s])' = Started(s, out_back[s])
  BY <1>1 DEF Started
<1>3. OrderInv(s)'
  BY <1>1, <1>2, OrderFrame DEF RowInv
<1>4. ContextInv(s)'
  BY <1>1, <1>2, ContextFrame DEF RowInv
<1>5. FetchInv(s)'
  <2>1. active[s][Context(s, 2)] = 1 => TagDone(s, Context(s, 2))
    <3>1. CASE stage2(s)
      BY <3>1 DEF stage2
    <3>2. CASE stage3(s)
      BY <3>2, SMT DEF stage3, RowInv, FetchInv, STAGES
    <3> QED
      BY <3>1, <3>2
  <2>2. FetchInv(s)
    BY DEF RowInv
  <2>3. /\ \A n \in 2 .. STAGES : Context(s, n)' = Context(s, n)
        /\ Context(s, 2)' = Context(s, 2)
    BY <1>1 DEF Context
  <2>4. \A n \in 2 .. STAGES :
          active[s][Context(s, n)] = 1 => TagDone(s, Context(s, n))
    BY <2>1, <2>2 DEF FetchInv
  <2>5. \A n \in 2 .. STAGES :
          (active[s][Context(s, n)] = 1)' => TagDone(s, Context(s, n))'
    BY <1>1, <2>3, <2>4 DEF TagDone
  <2>6. /\ \A d \in dma[s] :
             d.op = "get" => active[s][d.tag] = 1 /\ d = FetchOf(s, d.tag)
        /\ \A c \in Ctx : active[s][c] = 1 =>
             FetchOf(s, c) \in dma[s] \/ task[s][c] = TaskOf(s, c)
    BY <2>2 DEF FetchInv
  <2>7. /\ \A d \in dma'[s] :
             d.op = "get" => active'[s][d.tag] = 1 /\ d = FetchOf(s, d.tag)'
        /\ \A c \in Ctx : active'[s][c] = 1 =>
             FetchOf(s, c)' \in dma'[s] \/ task'[s][c] = TaskOf(s, c)'
    BY <1>1, <2>6 DEF FetchOf, TaskOf
  <2> QED
    BY <2>5, <2>7 DEF FetchInv
<1>6. AckInv(s)'
  BY <1>1, <1>2, AckFrame DEF RowInv
<1> QED
  BY <1>3, <1>4, <1>5, <1>6 DEF RowInv

(* The MFC carries out a get: the context holds the task now.              *)
LEMMA GetKeepsRow ==
  ASSUME TypeOK, NEW s \in Spes, RowInv(s), NEW x \in dma[s], MfcGet(s, x),
         UNCHANGED ppuVars
  PROVE  RowInv(s)'
<1>1. x.op = "get" /\ x.tag \in Ctx
  BY DEF MfcGet, TypeOK, SpuTypeOK, Dma
<1>2. /\ dma'[s] = dma[s] \ {x}
      /\ task'[s][x.tag] = [cmd |-> task_fifo[s][x.slot], slot |-> x.slot]
      /\ \A c \in Ctx : c # x.tag => task'[s][c] = task[s][c]
      /\ UNCHANGED <<spu_pc, tfront, in_back, out_back, cycle, active, entry,
                     collected, filled, task_fifo, ack_fifo, atomic_count,
                     atomic_state>>
  BY <1>1 DEF MfcGet, TypeOK, SpuTypeOK, memVars, ppuVars
<1>3. /\ Started(s, tfront[s])' = Started(s, tfront[s])
      /\ Started(s, in_back[s])' = Started(s, in_back[s])
      /\ Started(s, out_back[s])' = Started(s, out_back[s])
  BY <1>2 DEF Started
<1>4. OrderInv(s)'
  BY <1>2, <1>3, OrderFrame DEF RowInv
<1>5. ContextInv(s)'
  BY <1>2, <1>3, ContextFrame DEF RowInv
<1>6. FetchInv(s)'
  <2>1. FetchInv(s)
    BY DEF RowInv
  <2>2. \A c \in Ctx : FetchOf(s, c)' = FetchOf(s, c) /\ TaskOf(s, c)' = TaskOf(s, c)
    BY <1>2 DEF FetchOf, TaskOf
  <2>3. \A d \in dma[s] : d.tag \in Ctx
    BY DEF TypeOK, SpuTypeOK, Dma
  <2>4. \A d \in dma'[s] :
          d.op = "get" => active'[s][d.tag] = 1 /\ d = FetchOf(s, d.tag)'
    BY <1>2, <2>1, <2>2, <2>3 DEF FetchInv
  <2>5. x = FetchOf(s, x.tag)
    BY <1>1, <2>1 DEF FetchInv
  <2>6. task'[s][x.tag] = TaskOf(s, x.tag)
    BY <1>2, <2>5 DEF FetchOf, TaskOf
  <2>7. \A c \in Ctx : c # x.tag => FetchOf(s, c) # x
    BY DEF FetchOf
  <2>8. \A c \in Ctx : active'[s][c] = 1 =>
          FetchOf(s, c)' \in dma'[s] \/ task'[s][c] = TaskOf(s, c)'
    BY <1>2, <2>1, <2>2, <2>6, <2>7 DEF FetchInv
  <2>9. \A n \in 2 .. STAGES :
          Context(s, n)' = Context(s, n)
          /\ (TagDone(s, Context(s, n)) => TagDone(s, Context(s, n))')
    BY <1>2 DEF Context, TagDone
  <2>10. \A n \in 2 .. STAGES :
          (active[s][Context(s, n)] = 1)'
            /\ (n = 2 => spu_pc'[s] \in {"stage3", "stage4"})
               => TagDone(s, Context(s, n))'
    BY <1>2, <2>1, <2>9 DEF FetchInv
  <2> QED
    BY <2>4, <2>8, <2>10 DEF FetchInv
<1>7. AckInv(s)'
  <2>1. \A k \in Slots : Puts(s, k)' = Puts(s, k)
    BY <1>1, <1>2 DEF Puts
  <2>2. /\ \A k \in Slots : Depth(s, k)' = Depth(s, k)
        /\ Retired(s)' = Retired(s)
    BY <1>2, <1>3 DEF Depth, Retired
  <2> QED
    BY <1>2, <2>1, <2>2 DEF RowInv, AckInv
<1> QED
  BY <1>4, <1>5, <1>6, <1>7 DEF RowInv

(* The MFC carries out a put: the slot's acknowledgement is there.         *)
LEMMA PutKeepsRow ==
  ASSUME TypeOK, NEW s \in Spes, RowInv(s), NEW x \in dma[s], MfcPut(s, x),
         UNCHANGED ppuVars
  PROVE  RowInv(s)'
<1>1. x.op = "put" /\ x.slot \in Slots
  BY DEF MfcPut, TypeOK, SpuTypeOK, Dma
<1>2. PICK w \in AckWords : ack_fifo' = [ack_fifo EXCEPT ![s][x.slot] = w]
  BY DEF MfcPut
<1>3. /\ dma'[s] = dma[s] \ {x}
      /\ UNCHANGED <<spu_pc, tfront, in_back, out_back, cycle, active, entry,
                     task, collected, filled, task_fifo, atomic_count,
                     atomic_state>>
  BY DEF MfcPut, TypeOK, SpuTypeOK, ppuVars
<1>4. /\ Started(s, tfront[s])' = Started(s, tfront[s])
      /\ Started(s, in_back[s])' = Started(s, in_back[s])
      /\ Started(s, out_back[s])' = Started(s, out_back[s])
  BY <1>3 DEF Started
<1>5. OrderInv(s)'
  BY <1>3, <1>4, OrderFrame DEF RowInv
<1>6. ContextInv(s)'
  BY <1>3, <1>4, ContextFrame DEF RowInv
<1>7. FetchInv(s)'
  <2>1. FetchInv(s)
    BY DEF RowInv
  <2>2. \A c \in Ctx : FetchOf(s, c)' = FetchOf(s, c) /\ TaskOf(s, c)' = TaskOf(s, c)
    BY <1>3 DEF FetchOf, TaskOf
  <2>3. \A d \in dma[s] : d.tag \in Ctx
    BY DEF TypeOK, SpuTypeOK, Dma
  <2>4. \A d \in dma'[s] :
          d.op = "get" => active'[s][d.tag] = 1 /\ d = FetchOf(s, d.tag)'
    BY <1>3, <2>1, <2>2, <2>3 DEF FetchInv
  <2>5. \A c \in Ctx : FetchOf(s, c) # x
    BY <1>1 DEF FetchOf
  <2>6. \A c \in Ctx : active'[s][c] = 1 =>
          FetchOf(s, c)' \in dma'[s] \/ task'[s][c] = TaskOf(s, c)'
    BY <1>3, <2>1, <2>2, <2>5 DEF FetchInv
  <2>7. \A n \in 2 .. STAGES :
          Context(s, n)' = Context(s, n)
          /\ (TagDone(s, Context(s, n)) => TagDone(s, Context(s, n))')
    BY <1>3 DEF Context, TagDone
  <2>8. \A n \in 2 .. STAGES :
          (active[s][Context(s, n)] = 1)'
            /\ (n = 2 => spu_pc'[s] \in {"stage3", "stage4"})
               => TagDone(s, Context(s, n))'
    BY <1>3, <2>1, <2>7 DEF FetchInv
  <2> QED
    BY <2>4, <2>6, <2>8 DEF FetchInv
<1>8. AckInv(s)'
  <2>1. /\ \A k \in Slots : Depth(s, k)' = Depth(s, k)
        /\ Retired(s)' = Retired(s)
    BY <1>3, <1>4 DEF Depth, Retired
  <2>2. AckInv(s)
    BY DEF RowInv
  <2>3. x \in Puts(s, x.slot)
    BY <1>1 DEF Puts
  <2>4. Depth(s, x.slot) < Retired(s) /\ \A d \in Puts(s, x.slot) : d = x
    BY <1>1, <2>2, <2>3 DEF AckInv
  <2>5. \A k \in Slots :
          Puts(s, k)' = IF k = x.slot THEN {} ELSE Puts(s, k)
    BY <1>1, <1>3, <2>4 DEF Puts
  <2>6. /\ \A k \in Slots : k # x.slot => ack_fifo'[s][k] = ack_fifo[s][k]
        /\ \A k \in Slots : k = x.slot => ack_fifo'[s][k] = w
    BY <1>1, <1>2 DEF TypeOK, MemTypeOK
  <2>7. \A k \in Slots :
          /\ Puts(s, k)' # {} => (Depth(s, k) < Retired(s))'
                                  /\ ack_fifo'[s][k] = ACK_CLEAR
          /\ ack_fifo'[s][k] # ACK_CLEAR => (Depth(s, k) < Retired(s))'
          /\ \A d, e \in Puts(s, k)' : d = e
    BY <1>1, <2>1, <2>2, <2>4, <2>5, <2>6 DEF AckInv
  <2>8. ACK_CLEAR \notin AckWords =>
          \A k \in Slots : (Depth(s, k) < Retired(s))' =>
                             Puts(s, k)' # {} \/ ack_fifo'[s][k] # ACK_CLEAR
    BY <1>1, <1>2, <2>1, <2>2, <2>5, <2>6 DEF AckInv
  <2> QED
    BY <2>7, <2>8 DEF AckInv
<1> QED
  BY <1>5, <1>6, <1>7, <1>8 DEF RowInv

(* stage1 looks at the lock line: what it sees has been shown, and when it *)
(* is not in_back there is a shown slot that is not fetched.               *)
LEMMA LookAtLine ==
  ASSUME TypeOK, NEW s \in Spes, OrderInv(s), spu_pc[s] = "stage1"
  PROVE  /\ check_tasks(s) \in Slots
         /\ Seen(s) <= Depth(s, ringInc(check_tasks(s), MaxEntries))
         /\ Depth(s, ringInc(check_tasks(s), MaxEntries)) <= Shown(s)
         /\ in_back[s] # check_tasks(s) =>
              Fetched(s) < Depth(s, ringInc(check_tasks(s), MaxEntries))
<1>1. check_tasks(s) \in Slots /\ in_back[s] \in Slots /\ collected[s] \in Slots
  BY DEF check_tasks, TypeOK, MemTypeOK, PpuTypeOK, SpuTypeOK
<1>2. Started(s, tfront[s]) = tfront[s] /\ Started(s, in_back[s]) = in_back[s]
  BY DEF Started
<1>3. /\ Retired(s) \in Int /\ Fetched(s) \in Int /\ Seen(s) \in Int
      /\ Shown(s) \in Int
  BY DepthsInRing, EntriesAssumption, SMT DEF Slots
<1>4. atomic_state[s] \in {0, 1}
  BY DEF TypeOK, MemTypeOK
<1>5. \/ Depth(s, ringInc(check_tasks(s), MaxEntries)) = Shown(s)
      \/ Depth(s, ringInc(check_tasks(s), MaxEntries)) = Seen(s)
  BY <1>2, <1>4 DEF check_tasks, Shown, Seen, NextSlot
<1>6. in_back[s] # check_tasks(s) =>
        Fetched(s) # Depth(s, ringInc(check_tasks(s), MaxEntries))
  <2>1. \A a, b \in Slots : a # b => ringInc(a, MaxEntries) # ringInc(b, MaxEntries)
    BY IncrementIsInc
  <2>2. /\ ringInc(in_back[s], MaxEntries) \in Slots
        /\ ringInc(check_tasks(s), MaxEntries) \in Slots
    BY <1>1, IncrementIsInc
  <2> QED
    BY <1>1, <1>2, <2>1, <2>2, DistInRing DEF Fetched, Depth
<1> QED
  BY <1>1, <1>3, <1>5, <1>6, SMT DEF OrderInv

(* stage1 when nothing is to be fetched.                                   *)
LEMMA LookKeepsRow ==
  ASSUME TypeOK, NEW s \in Spes, RowInv(s), stage1(s), UNCHANGED ppuVars,
         in_back[s] = check_tasks(s)
  PROVE  RowInv(s)'
<1>1. /\ spu_pc[s] = "stage1" /\ spu_pc'[s] = "stage2"
      /\ tfront'[s] = check_tasks(s)
      /\ UNCHANGED <<in_back, out_back, cycle, active, entry, task, dma,
                     collected, filled, task_fifo, ack_fifo, atomic_count,
                     atomic_state>>
  BY DEF stage1, TypeOK, SpuTypeOK, memVars, ppuVars
<1>2. /\ Started(s, tfront[s])' = check_tasks(s)
      /\ Started(s, in_back[s])' = Started(s, in_back[s])
      /\ Started(s, out_back[s])' = Started(s, out_back[s])
  BY <1>1 DEF Started
<1>3. OrderInv(s)'
  <2>1. /\ Retired(s)' = Retired(s) /\ Fetched(s)' = Fetched(s)
        /\ Shown(s)' = Shown(s)
        /\ Seen(s)' = Depth(s, ringInc(check_tasks(s), MaxEntries))
    BY <1>1, <1>2 DEF Retired, Fetched, Seen, Shown, Depth, NextSlot
  <2>2. Seen(s) <= Seen(s)' /\ Seen(s)' <= Shown(s)
    BY <1>1, <2>1, LookAtLine DEF RowInv
  <2>3. Fetched(s) \in Int /\ Seen(s) \in Int /\ Seen(s)' \in Int
    <3>1. Seen(s)' \in Slots
      BY <1>1, <2>1, LookAtLine, IncrementIsInc, DepthsInRing DEF RowInv
    <3> QED
      BY <3>1, DepthsInRing, EntriesAssumption, SMT DEF Slots
  <2> QED
    BY <1>1, <2>1, <2>2, <2>3, SMT DEF RowInv, OrderInv
<1>4. ContextInv(s)'
  BY <1>1, <1>2, ContextFrame DEF RowInv
<1>5. FetchInv(s)'
  BY <1>1, FetchFrame DEF RowInv
<1>6. AckInv(s)'
  BY <1>1, <1>2, AckFrame DEF RowInv
<1> QED
  BY <1>3, <1>4, <1>5, <1>6 DEF RowInv

(* stage1 starts to fetch: the slot enters the pipeline behind all others. *)
LEMMA FetchKeepsRow ==
  ASSUME TypeOK, NEW s \in Spes, RowInv(s), stage1(s), UNCHANGED ppuVars,
         in_back[s] # check_tasks(s)
  PROVE  RowInv(s)'
<1>1. PICK c \in Ctx : c = Context(s, 1)
  BY ContextsOfStages, SMT DEF TypeOK, STAGES
<1>2. PICK next \in Slots : next = ringInc(in_back[s], MaxEntries)
  BY IncrementIsInc DEF TypeOK, SpuTypeOK
<1>3. PICK x : x = [op |-> "get", tag |-> c, slot |-> in_back[s]]
  OBVIOUS
<1>4. increment(in_back[s], MaxEntries) = next
  BY <1>2, IncrementIsInc DEF TypeOK, SpuTypeOK
<1>5. /\ spu_pc[s] = "stage1" /\ spu_pc'[s] = "stage2"
      /\ tfront'[s] = check_tasks(s) /\ in_back'[s] = next
      /\ dma'[s] = dma[s] \cup {x}
      /\ UNCHANGED <<out_back, cycle, task, collected, filled, task_fifo,
                     ack_fifo, atomic_count, atomic_state>>
  BY <1>1, <1>3, <1>4 DEF stage1, TypeOK, SpuTypeOK, memVars, ppuVars
<1>6. /\ active'[s][c] = 1 /\ entry'[s][c] = next
      /\ \A d \in Ctx : d # c => active'[s][d] = active[s][d]
                                  /\ entry'[s][d] = entry[s][d]
  <2>1. /\ active' = [active EXCEPT ![s][c] = 1]
        /\ entry' = [entry EXCEPT ![s][c] = next]
    BY <1>1, <1>4 DEF stage1
  <2> QED
    BY <2>1 DEF TypeOK, SpuTypeOK
<1>7. /\ Started(s, tfront[s])' = check_tasks(s)
      /\ Started(s, in_back[s])' = next /\ Started(s, in_back[s]) = in_back[s]
      /\ Started(s, out_back[s])' = out_back[s]
      /\ Started(s, out_back[s]) = out_back[s]
  BY <1>5 DEF Started
<1>8. in_back[s] \in Slots /\ out_back[s] \in Slots /\ collected[s] \in Slots
  BY DEF TypeOK, SpuTypeOK, PpuTypeOK
<1>9. /\ Retired(s) \in 0 .. (MaxEntries - 1) /\ Fetched(s) \in 0 .. (MaxEntries - 1)
      /\ Shown(s) \in 0 .. (MaxEntries - 1) /\ Seen(s) \in 0 .. (MaxEntries - 1)
      /\ MaxEntries \in Nat
  BY DepthsInRing, EntriesAssumption DEF Slots
<1>10. PICK seen \in Slots : seen = Depth(s, ringInc(check_tasks(s), MaxEntries))
  BY <1>5, LookAtLine, IncrementIsInc, DepthsInRing DEF RowInv
<1>11. Fetched(s) < seen /\ seen <= Shown(s)
  BY <1>5, <1>10, LookAtLine DEF RowInv
<1>12. Fetched(s) + 1 <= seen /\ Fetched(s) + 1 <= Shown(s)
  BY <1>9, <1>10, <1>11, SMT DEF Slots
<1>13. Fetched(s)' = Fetched(s) + 1
  <2>1. Fetched(s) = Dist(next, collected[s], MaxEntries)
    BY <1>2, <1>7 DEF Fetched, Depth
  <2>2. Dist(ringInc(next, MaxEntries), collected[s], MaxEntries)
          = Dist(next, collected[s], MaxEntries) + 1
    BY <1>8, <1>9, <1>12, <2>1, DistInc, SMT
  <2> QED
    BY <1>5, <1>7, <2>1, <2>2 DEF Fetched, Depth
<1>14. OrderInv(s)'
  <2>1. Retired(s)' = Retired(s) /\ Shown(s)' = Shown(s) /\ Seen(s)' = seen
    BY <1>5, <1>7, <1>10 DEF Retired, Seen, Shown, Depth, NextSlot
  <2>2. Retired(s) <= Fetched(s) + 1
    BY <1>9, SMT DEF RowInv, OrderInv
  <2> QED
    BY <1>5, <1>11, <1>12, <1>13, <2>1, <2>2 DEF RowInv, OrderInv
<1>15. /\ active[s][c] = 0
       /\ \A n \in 1 .. STAGES : Context(s, n)' = Context(s, n)
       /\ \A n \in 2 .. STAGES :
            n \in 1 .. STAGES /\ Context(s, n) \in Ctx /\ Context(s, n) # c
  <2>1. active[s][c] = 0
    BY <1>1, <1>5 DEF RowInv, ContextInv
  <2>2. \A n \in 1 .. STAGES : Context(s, n)' = Context(s, n)
    BY <1>5 DEF Context
  <2>3. \A n \in 2 .. STAGES : n \in 1 .. STAGES /\ n # 1 /\ 1 \in 1 .. STAGES
    BY SMT DEF STAGES
  <2> QED
    BY <1>1, <2>1, <2>2, <2>3, ContextsOfStages DEF TypeOK
<1>16. /\ \A n \in 2 .. STAGES : Load(s, n)' = Load(s, n)
       /\ Load(s, 1)' = Load(s, 1) + 1
  <2>1. /\ active'[s][Context(s, 2)'] = active[s][Context(s, 2)]
        /\ active'[s][Context(s, 3)'] = active[s][Context(s, 3)]
        /\ active'[s][Context(s, 4)'] = active[s][Context(s, 4)]
        /\ active'[s][Context(s, 1)'] = 1
        /\ active[s][Context(s, 1)] = 0
    BY <1>1, <1>6, <1>15, SMT DEF STAGES
  <2>2. /\ active[s][Context(s, 2)] \in {0, 1}
        /\ active[s][Context(s, 3)] \in {0, 1}
        /\ active[s][Context(s, 4)] \in {0, 1}
    BY LoadIs, SMT DEF STAGES
  <2> QED
    BY <2>1, <2>2, SMT DEF Load, STAGES
<1>17. Dist(next, out_back[s], MaxEntries) = Load(s, 1) + 1
  <2>1. Dist(in_back[s], out_back[s], MaxEntries) = Load(s, 1)
    BY <1>7 DEF RowInv, ContextInv
  <2>2. Fetched(s) = Retired(s) + Load(s, 1) /\ Load(s, 1) \in Nat
    BY InThePipe, LoadRange, SMT DEF RowInv, STAGES
  <2>3. Load(s, 1) # MaxEntries - 1
    BY <1>9, <1>12, <2>2, SMT
  <2> QED
    BY <1>2, <1>8, <2>1, <2>3, DistInc
<1>18. ContextInv(s)'
  <2>1. Dist(Started(s, in_back[s]), Started(s, out_back[s]), MaxEntries)'
          = Load(s, 1)'
    BY <1>7, <1>16, <1>17
  <2>2. ASSUME NEW n \in 1 .. STAGES, (active[s][Context(s, n)] = 1)'
        PROVE  (Dist(entry[s][Context(s, n)], Started(s, out_back[s]), MaxEntries)
                  = Load(s, n))'
    <3>1. CASE n = 1
      <4>1. Context(s, n)' = c
        BY <1>1, <1>15, <3>1
      <4>2. entry'[s][Context(s, n)'] = next
        BY <1>6, <4>1
      <4> QED
        BY <1>7, <1>16, <1>17, <3>1, <4>2
    <3>2. CASE n # 1
      <4>1. n \in 2 .. STAGES
        BY <3>2, SMT DEF STAGES
      <4>2. /\ Context(s, n)' = Context(s, n) /\ Context(s, n) \in Ctx
            /\ Context(s, n) # c
        BY <4>1, <1>15
      <4>3. /\ entry'[s][Context(s, n)'] = entry[s][Context(s, n)]
            /\ active[s][Context(s, n)] = 1
        BY <1>6, <2>2, <4>2
      <4>4. Dist(entry[s][Context(s, n)], out_back[s], MaxEntries) = Load(s, n)
        BY <1>7, <4>3 DEF RowInv, ContextInv
      <4> QED
        BY <1>7, <1>16, <4>1, <4>3, <4>4
    <3> QED
      BY <3>1, <3>2
  <2> QED
    BY <1>5, <2>1, <2>2 DEF ContextInv
<1>19. FetchInv(s)'
  <2>1. FetchInv(s)
    BY DEF RowInv
  <2>2. \A d \in Ctx : d # c => FetchOf(s, d)' = FetchOf(s, d)
                                /\ TaskOf(s, d)' = TaskOf(s, d)
    BY <1>5, <1>6 DEF FetchOf, TaskOf
  <2>3. Before(next) = in_back[s]
    BY <1>2, <1>8, IncrementIsInc
  <2>4. FetchOf(s, c)' = x /\ x.tag = c /\ x.op = "get"
    BY <1>3, <1>6, <2>3 DEF FetchOf
  <2>5. \A d \in dma[s] : d.tag \in Ctx
    BY DEF TypeOK, SpuTypeOK, Dma
  <2>6. \A d \in dma[s] : d.op = "get" =>
          d.tag # c /\ active[s][d.tag] = 1 /\ d = FetchOf(s, d.tag)
    BY <1>15, <2>1 DEF FetchInv
  <2>7. \A d \in dma'[s] :
          d.op = "get" => active'[s][d.tag] = 1 /\ d = FetchOf(s, d.tag)'
    BY <1>5, <1>6, <2>2, <2>4, <2>5, <2>6
  <2>8. \A d \in Ctx : active'[s][d] = 1 =>
          FetchOf(s, d)' \in dma'[s] \/ task'[s][d] = TaskOf(s, d)'
    BY <1>5, <1>6, <2>1, <2>2, <2>4 DEF FetchInv
  <2>9. ASSUME NEW n \in 2 .. STAGES, (active[s][Context(s, n)] = 1)',
               n = 2 => spu_pc'[s] \in {"stage3", "stage4"}
        PROVE  TagDone(s, Context(s, n))'
    <3>1. /\ n \in 1 .. STAGES /\ Context(s, n)' = Context(s, n)
          /\ Context(s, n) \in Ctx /\ Context(s, n) # c
      BY <1>15
    <3>2. active[s][Context(s, n)] = 1 /\ n # 2
      BY <1>5, <1>6, <2>9, <3>1
    <3>3. TagDone(s, Context(s, n))
      BY <2>1, <3>2 DEF FetchInv
    <3> QED
      BY <1>5, <2>4, <3>1, <3>3 DEF TagDone
  <2> QED
    BY <2>7, <2>8, <2>9 DEF FetchInv
<1>20. AckInv(s)'
  <2>1. \A k \in Slots : Puts(s, k)' = Puts(s, k)
    BY <1>3, <1>5 DEF Puts
  <2>2. /\ \A k \in Slots : Depth(s, k)' = Depth(s, k)
        /\ Retired(s)' = Retired(s)
    BY <1>5, <1>7 DEF Depth, Retired
  <2> QED
    BY <1>5, <2>1, <2>2 DEF RowInv, AckInv
<1> QED
  BY <1>14, <1>18, <1>19, <1>20 DEF RowInv

(* What the end of a turn does to the contexts, whether stage4 retires a   *)
(* task or finds its context empty: the loads move on with the contexts.   *)
LEMMA LoadsMoveOn ==
  ASSUME TypeOK, NEW s \in Spes, cycle'[s] = NextCycle(cycle[s]),
         active'[s][Context(s, 4)] = 0,
         \A d \in Ctx : d # Context(s, 4) => active'[s][d] = active[s][d]
  PROVE  /\ active'[s][Context(s, 1)'] = 0
         /\ \A n \in 2 .. STAGES :
              /\ n - 1 \in 1 .. STAGES /\ Context(s, n)' = Context(s, n - 1)
              /\ Context(s, n - 1) \in Ctx /\ Context(s, n - 1) # Context(s, 4)
              /\ Load(s, n)' = Load(s, n - 1) - active[s][Context(s, 4)]
         /\ Load(s, 1)' = Load(s, 1) - active[s][Context(s, 4)]
<1>1. /\ Context(s, 1)' = Context(s, 4) /\ Context(s, 2)' = Context(s, 1)
      /\ Context(s, 3)' = Context(s, 2) /\ Context(s, 4)' = Context(s, 3)
  BY ContextsMoveOn DEF TypeOK
<1>2. /\ Context(s, 1) \in Ctx /\ Context(s, 2) \in Ctx /\ Context(s, 3) \in Ctx
      /\ Context(s, 1) # Context(s, 4) /\ Context(s, 2) # Context(s, 4)
      /\ Context(s, 3) # Context(s, 4)
  BY ContextsOfStages, SMT DEF TypeOK, STAGES
<1>3. \A n \in 2 .. STAGES : n \in {2, 3, 4} /\ n - 1 \in 1 .. STAGES
  BY SMT DEF STAGES
<1>4. 2 - 1 = 1 /\ 3 - 1 = 2 /\ 4 - 1 = 3
  BY SMT
<1>5. \A n \in 2 .. STAGES :
        /\ n - 1 \in 1 .. STAGES /\ Context(s, n)' = Context(s, n - 1)
        /\ Context(s, n - 1) \in Ctx /\ Context(s, n - 1) # Context(s, 4)
  BY <1>1, <1>2, <1>3, <1>4
<1>6. /\ active'[s][Context(s, 1)'] = 0
      /\ active'[s][Context(s, 2)'] = active[s][Context(s, 1)]
      /\ active'[s][Context(s, 3)'] = active[s][Context(s, 2)]
      /\ active'[s][Context(s, 4)'] = active[s][Context(s, 3)]
  BY <1>1, <1>2
<1>7. /\ active[s][Context(s, 1)] \in {0, 1} /\ active[s][Context(s, 2)] \in {0, 1}
      /\ active[s][Context(s, 3)] \in {0, 1} /\ active[s][Context(s, 4)] \in {0, 1}
  BY LoadIs, SMT DEF STAGES
<1>8. /\ Load(s, 4)' = active[s][Context(s, 3)]
      /\ Load(s, 3)' = active[s][Context(s, 2)] + active[s][Context(s, 3)]
      /\ Load(s, 2)' = active[s][Context(s, 1)] + active[s][Context(s, 2)]
                         + active[s][Context(s, 3)]
      /\ Load(s, 1)' = active[s][Context(s, 1)] + active[s][Context(s, 2)]
                         + active[s][Context(s, 3)]
  BY <1>6, <1>7, SMT DEF Load
<1>9. /\ Load(s, 4)' = Load(s, 3) - active[s][Context(s, 4)]
      /\ Load(s, 3)' = Load(s, 2) - active[s][Context(s, 4)]
      /\ Load(s, 2)' = Load(s, 1) - active[s][Context(s, 4)]
      /\ Load(s, 1)' = Load(s, 1) - active[s][Context(s, 4)]
  BY <1>7, <1>8, LoadIs, SMT
<1>10. \A n \in 2 .. STAGES : Load(s, n)' = Load(s, n - 1) - active[s][Context(s, 4)]
  BY <1>3, <1>4, <1>9
<1> QED
  BY <1>5, <1>6, <1>9, <1>10

(* At the end of a turn the context of every later stage has its task.     *)
LEMMA TagsMoveOn ==
  ASSUME TypeOK, NEW s \in Spes, FetchInv(s), spu_pc[s] = "stage4"
  PROVE  \A n \in 2 .. STAGES :
           active[s][Context(s, n)] = 1 => TagDone(s, Context(s, n))
  BY DEF FetchInv

(* stage4 with an empty context only turns the pipeline.                   *)
LEMMA TurnKeepsRow ==
  ASSUME TypeOK, NEW s \in Spes, RowInv(s), stage4(s), UNCHANGED ppuVars,
         active[s][Context(s, 4)] # 1
  PROVE  RowInv(s)'
<1>1. /\ spu_pc[s] = "stage4" /\ spu_pc'[s] = "stage1"
      /\ cycle'[s] = NextCycle(cycle[s]) /\ active[s][Context(s, 4)] = 0
      /\ UNCHANGED <<tfront, in_back, out_back, active, entry, task, dma,
                     collected, filled, task_fifo, ack_fifo, atomic_count,
                     atomic_state>>
  BY DEF stage4, TypeOK, SpuTypeOK, memVars, ppuVars
<1>2. /\ Started(s, tfront[s])' = Started(s, tfront[s])
      /\ Started(s, in_back[s])' = Started(s, in_back[s])
      /\ Started(s, out_back[s])' = Started(s, out_back[s])
  BY <1>1 DEF Started
<1>3. OrderInv(s)'
  BY <1>1, <1>2, OrderFrame DEF RowInv
<1>4. /\ active'[s][Context(s, 1)'] = 0
      /\ \A n \in 2 .. STAGES :
           /\ n - 1 \in 1 .. STAGES /\ Context(s, n)' = Context(s, n - 1)
           /\ Load(s, n)' = Load(s, n - 1)
      /\ Load(s, 1)' = Load(s, 1)
  <2>1. \A n \in 1 .. STAGES : Load(s, n) \in Int
    BY LoadRange, SMT DEF STAGES
  <2>2. 1 \in 1 .. STAGES
    BY SMT DEF STAGES
  <2> QED
    BY <1>1, <2>1, <2>2, LoadsMoveOn, SMT
<1>5. ContextInv(s)'
  <2>1. ASSUME NEW n \in 1 .. STAGES, (active[s][Context(s, n)] = 1)'
        PROVE  (Dist(entry[s][Context(s, n)], Started(s, out_back[s]), MaxEntries)
                  = Load(s, n))'
    <3>1. n # 1
      BY <1>4, <2>1
    <3>2. n \in 2 .. STAGES
      BY <3>1, SMT DEF STAGES
    <3>3. PICK m \in 1 .. STAGES : m = n - 1
      BY <1>4, <3>2
    <3>4. Context(s, n)' = Context(s, m) /\ Load(s, n)' = Load(s, m)
      BY <1>4, <3>2, <3>3
    <3> QED
      BY <1>1, <1>2, <2>1, <3>4 DEF RowInv, ContextInv
  <2>2. Dist(Started(s, in_back[s]), Started(s, out_back[s]), MaxEntries)'
          = Load(s, 1)'
    BY <1>2, <1>4 DEF RowInv, ContextInv
  <2> QED
    BY <1>1, <1>4, <2>1, <2>2 DEF ContextInv
<1>6. FetchInv(s)'
  <2>1. FetchInv(s)
    BY DEF RowInv
  <2>2. /\ \A d \in dma'[s] :
             d.op = "get" => active'[s][d.tag] = 1 /\ d = FetchOf(s, d.tag)'
        /\ \A c \in Ctx : active'[s][c] = 1 =>
             FetchOf(s, c)' \in dma'[s] \/ task'[s][c] = TaskOf(s, c)'
    BY <1>1, <2>1 DEF FetchInv, FetchOf, TaskOf
  <2>3. ASSUME NEW n \in 2 .. STAGES, (active[s][Context(s, n)] = 1)', n # 2
        PROVE  TagDone(s, Context(s, n))'
    <3>1. PICK m \in 2 .. STAGES : m = n - 1
      BY <2>3, SMT DEF STAGES
    <3>2. Context(s, n)' = Context(s, m)
      BY <1>4, <3>1
    <3>3. TagDone(s, Context(s, m))
      BY <1>1, <2>1, <2>3, <3>2, TagsMoveOn
    <3> QED
      BY <1>1, <3>2, <3>3 DEF TagDone
  <2> QED
    BY <1>1, <2>2, <2>3 DEF FetchInv
<1>7. AckInv(s)'
  BY <1>1, <1>2, AckFrame DEF RowInv
<1> QED
  BY <1>3, <1>5, <1>6, <1>7 DEF RowInv

(* stage4 retires the oldest task: its slot is on its way back.            *)
LEMMA RetireKeepsRow ==
  ASSUME TypeOK, NEW s \in Spes, RowInv(s), stage4(s), UNCHANGED ppuVars,
         active[s][Context(s, 4)] = 1
  PROVE  RowInv(s)'
<1>1. PICK c \in Ctx : c = Context(s, 4)
  BY ContextsOfStages, SMT DEF TypeOK, STAGES
<1>2. PICK x : x = [op |-> "put", tag |-> c, slot |-> entry[s][c]]
  OBVIOUS
<1>3. /\ spu_pc[s] = "stage4" /\ spu_pc'[s] = "stage1"
      /\ cycle'[s] = NextCycle(cycle[s])
      /\ out_back'[s] = ringInc(out_back[s], MaxEntries)
      /\ dma'[s] = dma[s] \cup {x}
      /\ UNCHANGED <<tfront, in_back, collected, filled, task_fifo, ack_fifo,
                     atomic_count, atomic_state>>
  <2>1. increment(out_back[s], MaxEntries) = ringInc(out_back[s], MaxEntries)
    BY IncrementIsInc DEF TypeOK, SpuTypeOK
  <2> QED
    BY <1>1, <1>2, <2>1 DEF stage4, TypeOK, SpuTypeOK, memVars, ppuVars
<1>4. /\ active'[s][c] = 0
      /\ \A d \in Ctx : d # c => /\ active'[s][d] = active[s][d]
                                 /\ entry'[s][d] = entry[s][d]
                                 /\ task'[s][d] = task[s][d]
  <2>1. /\ active' = [active EXCEPT ![s][c] = 0]
        /\ entry' = [entry EXCEPT ![s][c] = 0]
        /\ task' = [task EXCEPT ![s][c] = Unfetched]
    BY <1>1 DEF stage4, RetiredActive
  <2> QED
    BY <2>1 DEF TypeOK, SpuTypeOK
<1>5. /\ Started(s, tfront[s])' = Started(s, tfront[s])
      /\ Started(s, in_back[s])' = Started(s, in_back[s])
      /\ Started(s, out_back[s])' = ringInc(out_back[s], MaxEntries)
      /\ Started(s, out_back[s]) = out_back[s]
  BY <1>3 DEF Started
<1>6. out_back[s] \in Slots /\ collected[s] \in Slots
  BY DEF TypeOK, SpuTypeOK, PpuTypeOK
<1>7. /\ Load(s, 1) \in Int /\ Load(s, 1) >= 1 /\ Load(s, 4) = 1
  BY LoadIs, LoadRange, SMT DEF STAGES
<1>8. /\ Retired(s) \in 0 .. (MaxEntries - 1) /\ Fetched(s) \in 0 .. (MaxEntries - 1)
      /\ MaxEntries \in Nat /\ Fetched(s) = Retired(s) + Load(s, 1)
  BY DepthsInRing, InThePipe, EntriesAssumption DEF Slots, RowInv
<1>9. Retired(s)' = Retired(s) + 1
  <2>1. PICK b \in Slots : b = ringInc(out_back[s], MaxEntries)
    BY <1>6, IncrementIsInc
  <2>2. Retired(s) = Dist(b, collected[s], MaxEntries)
    BY <1>5, <2>1 DEF Retired, Depth
  <2>3. Dist(ringInc(b, MaxEntries), collected[s], MaxEntries) = Retired(s) + 1
    BY <1>6, <1>7, <1>8, <2>1, <2>2, DistInc, SMT
  <2> QED
    BY <1>3, <1>5, <2>1, <2>3 DEF Retired, Depth
<1>10. OrderInv(s)'
  <2>1. Fetched(s)' = Fetched(s) /\ Shown(s)' = Shown(s) /\ Seen(s)' = Seen(s)
    BY <1>3, <1>5 DEF Fetched, Seen, Shown, Depth, NextSlot
  <2>2. Retired(s) + 1 <= Fetched(s)
    BY <1>7, <1>8, SMT
  <2> QED
    BY <1>3, <1>9, <2>1, <2>2 DEF RowInv, OrderInv
<1>11. /\ active'[s][Context(s, 1)'] = 0
       /\ \A n \in 2 .. STAGES :
            /\ n - 1 \in 1 .. STAGES /\ Context(s, n)' = Context(s, n - 1)
            /\ Context(s, n - 1) \in Ctx /\ Context(s, n - 1) # c
            /\ Load(s, n)' = Load(s, n - 1) - 1
       /\ Load(s, 1)' = Load(s, 1) - 1
  BY <1>1, <1>3, <1>4, LoadsMoveOn
<1>12. ContextInv(s)'
  <2>1. ASSUME NEW n \in 1 .. STAGES, (active[s][Context(s, n)] = 1)'
        PROVE  (Dist(entry[s][Context(s, n)], Started(s, out_back[s]), MaxEntries)
                  = Load(s, n))'
    <3>1. n # 1
      BY <1>11, <2>1
    <3>2. n \in 2 .. STAGES
      BY <3>1, SMT DEF STAGES
    <3>3. PICK m \in 1 .. STAGES : m = n - 1
      BY <1>11, <3>2
    <3>4. /\ Context(s, n)' = Context(s, m) /\ Load(s, n)' = Load(s, m) - 1
          /\ Context(s, m) \in Ctx /\ Context(s, m) # c
      BY <1>11, <3>2, <3>3
    <3>5. /\ active[s][Context(s, m)] = 1
          /\ entry'[s][Context(s, n)'] = entry[s][Context(s, m)]
      BY <1>4, <2>1, <3>4
    <3>6. PICK e \in Slots : e = entry[s][Context(s, m)]
      BY <3>4 DEF TypeOK, SpuTypeOK
    <3>7. Dist(e, out_back[s], MaxEntries) = Load(s, m)
      BY <1>5, <3>5, <3>6 DEF RowInv, ContextInv
    <3>8. Load(s, m) \in Int /\ Load(s, m) >= 1
      BY <3>5, LoadRange, SMT DEF STAGES
    <3>9. e # out_back[s]
      BY <1>6, <3>7, <3>8, DistInRing, SMT
    <3>10. Dist(e, ringInc(out_back[s], MaxEntries), MaxEntries) = Load(s, m) - 1
      BY <1>6, <3>7, <3>9, DistIncBase
    <3> QED
      BY <1>5, <3>4, <3>5, <3>6, <3>10
  <2>2. Dist(Started(s, in_back[s]), Started(s, out_back[s]), MaxEntries)'
          = Load(s, 1)'
    <3>1. PICK i \in Slots : i = Started(s, in_back[s])
      BY DepthsInRing
    <3>2. Dist(i, out_back[s], MaxEntries) = Load(s, 1)
      BY <1>5, <3>1 DEF RowInv, ContextInv
    <3>3. i # out_back[s]
      BY <1>6, <1>7, <3>2, DistInRing, SMT
    <3>4. Dist(i, ringInc(out_back[s], MaxEntries), MaxEntries) = Load(s, 1) - 1
      BY <1>6, <3>2, <3>3, DistIncBase
    <3> QED
      BY <1>5, <1>11, <3>1, <3>4
  <2> QED
    BY <1>3, <1>11, <2>1, <2>2 DEF ContextInv
<1>13. TagDone(s, c)
  BY <1>1, <1>3, TagsMoveOn, SMT DEF RowInv, STAGES
<1>14. FetchInv(s)'
  <2>1. FetchInv(s)
    BY DEF RowInv
  <2>2. \A d \in Ctx : d # c => FetchOf(s, d)' = FetchOf(s, d)
                                /\ TaskOf(s, d)' = TaskOf(s, d)
    BY <1>3, <1>4 DEF FetchOf, TaskOf
  <2>3. \A d \in dma[s] : d.tag \in Ctx /\ d.tag # c
    BY <1>13 DEF TagDone, TypeOK, SpuTypeOK, Dma
  <2>4. x.op # "get" /\ x.tag = c
    BY <1>2
  <2>5. \A d \in dma'[s] :
          d.op = "get" => active'[s][d.tag] = 1 /\ d = FetchOf(s, d.tag)'
    BY <1>3, <1>4, <2>1, <2>2, <2>3, <2>4 DEF FetchInv
  <2>6. \A d \in Ctx : active'[s][d] = 1 =>
          FetchOf(s, d)' \in dma'[s] \/ task'[s][d] = TaskOf(s, d)'
    BY <1>3, <1>4, <2>1, <2>2 DEF FetchInv
  <2>7. ASSUME NEW n \in 2 .. STAGES, (active[s][Context(s, n)] = 1)', n # 2
        PROVE  TagDone(s, Context(s, n))'
    <3>1. PICK m \in 2 .. STAGES : m = n - 1
      BY <2>7, SMT DEF STAGES
    <3>2. /\ Context(s, n)' = Context(s, m) /\ Context(s, m) \in Ctx
          /\ Context(s, m) # c
      BY <1>11, <3>1
    <3>3. TagDone(s, Context(s, m))
      BY <1>3, <1>4, <2>1, <2>7, <3>2, TagsMoveOn
    <3> QED
      BY <1>3, <2>4, <3>2, <3>3 DEF TagDone
  <2> QED
    BY <1>3, <2>5, <2>6, <2>7 DEF FetchInv
<1>15. AckInv(s)'
  <2>1. PICK e \in Slots : e = entry[s][c]
    BY DEF TypeOK, SpuTypeOK
  <2>2. Depth(s, e) = Retired(s)
    <3>1. Depth(s, e) = Retired(s) + Load(s, 4) - 1
      BY <1>1, <2>1, EntryDepth, SMT DEF RowInv, STAGES
    <3> QED
      BY <1>7, <1>8, <3>1, SMT
  <2>3. AckInv(s)
    BY DEF RowInv
  <2>4. /\ \A k \in Slots : Depth(s, k)' = Depth(s, k)
        /\ \A k \in Slots : Depth(s, k) \in Int
    BY <1>3, DepthsInRing, EntriesAssumption, SMT DEF Depth, Slots
  <2>5. \A k \in Slots : Depth(s, k) = Retired(s) => k = e
    BY <1>6, <2>2, DistInRing DEF Depth
  <2>6. \A k \in Slots : Depth(s, k)' < Retired(s)' <=>
                           Depth(s, k) < Retired(s) \/ k = e
    BY <1>8, <1>9, <2>2, <2>4, <2>5, SMT
  <2>7. ~(Depth(s, e) < Retired(s))
    BY <1>8, <2>2, SMT
  <2>8. Puts(s, e) = {} /\ ack_fifo[s][e] = ACK_CLEAR
    BY <2>3, <2>7 DEF AckInv
  <2>9. x.op = "put" /\ x.slot = e
    BY <1>2, <2>1
  <2>10. \A k \in Slots : Puts(s, k)' = IF k = e THEN {x} ELSE Puts(s, k)
    BY <1>3, <2>8, <2>9 DEF Puts
  <2>11. \A k \in Slots :
          /\ Puts(s, k)' # {} => (Depth(s, k) < Retired(s))'
                                  /\ ack_fifo'[s][k] = ACK_CLEAR
          /\ ack_fifo'[s][k] # ACK_CLEAR => (Depth(s, k) < Retired(s))'
          /\ \A d, f \in Puts(s, k)' : d = f
    BY <1>3, <2>3, <2>6, <2>8, <2>10 DEF AckInv
  <2>12. ACK_CLEAR \notin AckWords =>
          \A k \in Slots : (Depth(s, k) < Retired(s))' =>
                             Puts(s, k)' # {} \/ ack_fifo'[s][k] # ACK_CLEAR
    BY <1>3, <2>3, <2>6, <2>10 DEF AckInv
  <2> QED
    BY <2>11, <2>12 DEF AckInv
<1> QED
  BY <1>10, <1>12, <1>14, <1>15 DEF RowInv

-----------------------------------------------------------------------------
(* A step of the PPU works on the fifo of one SPE.                         *)
LEMMA PpuKeepsRows ==
  ASSUME TypeOK, \A s \in Spes : RowInv(s), PpuNext, UNCHANGED spuVars
  PROVE  \A s \in Spes : RowInv(s)'
<1>1. PICK s \in Spes :
        (\E command \in Commands : Fill(s, command)) \/ Show(s) \/ Collect(s)
  BY DEF PpuNext
<1>2. RowInv(s)'
  BY <1>1, FillKeepsRow, ShowKeepsRow, CollectKeepsRow
<1>3. ASSUME NEW r \in Spes, r # s PROVE RowInv(r)'
  <2>1. SameRow(r)
    BY <1>1, <1>3
       DEF Fill, Show, Collect, SameRow, spuVars, TypeOK, MemTypeOK, PpuTypeOK
  <2> QED
    BY <2>1, RowFrame
<1> QED
  BY <1>2, <1>3

(* A step of an SPU or its MFC works on the fifo of that SPE.              *)
LEMMA SpuKeepsRows ==
  ASSUME TypeOK, \A s \in Spes : RowInv(s), SpuNext, UNCHANGED ppuVars
  PROVE  \A s \in Spes : RowInv(s)'
<1>1. PICK s \in Spes : pipeline(s) \/ Mfc(s)
  BY DEF SpuNext
<1>2. Mfc(s) => \E d \in dma[s] : MfcGet(s, d) \/ MfcPut(s, d)
  BY DEF Mfc, MfcTag
<1>3. RowInv(s)'
  <2>1. CASE SpuMain(s)
    BY <2>1, MainKeepsRow
  <2>2. CASE stage1(s)
    BY <2>2, LookKeepsRow, FetchKeepsRow
  <2>3. CASE stage2(s) \/ stage3(s)
    BY <2>3, MiddleKeepsRow
  <2>4. CASE stage4(s)
    BY <2>4, TurnKeepsRow, RetireKeepsRow
  <2>5. CASE Mfc(s)
    BY <1>2, <2>5, GetKeepsRow, PutKeepsRow
  <2> QED
    BY <1>1, <2>1, <2>2, <2>3, <2>4, <2>5 DEF pipeline
<1>4. ASSUME NEW r \in Spes, r # s PROVE RowInv(r)'
  <2>1. SameRow(r)
    <3> USE <1>4 DEF SameRow, ppuVars, memVars, TypeOK, MemTypeOK, SpuTypeOK
    <3>1. CASE SpuMain(s)
      BY <3>1 DEF SpuMain
    <3>2. CASE stage1(s)
      BY <3>2 DEF stage1
    <3>3. CASE stage2(s) \/ stage3(s)
      BY <3>3 DEF stage2, stage3, Lookup
    <3>4. CASE stage4(s)
      BY <3>4 DEF stage4
    <3>5. CASE Mfc(s)
      BY <1>2, <3>5 DEF MfcGet, MfcPut
    <3> QED
      BY <1>1, <3>1, <3>2, <3>3, <3>4, <3>5 DEF pipeline
  <2> QED
    BY <2>1, RowFrame
<1> QED
  BY <1>3, <1>4

(* PipeInv is its parts for every SPE.                                     *)
LEMMA PipeInvIsRows ==
  PipeInv <=> TypeOK /\ \A s \in Spes : RowInv(s)
  BY DEF PipeInv, RowInv

(* The initial states satisfy the invariant.                               *)
LEMMA PipeInit == Init => PipeInv
  BY TypeInit, RowInit, PipeInvIsRows

(* Every step of the PPU, of an SPU and of an MFC keeps it.                *)
LEMMA PipeStep == PipeInv /\ [Next]_vars => PipeInv'
<1> SUFFICES ASSUME PipeInv, [Next]_vars PROVE PipeInv'
  OBVIOUS
<1>1. TypeOK /\ \A s \in Spes : RowInv(s)
  BY PipeInvIsRows
<1>2. TypeOK' /\ \A s \in Spes : RowInv(s)'
  <2>1. CASE PpuNext /\ UNCHANGED spuVars
    BY <1>1, <2>1, TypePpu, PpuKeepsRows
  <2>2. CASE SpuNext /\ UNCHANGED ppuVars
    BY <1>1, <2>2, TypeSpu, SpuKeepsRows
  <2>3. CASE UNCHANGED vars
    <3>1. TypeOK'
      BY <1>1, <2>3 DEF vars, ppuVars, spuVars, memVars, TypeOK, MemTypeOK,
                        PpuTypeOK, SpuTypeOK
    <3>2. ASSUME NEW s \in Spes PROVE RowInv(s)'
      <4>1. SameRow(s)
        BY <2>3 DEF SameRow, vars, ppuVars, spuVars, memVars
      <4> QED
        BY <1>1, <4>1, RowFrame
    <3> QED
      BY <3>1, <3>2
  <2> QED
    BY <2>1, <2>2, <2>3 DEF Next
<1> QED
  BY <1>2 DEF PipeInv, RowInv

(***************************************************************************)
(* The inductive invariant of the pipeline holds for every ring, every     *)
(* number of SPEs, every counter width and every order in which the MFC    *)
(* carries out the commands.                                               *)
(***************************************************************************)
THEOREM PipeInvariant ==
  Spec => []PipeInv
  BY PipeInit, PipeStep, PTL DEF Spec

-----------------------------------------------------------------------------
(* When stage1 finds a task, the lock line shows one, and the context it   *)
(* goes into is free.                                                      *)
LEMMA TakesWhatIsShown ==
  ASSUME PipeInv, NEW s \in Spes, spu_pc[s] = "stage1",
         in_back[s] # check_tasks(s)
  PROVE  /\ atomic_state[s] = 1 /\ in_back[s] # atomic_count[s]
         /\ active[s][Context(s, 1)] = 0
<1>1. TypeOK /\ OrderInv(s) /\ ContextInv(s)
  BY DEF PipeInv
<1>2. active[s][Context(s, 1)] = 0
  BY <1>1 DEF ContextInv
<1>3. atomic_state[s] # 0
  <2>1. SUFFICES ASSUME atomic_state[s] = 0 PROVE FALSE
    OBVIOUS
  <2>2. NextSlot(s) = collected[s] /\ collected[s] \in Slots
    BY <1>1, <2>1, DepthsInRing DEF NextSlot, OrderInv
  <2>3. Shown(s) = 0
    BY <2>2, DistInRing DEF Shown, Depth
  <2>4. Fetched(s) < Depth(s, ringInc(check_tasks(s), MaxEntries))
        /\ Depth(s, ringInc(check_tasks(s), MaxEntries)) <= Shown(s)
    BY <1>1, LookAtLine
  <2>5. Fetched(s) \in Nat /\ Depth(s, ringInc(check_tasks(s), MaxEntries)) \in Nat
    <3>1. Depth(s, ringInc(check_tasks(s), MaxEntries)) \in Slots
      BY <1>1, LookAtLine, DepthsInRing, IncrementIsInc
    <3> QED
      BY <1>1, <3>1, DepthsInRing, EntriesAssumption, SMT DEF Slots
  <2> QED
    BY <2>3, <2>4, <2>5, SMT
<1>4. atomic_state[s] = 1 /\ check_tasks(s) = atomic_count[s]
  BY <1>1, <1>3 DEF TypeOK, MemTypeOK, check_tasks
<1> QED
  BY <1>2, <1>4

(* A slot whose acknowledgement is under way is in no context and on its   *)
(* way only once.                                                          *)
LEMMA PutStandsAlone ==
  ASSUME PipeInv, NEW s \in Spes, NEW d \in dma[s], d.op = "put"
  PROVE  /\ d.slot \in Slots
         /\ \A c \in Ctx : active[s][c] = 1 => entry[s][c] # d.slot
         /\ \A e \in dma[s] : e.op = "put" /\ e.slot = d.slot => e = d
<1>1. TypeOK /\ OrderInv(s) /\ ContextInv(s) /\ AckInv(s)
  BY DEF PipeInv
<1>2. d.slot \in Slots
  BY <1>1 DEF TypeOK, SpuTypeOK, Dma
<1>3. d \in Puts(s, d.slot)
  BY DEF Puts
<1>4. Depth(s, d.slot) < Retired(s)
  BY <1>1, <1>2, <1>3 DEF AckInv
<1>5. ASSUME NEW c \in Ctx, active[s][c] = 1 PROVE entry[s][c] # d.slot
  <2>1. PICK n \in 1 .. STAGES : c = Context(s, n)
    BY <1>1, ContextsOfStages DEF TypeOK
  <2>2. Retired(s) <= Depth(s, entry[s][c])
    BY <1>1, <1>5, <2>1, EntryDepth
  <2>3. Retired(s) \in Int /\ Depth(s, d.slot) \in Int
    BY <1>1, <1>2, DepthsInRing, EntriesAssumption, SMT DEF Slots
  <2> QED
    BY <1>4, <2>2, <2>3, SMT
<1>6. \A e \in dma[s] : e.op = "put" /\ e.slot = d.slot => e = d
  BY <1>1, <1>2, <1>3 DEF AckInv, Puts
<1> QED
  BY <1>2, <1>5, <1>6

-----------------------------------------------------------------------------
(***************************************************************************)
(* When stage3 executes a context, the context holds the task of the slot  *)
(* before its entry as it is in the task fifo, and no DMA of its tag is    *)
(* under way.                                                              *)
(***************************************************************************)
THEOREM ExecutesTheTask ==
  Spec => []ContextHoldsItsTask
<1>1. PipeInv => ContextHoldsItsTask
  <2> SUFFICES ASSUME PipeInv, NEW s \in Spes, spu_pc[s] = "stage3",
                      NEW c \in Ctx, c = Context(s, 3), active[s][c] = 1
               PROVE  /\ task[s][c].slot = Before(entry[s][c])
                      /\ task[s][c].cmd = task_fifo[s][task[s][c].slot]
                      /\ \A d \in dma[s] : d.tag # c
    <3>1. PipeInv => \A s \in Spes : Context(s, 3) \in Ctx
      BY ContextsOfStages, SMT DEF PipeInv, TypeOK, STAGES
    <3> QED
      BY <3>1 DEF ContextHoldsItsTask
  <2>1. FetchInv(s)
    BY DEF PipeInv
  <2>2. TagDone(s, c)
    BY <2>1, SMT DEF FetchInv, STAGES
  <2>3. task[s][c] = TaskOf(s, c)
    <3>1. FetchOf(s, c).tag = c
      BY DEF FetchOf
    <3> QED
      BY <2>1, <2>2, <3>1 DEF FetchInv, TagDone
  <2> QED
    BY <2>2, <2>3 DEF TaskOf, TagDone
<1> QED
  BY <1>1, PipeInvariant, PTL

(***************************************************************************)
(* The contexts retire in the order of their slots, also when the counter  *)
(* and the ring wrap.                                                      *)
(***************************************************************************)
THEOREM RetirementInOrder ==
  Spec => []RetiresInOrder
<1>1. PipeInv => RetiresInOrder
  <2> SUFFICES ASSUME PipeInv, NEW s \in Spes, spu_pc[s] = "stage4",
                      active[s][Context(s, 4)] = 1
               PROVE  entry[s][Context(s, 4)] = increment(out_back[s], MaxEntries)
    BY DEF RetiresInOrder
  <2>1. TypeOK /\ OrderInv(s) /\ ContextInv(s)
    BY DEF PipeInv
  <2>2. PICK e \in Slots : e = entry[s][Context(s, 4)]
    BY <2>1, EntryDepth, SMT DEF STAGES
  <2>3. Dist(e, out_back[s], MaxEntries) = 1
    <3>1. Load(s, 4) = 1
      BY <2>1, LoadIs
    <3>2. Started(s, out_back[s]) = out_back[s]
      BY DEF Started
    <3> QED
      BY <2>1, <2>2, <3>1, <3>2, SMT DEF ContextInv, STAGES
  <2>4. out_back[s] \in Slots
    BY <2>1 DEF TypeOK, SpuTypeOK
  <2> QED
    BY <2>2, <2>3, <2>4, EntriesAssumption, SMT DEF Dist, Slots, increment
<1> QED
  BY <1>1, PipeInvariant, PTL

(***************************************************************************)
(* The pipeline is left only when no context is active.                    *)
(***************************************************************************)
THEOREM PipelineLeftEmpty ==
  Spec => []LeavesEmptyPipeline
<1>1. PipeInv => LeavesEmptyPipeline
  <2> SUFFICES ASSUME PipeInv, NEW s \in Spes, spu_pc[s] = "stage1",
                      tfront[s] = out_back[s], NEW c \in Ctx
               PROVE  active[s][c] = 0
    BY DEF LeavesEmptyPipeline
  <2>1. TypeOK /\ OrderInv(s) /\ ContextInv(s)
    BY DEF PipeInv
  <2>2. Seen(s) = Retired(s)
    BY DEF Seen, Retired, Started
  <2>3. Load(s, 1) \in Nat /\ Retired(s) \in Int
    BY <2>1, LoadRange, DepthsInRing, EntriesAssumption, SMT DEF STAGES, Slots
  <2>4. Load(s, 1) = 0
    BY <2>1, <2>2, <2>3, InThePipe, SMT DEF OrderInv
  <2>5. PICK n \in 1 .. STAGES : c = Context(s, n)
    BY <2>1, ContextsOfStages DEF TypeOK
  <2>6. active[s][c] \in {0, 1} /\ active[s][c] <= Load(s, n) /\ Load(s, n) <= 0
    BY <2>1, <2>4, <2>5, LoadRange, LoadIs
  <2>7. Load(s, n) \in Int
    BY <2>1, LoadRange, SMT DEF STAGES
  <2> QED
    BY <2>6, <2>7, SMT
<1> QED
  BY <1>1, PipeInvariant, PTL

(* The slot that is filled lies beyond those that the SPU has yet to copy. *)
LEMMA FilledIsFetched == PipeInv => FetchIsStable
<1> SUFFICES ASSUME PipeInv, NEW s \in Spes, filled[s]
             PROVE  NextSlot(s) \notin YetToFetch(s)
  BY DEF FetchIsStable
<1>1. TypeOK /\ OrderInv(s) /\ ContextInv(s) /\ FetchInv(s)
  BY DEF PipeInv
<1>2. PICK k \in Slots : k = NextSlot(s)
  BY <1>1, DepthsInRing
<1>3. Depth(s, k) <= MaxEntries - 2 /\ Depth(s, k) = Shown(s)
  BY <1>1, <1>2 DEF OrderInv, Shown
<1>4. /\ Fetched(s) \in 0 .. (MaxEntries - 1) /\ Shown(s) \in 0 .. (MaxEntries - 1)
      /\ MaxEntries \in Nat /\ Fetched(s) <= Shown(s)
      /\ Seen(s) \in 0 .. (MaxEntries - 1)
  <2>1. /\ Fetched(s) \in 0 .. (MaxEntries - 1) /\ Shown(s) \in 0 .. (MaxEntries - 1)
        /\ MaxEntries \in Nat /\ Seen(s) \in 0 .. (MaxEntries - 1)
    BY <1>1, DepthsInRing, EntriesAssumption DEF Slots
  <2> QED
    BY <1>1, <2>1, SMT DEF OrderInv
<1>5. collected[s] \in Slots
  BY <1>1, DepthsInRing
<1>6. ASSUME NEW d \in dma[s], d.op = "get" PROVE d.slot # k
  <2>1. d.tag \in Ctx
    BY <1>1 DEF TypeOK, SpuTypeOK, Dma
  <2>2. active[s][d.tag] = 1 /\ d = FetchOf(s, d.tag)
    BY <1>1, <1>6 DEF FetchInv
  <2>3. PICK n \in 1 .. STAGES : d.tag = Context(s, n)
    BY <1>1, <2>1, ContextsOfStages DEF TypeOK
  <2>4. PICK e \in Slots : e = entry[s][d.tag] /\ Depth(s, e) < Fetched(s)
    BY <1>1, <2>2, <2>3, EntryDepth
  <2>5. d.slot = Before(e) /\ e = ringInc(Before(e), MaxEntries)
    BY <2>2, <2>4, BeforeInRing DEF FetchOf
  <2>6. ASSUME Before(e) = k PROVE FALSE
    <3>1. Depth(s, e) = Depth(s, k) + 1
      BY <1>3, <1>4, <1>5, <2>5, <2>6, DistInc, SMT DEF Depth
    <3> QED
      BY <1>3, <1>4, <2>4, <3>1, SMT
  <2> QED
    BY <2>5, <2>6
<1>7. ASSUME atomic_state[s] = 1, spu_pc[s] # "boot",
             Dist(k, in_back[s], MaxEntries) <
               Dist(atomic_count[s], in_back[s], MaxEntries)
      PROVE  FALSE
  <2>1. PICK i \in Slots : i = in_back[s]
    BY <1>1 DEF TypeOK, SpuTypeOK
  <2>2. PICK a \in Slots : a = atomic_count[s]
    BY <1>1 DEF TypeOK, MemTypeOK
  <2>3. k = ringInc(a, MaxEntries)
    BY <1>2, <1>7, <2>2 DEF NextSlot
  <2>4. Fetched(s) = Dist(ringInc(i, MaxEntries), collected[s], MaxEntries)
    BY <1>7, <2>1 DEF Fetched, Depth, Started
  <2>5. Dist(ringInc(i, MaxEntries), collected[s], MaxEntries)
          <= Dist(k, collected[s], MaxEntries)
        /\ Dist(k, collected[s], MaxEntries) <= MaxEntries - 2
    BY <1>3, <1>4, <2>4 DEF Depth
  <2>6. Dist(k, i, MaxEntries) < Dist(a, i, MaxEntries)
    BY <1>7, <2>1, <2>2
  <2>7. \A x \in Slots :
          Dist(ringInc(i, MaxEntries), x, MaxEntries)
            <= Dist(ringInc(a, MaxEntries), x, MaxEntries)
          /\ Dist(ringInc(a, MaxEntries), i, MaxEntries) < Dist(a, i, MaxEntries)
            => Dist(ringInc(a, MaxEntries), x, MaxEntries) = MaxEntries - 1
    BY EntriesAssumption, SMT DEF Dist, ringInc, Slots
  <2> QED
    BY <1>4, <1>5, <2>3, <2>5, <2>6, <2>7, SMT
<1> QED
  BY <1>2, <1>6, <1>7 DEF YetToFetch

(***************************************************************************)
(* Filling a slot never disturbs a fetch: neither the get of a context     *)
(* that is under way nor one that stage1 will start reads the slot that    *)
(* the PPU is filling, although the pipeline reads one slot behind.        *)
(***************************************************************************)
THEOREM FetchesAreStable ==
  Spec => []FetchIsStable
  BY FilledIsFetched, PipeInvariant, PTL

-----------------------------------------------------------------------------
(* A slot that is fetched and not retired is in exactly one context.       *)
LEMMA OneContext ==
  ASSUME TypeOK, NEW s \in Spes, OrderInv(s), ContextInv(s), NEW k \in Slots
  PROVE  Cardinality({c \in Ctx : active[s][c] = 1 /\ entry[s][c] = k}) =
           IF Retired(s) <= Depth(s, k) /\ Depth(s, k) < Fetched(s)
           THEN 1 ELSE 0
<1> DEFINE C == {c \in Ctx : active[s][c] = 1 /\ entry[s][c] = k}
<1>1. /\ Retired(s) \in Int /\ Fetched(s) \in Int /\ Depth(s, k) \in Int
      /\ Fetched(s) = Retired(s) + Load(s, 1)
  BY DepthsInRing, InThePipe, EntriesAssumption, SMT DEF Slots
<1>2. CASE ~(Retired(s) <= Depth(s, k) /\ Depth(s, k) < Fetched(s))
  <2>1. ASSUME NEW c \in C PROVE FALSE
    <3>1. PICK n \in 1 .. STAGES : c = Context(s, n)
      BY ContextsOfStages DEF TypeOK
    <3> QED
      BY <1>2, <3>1, EntryDepth
  <2>2. C = {}
    BY <2>1
  <2> QED
    BY <1>2, <2>2, FS_EmptySet
<1>3. CASE Retired(s) <= Depth(s, k) /\ Depth(s, k) < Fetched(s)
  <2>1. /\ active[s][Context(s, 1)] \in {0, 1} /\ active[s][Context(s, 2)] \in {0, 1}
        /\ active[s][Context(s, 3)] \in {0, 1} /\ active[s][Context(s, 4)] \in {0, 1}
    BY LoadIs, SMT DEF STAGES
  <2>2. PICK j \in Int : j = Depth(s, k) - Retired(s) + 1
    BY <1>1, SMT
  <2>3. 1 <= j /\ j <= Load(s, 1)
    <3>1. Load(s, 1) \in Int
      BY LoadRange, SMT DEF STAGES
    <3> QED
      BY <1>1, <1>3, <2>2, <3>1, SMT
  <2>4. \E n \in 1 .. STAGES : active[s][Context(s, n)] = 1 /\ Load(s, n) = j
    <3>1. \/ active[s][Context(s, 1)] = 1 /\ Load(s, 1) = j
          \/ active[s][Context(s, 2)] = 1 /\ Load(s, 2) = j
          \/ active[s][Context(s, 3)] = 1 /\ Load(s, 3) = j
          \/ active[s][Context(s, 4)] = 1 /\ Load(s, 4) = j
      BY <2>1, <2>3, LoadIs, SMT
    <3>2. 1 \in 1 .. STAGES /\ 2 \in 1 .. STAGES /\ 3 \in 1 .. STAGES /\ 4 \in 1 .. STAGES
      BY SMT DEF STAGES
    <3> QED
      BY <3>1, <3>2
  <2>5. PICK n \in 1 .. STAGES : active[s][Context(s, n)] = 1 /\ Load(s, n) = j
    BY <2>4
  <2>6. PICK e \in Slots : e = entry[s][Context(s, n)]
                           /\ Depth(s, e) = Retired(s) + Load(s, n) - 1
    BY <2>5, EntryDepth
  <2>7. e = k
    <3>1. Depth(s, e) = Depth(s, k)
      BY <1>1, <2>2, <2>5, <2>6, SMT
    <3> QED
      BY <3>1, DistInRing, DepthsInRing DEF Depth
  <2>8. Context(s, n) \in C
    BY <2>5, <2>6, <2>7, ContextsOfStages DEF TypeOK
  <2>9. ASSUME NEW c \in C PROVE c = Context(s, n)
    <3>1. PICK m \in 1 .. STAGES : c = Context(s, m)
      BY ContextsOfStages DEF TypeOK
    <3>2. Load(s, m) = Load(s, n)
      <4>1. Depth(s, k) = Retired(s) + Load(s, m) - 1
        BY <3>1, EntryDepth
      <4>2. Load(s, m) \in Int /\ Load(s, n) \in Int
        BY LoadRange, SMT DEF STAGES
      <4> QED
        BY <1>1, <2>6, <2>7, <4>1, <4>2, SMT
    <3>3. ~(m < n) /\ ~(n < m)
      <4>1. Load(s, m) \in Int /\ active[s][Context(s, m)] = 1
        BY <3>1, LoadRange, SMT DEF STAGES
      <4>2. m < n => Load(s, n) + active[s][Context(s, m)] <= Load(s, m)
        BY LoadRange
      <4>3. n < m => Load(s, m) + active[s][Context(s, n)] <= Load(s, n)
        BY LoadRange
      <4> QED
        BY <2>5, <3>2, <4>1, <4>2, <4>3, SMT
    <3> QED
      BY <3>1, <3>3, SMT DEF STAGES
  <2>10. C = {Context(s, n)}
    BY <2>8, <2>9
  <2> QED
    BY <1>3, <2>10, FS_Singleton
<1> QED
  BY <1>2, <1>3

(***************************************************************************)
(* As long as the SPU's word for "done" is not the one that means clear,   *)
(* every slot is in exactly one place: not fetched, in one context, on its *)
(* way back or acknowledged.                                               *)
(***************************************************************************)
THEOREM SlotsInOnePlace ==
  ASSUME ACK_CLEAR \notin AckWords
  PROVE  Spec => []EachSlotOnce
<1>1. PipeInv => EachSlotOnce
  <2> SUFFICES ASSUME PipeInv, NEW s \in Spes, NEW k \in Slots
      PROVE  (IF spu_pc[s] # "boot"
                   /\ Dist(k, collected[s], MaxEntries) <
                        Dist(increment(in_back[s], MaxEntries), collected[s],
                             MaxEntries)
                THEN 0 ELSE 1)
               + Cardinality({c \in Ctx : active[s][c] = 1 /\ entry[s][c] = k})
               + Cardinality({d \in dma[s] : d.op = "put" /\ d.slot = k})
               + (IF ack_fifo[s][k] # ACK_CLEAR THEN 1 ELSE 0) = 1
    BY DEF EachSlotOnce
  <2>1. TypeOK /\ OrderInv(s) /\ ContextInv(s) /\ AckInv(s)
    BY DEF PipeInv
  <2>2. /\ Retired(s) \in Int /\ Fetched(s) \in Int /\ Depth(s, k) \in Nat
        /\ Retired(s) <= Fetched(s)
    <3>1. Retired(s) \in Slots /\ Fetched(s) \in Slots /\ Depth(s, k) \in Slots
      BY <2>1, DepthsInRing
    <3> QED
      BY <2>1, <3>1, EntriesAssumption, SMT DEF Slots, OrderInv
  <2>3. spu_pc[s] = "boot" => Retired(s) = 0 /\ Fetched(s) = 0
    BY <2>1 DEF OrderInv, Retired, Fetched, Started
  <2>4. (spu_pc[s] # "boot"
           /\ Dist(k, collected[s], MaxEntries) <
                Dist(increment(in_back[s], MaxEntries), collected[s], MaxEntries))
          <=> Depth(s, k) < Fetched(s)
    <3>1. CASE spu_pc[s] = "boot"
      BY <2>2, <2>3, <3>1, SMT
    <3>2. CASE spu_pc[s] # "boot"
      <4>1. increment(in_back[s], MaxEntries) = ringInc(in_back[s], MaxEntries)
        BY <2>1, IncrementIsInc DEF TypeOK, SpuTypeOK
      <4> QED
        BY <3>2, <4>1 DEF Fetched, Depth, Started
    <3> QED
      BY <3>1, <3>2
  <2>5. Cardinality(Puts(s, k)) = IF Puts(s, k) = {} THEN 0 ELSE 1
    <3>1. CASE Puts(s, k) = {}
      BY <3>1, FS_EmptySet
    <3>2. CASE Puts(s, k) # {}
      <4>1. PICK x : x \in Puts(s, k)
        BY <3>2
      <4>2. Puts(s, k) = {x}
        BY <2>1, <4>1 DEF AckInv
      <4> QED
        BY <3>2, <4>2, FS_Singleton
    <3> QED
      BY <3>1, <3>2
  <2>6. IF Depth(s, k) < Retired(s)
        THEN Puts(s, k) # {} <=> ack_fifo[s][k] = ACK_CLEAR
        ELSE Puts(s, k) = {} /\ ack_fifo[s][k] = ACK_CLEAR
    BY <2>1 DEF AckInv
  <2>7. Puts(s, k) = {d \in dma[s] : d.op = "put" /\ d.slot = k}
    BY DEF Puts
  <2>8. Cardinality({c \in Ctx : active[s][c] = 1 /\ entry[s][c] = k}) =
          IF Retired(s) <= Depth(s, k) /\ Depth(s, k) < Fetched(s)
          THEN 1 ELSE 0
    BY <2>1, OneContext
  <2> DEFINE p == Cardinality({d \in dma[s] : d.op = "put" /\ d.slot = k})
             q == Cardinality({c \in Ctx : active[s][c] = 1 /\ entry[s][c] = k})
             u == IF Depth(s, k) < Fetched(s) THEN 0 ELSE 1
             a == IF ack_fifo[s][k] # ACK_CLEAR THEN 1 ELSE 0
  <2>9. p + a = IF Depth(s, k) < Retired(s) THEN 1 ELSE 0
    BY <2>5, <2>6, <2>7, SMT
  <2>10. /\ p \in Int /\ a \in Int /\ u \in Int
         /\ q = IF Retired(s) <= Depth(s, k) /\ Depth(s, k) < Fetched(s)
                THEN 1 ELSE 0
         /\ u = IF Depth(s, k) < Fetched(s) THEN 0 ELSE 1
    BY <2>5, <2>7, <2>8
  <2>11. u + q + p + a = 1
    <3> HIDE DEF p, q, u, a
    <3> QED
      BY <2>2, <2>9, <2>10, SMT
  <2> QED
    BY <2>4, <2>11
<1> QED
  BY <1>1, PipeInvariant, PTL

=============================================================================
