----------------------------- MODULE SpuSystem ------------------------------
(***************************************************************************)
(* SPEs that run the pipeline of SpuTaskManager with a PPU that behaves as *)
(* PpuService says.  With the host's threads abstracted the ring can be    *)
(* long enough to fill all four contexts of the pipeline.                  *)
(***************************************************************************)
EXTENDS PpuService, SpuTaskManager

vars == <<ppuVars, spuVars, memVars>>

Init == allocate_fifo /\ PpuInit /\ SpuInit

Next ==
  \/ PpuNext /\ UNCHANGED spuVars
  \/ SpuNext /\ UNCHANGED ppuVars

Spec == Init /\ [][Next]_vars

(***************************************************************************)
(* Every SPU runs, every MFC serves each of its tag groups, and the PPU    *)
(* collects.  Nothing makes it fill a slot or show one.                    *)
(***************************************************************************)
Fairness ==
  \A s \in Spes :
    /\ WF_vars(Collect(s) /\ UNCHANGED spuVars)
    /\ WF_vars(pipeline(s) /\ UNCHANGED ppuVars)
    /\ \A c \in Ctx : WF_vars(MfcTag(s, c) /\ UNCHANGED ppuVars)

FairSpec == Spec /\ Fairness

-----------------------------------------------------------------------------
(* The variables keep to the types of the declarations in the source.      *)
TypeOK == MemTypeOK /\ PpuTypeOK /\ SpuTypeOK

(***************************************************************************)
(* Every outstanding slot is in exactly one place: not fetched yet, in one *)
(* context of the pipeline, on its way back, or acknowledged.  So no slot  *)
(* is dropped when the pipeline is full, none is worked on twice, and no   *)
(* context or transfer is left over from a slot that was collected.        *)
(***************************************************************************)
EachSlotOnce ==
  \A s \in Spes, k \in Slots :
    LET fetched == Dist(k, collected[s], MaxEntries) <
                     Dist(increment(in_back[s], MaxEntries), collected[s],
                          MaxEntries)
        places == (IF spu_pc[s] # "boot" /\ fetched THEN 0 ELSE 1)
                    + Cardinality({c \in Ctx : active[s][c] = 1
                                                 /\ entry[s][c] = k})
                    + Cardinality({d \in dma[s] : d.op = "put" /\ d.slot = k})
                    + (IF ack_fifo[s][k] # ACK_CLEAR THEN 1 ELSE 0)
    IN  places = 1

(***************************************************************************)
(* Filling a slot never disturbs a fetch: the slot that the PPU has filled *)
(* and not shown is none of those the SPU has yet to copy, although the    *)
(* pipeline reads one slot behind the one it acknowledges.                 *)
(***************************************************************************)
FetchIsStable ==
  \A s \in Spes : filled[s] => NextSlot(s) \notin YetToFetch(s)

-----------------------------------------------------------------------------
(***************************************************************************)
(* What these invariants rest on.  The indices of an SPE as main of the    *)
(* task manager sets them: until then they count as standing before slot   *)
(* 0.                                                                      *)
(***************************************************************************)
Started(s, index) == IF spu_pc[s] = "boot" THEN MaxEntries - 1 ELSE index

(* How far a slot is ahead of the one that is collected next, and how far  *)
(* the SPE has retired, fetched and seen the slots that the PPU has shown. *)
Depth(s, k) == Dist(k, collected[s], MaxEntries)

Retired(s) == Depth(s, ringInc(Started(s, out_back[s]), MaxEntries))
Fetched(s) == Depth(s, ringInc(Started(s, in_back[s]), MaxEntries))
Seen(s) == Depth(s, ringInc(Started(s, tfront[s]), MaxEntries))
Shown(s) == Depth(s, NextSlot(s))

(* The indices keep this order around the ring, a slot is filled only      *)
(* while another one is free, nothing is collected before the lock line    *)
(* shows a slot, and nothing is retired before main starts.                *)
OrderInv(s) ==
  /\ Retired(s) <= Fetched(s) /\ Fetched(s) <= Seen(s) /\ Seen(s) <= Shown(s)
  /\ filled[s] => Shown(s) <= MaxEntries - 2
  /\ atomic_state[s] = 0 => atomic_count[s] = 0 /\ collected[s] = 0
  /\ spu_pc[s] = "boot" => Retired(s) = 0

(* The tasks in the contexts that stage number n and the stages after it   *)
(* work on.                                                                *)
Load(s, n) ==
  LET a(m) == IF m >= n THEN active[s][Context(s, m)] ELSE 0
  IN  a(1) + a(2) + a(3) + a(4)

(***************************************************************************)
(* The slots between out_back and in_back are in the active contexts, the  *)
(* oldest one in the context that is nearest to stage4, without a gap.     *)
(***************************************************************************)
ContextInv(s) ==
  /\ Dist(Started(s, in_back[s]), Started(s, out_back[s]), MaxEntries)
       = Load(s, 1)
  /\ \A n \in 1 .. STAGES :
       active[s][Context(s, n)] = 1 =>
         Dist(entry[s][Context(s, n)], Started(s, out_back[s]), MaxEntries)
           = Load(s, n)
  /\ spu_pc[s] \in {"boot", "stage1"} => active[s][Context(s, 1)] = 0
  /\ spu_pc[s] = "boot" => \A c \in Ctx : active[s][c] = 0

(* What the get of an active context asks for, and what it leads to.       *)
FetchOf(s, c) == [op |-> "get", tag |-> c, slot |-> Before(entry[s][c])]

TaskOf(s, c) == [cmd |-> task_fifo[s][Before(entry[s][c])],
                 slot |-> Before(entry[s][c])]

(* The task of an active context is being fetched or is there, and behind  *)
(* stage2 no command of its tag is left.                                   *)
FetchInv(s) ==
  /\ \A d \in dma[s] :
       d.op = "get" => active[s][d.tag] = 1 /\ d = FetchOf(s, d.tag)
  /\ \A c \in Ctx :
       active[s][c] = 1 => FetchOf(s, c) \in dma[s] \/ task[s][c] = TaskOf(s, c)
  /\ \A n \in 2 .. STAGES :
       active[s][Context(s, n)] = 1
         /\ (n = 2 => spu_pc[s] \in {"stage3", "stage4"})
           => TagDone(s, Context(s, n))

Puts(s, k) == {d \in dma[s] : d.op = "put" /\ d.slot = k}

(* A slot that is retired and not collected is on its way back or          *)
(* acknowledged, never both and never twice.                               *)
AckInv(s) ==
  /\ \A k \in Slots :
       /\ Puts(s, k) # {} => Depth(s, k) < Retired(s)
                             /\ ack_fifo[s][k] = ACK_CLEAR
       /\ ack_fifo[s][k] # ACK_CLEAR => Depth(s, k) < Retired(s)
       /\ \A d, e \in Puts(s, k) : d = e
  /\ ACK_CLEAR \notin AckWords =>
       \A k \in Slots : Depth(s, k) < Retired(s) =>
                          Puts(s, k) # {} \/ ack_fifo[s][k] # ACK_CLEAR

(* The inductive invariant of the pipeline.                                *)
PipeInv ==
  /\ TypeOK
  /\ \A s \in Spes : OrderInv(s) /\ ContextInv(s) /\ FetchInv(s) /\ AckInv(s)

-----------------------------------------------------------------------------
(***************************************************************************)
(* Whatever is kicked is acknowledged and collected in the end: no order   *)
(* of DMA completion, no cycle count and no full pipeline blocks the four  *)
(* stages, unless an undefined lookup leads the SPU astray.                *)
(***************************************************************************)
KickedIsCollected ==
  \A s \in Spes, k \in Slots :
    Outstanding(s, k) ~> (~Outstanding(s, k) \/ spu_pc[s] = "lost")
=============================================================================
