------------------------------ MODULE SpeFifo -------------------------------
(***************************************************************************)
(* The whole task fifo: the PPU side of HostFifo with SPEs that run the    *)
(* pipeline of SpuTaskManager on the same memory.                          *)
(***************************************************************************)
EXTENDS HostFifo, SpuTaskManager

vars == <<hostVars, spuVars, memVars>>

Init == allocate_fifo /\ fifoInit /\ SpuInit

Next ==
  \/ HostNext /\ UNCHANGED spuVars
  \/ SpuNext /\ UNCHANGED hostVars

Spec == Init /\ [][Next]_vars

(***************************************************************************)
(* The fairness of the two threads of the PPU, of every SPU, and of every  *)
(* MFC, which serves each of its tag groups in the end.                    *)
(***************************************************************************)
Fairness ==
  /\ WF_vars(AppInside /\ UNCHANGED spuVars)
  /\ SF_vars(SendFrontCount /\ UNCHANGED spuVars)
  /\ WF_vars(fifothread /\ UNCHANGED spuVars)
  /\ \A s \in Spes : WF_vars(pipeline(s) /\ UNCHANGED hostVars)
  /\ \A s \in Spes, c \in Ctx : WF_vars(MfcTag(s, c) /\ UNCHANGED hostVars)

FairSpec == Spec /\ Fairness

-----------------------------------------------------------------------------
(* The application is inside fifoKick for s.                               *)
Kicking(s) == app_pc \in {"lock", "stwcx", "inc"} /\ app_spe = s

(***************************************************************************)
(* fifoBegin and fifoAdd never write a slot that the SPU has yet to copy,  *)
(* although the pipeline reads one slot behind the one it acknowledges: it *)
(* is the slot that ringHasFree keeps free which protects it.              *)
(***************************************************************************)
FetchIsStable ==
  \A s \in Spes :
    isKicked[s] = 0 /\ ~Kicking(s) => front[s] \notin YetToFetch(s)

(***************************************************************************)
(* When an application that has kicked all its entries sees the ring of s  *)
(* empty, stage3 has executed the task of the slot kicked last             *)
(* (tst/task_iface.c ends when fifoIsEmpty says so).                       *)
(***************************************************************************)
ExecutedWhenEmpty ==
  app_pc = "idle" /\ AllKicked =>
    \A s \in Spes :
      atomic_state[s] = 1 /\ ~HasRemaining(s) => executed[s] = atomic_count[s]

-----------------------------------------------------------------------------
(* What is kicked is acknowledged and collected in the end, and fifoWait   *)
(* returns: no order of DMA completion and no cycle count blocks the       *)
(* pipeline.                                                               *)
WaitReturns == (app_pc = "wait") ~> (app_pc = "idle")

-----------------------------------------------------------------------------
(***************************************************************************)
(* The pipeline keeps the promise of SpeService: the slots it works on are *)
(* the entries of the active contexts and those whose acknowledgement is   *)
(* under way.                                                              *)
(***************************************************************************)
Working(s) ==
  {entry[s][c] : c \in {x \in Ctx : active[s][x] = 1}} \cup
  {d.slot : d \in {p \in dma[s] : p.op = "put"}}

HS == INSTANCE HostSystem WITH
        working <- [s \in Spes |-> Working(s)],
        in_back <- [s \in Spes |-> IF spu_pc[s] = "boot" THEN MaxEntries - 1
                                                         ELSE in_back[s]]

ImplementsSpeService == HS!Spec
-----------------------------------------------------------------------------
(***************************************************************************)
(* The application and fifothread keep the promise of PpuService: the slot *)
(* at front is filled from its fifoBegin until the lock line shows it, and *)
(* an acknowledgement is collected when fifothread clears it.              *)
(***************************************************************************)
PS == INSTANCE SpuSystem WITH
        Commands <- Commands \cup {REGISTER_PROGRAM},
        collected <- [s \in Spes |->
                        IF mon_pc = "inc" /\ mon_spe = s
                          THEN ringInc(back[s], MaxEntries) ELSE back[s]],
        filled <- [s \in Spes |-> isKicked[s] = 0 /\ front[s] =
                     IF atomic_state[s] = 0 THEN 0
                     ELSE ringInc(atomic_count[s], MaxEntries)]

ImplementsPpuService == PS!Spec
=============================================================================
