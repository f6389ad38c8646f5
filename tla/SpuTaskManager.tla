--------------------------- MODULE SpuTaskManager ---------------------------
(***************************************************************************)
(* The SPU side, spu/src/spu_taskmanager.c: every SPE runs a four-stage    *)
(* software pipeline over four contexts, and its memory flow controller    *)
(* (MFC) carries out the DMA commands of the pipeline in any order,        *)
(* whenever it likes.                                                      *)
(***************************************************************************)
EXTENDS FifoMemory

CONSTANTS
  Cycles,    (* the modulus of the unsigned counter cycle (2^32)           *)
  Lookups    (* what looking up a program in the list that is never        *)
             (* created can lead to: "missing" or "lost"                   *)

STAGES == 4
Ctx == 0 .. (STAGES - 1)

ASSUME CyclesAssumption ==
  Cycles \in Nat /\ Cycles >= STAGES /\ Cycles % STAGES = 0
ASSUME LookupsAssumption == Lookups \subseteq {"missing", "lost"}

VARIABLES
  spu_pc,    (* the stage the SPU runs next, "boot" before, "lost" after   *)
             (* an undefined lookup has led it astray                      *)
  tfront, in_back, out_back,   (* tstate: last kicked slot known, last     *)
                               (* slot fetched, last slot retired          *)
  cycle,     (* the pipeline's cycle counter                               *)
  active, entry,               (* pipe[context].active and .entry          *)
  task,      (* pipe[context].task: the command word in the local buffer   *)
             (* and the slot it was copied from                            *)
  dma,       (* the DMA commands the MFC has not carried out               *)
  executed   (* history: the slot whose task stage3 executed last          *)

spuVars == <<spu_pc, tfront, in_back, out_back, cycle, active, entry, task,
             dma, executed>>

NoSlot == MaxEntries

SpuPcs == {"boot", "stage1", "stage2", "stage3", "stage4", "lost"}
Dma == [op : {"get", "put"}, tag : Ctx, slot : Slots]

(* A local task buffer: a command word and the slot it was copied from, or *)
(* Unfetched as long as it holds nothing that belongs to its context.      *)
Unfetched == [cmd |-> "unfetched", slot |-> 0]
Tasks == [cmd : CommandWords, slot : Slots] \cup {Unfetched}

SpuTypeOK ==
  /\ spu_pc \in [Spes -> SpuPcs]
  /\ tfront \in [Spes -> Slots]
  /\ in_back \in [Spes -> Slots]
  /\ out_back \in [Spes -> Slots]
  /\ cycle \in [Spes -> 0 .. (Cycles - 1)]
  /\ active \in [Spes -> [Ctx -> {0, 1}]]
  /\ entry \in [Spes -> [Ctx -> Slots]]
  /\ task \in [Spes -> [Ctx -> Tasks]]
  /\ dma \in [Spes -> SUBSET Dma]
  /\ executed \in [Spes -> Slots \cup {NoSlot}]

-----------------------------------------------------------------------------
(* allocate_pipe_entries and the static variables.                         *)
SpuInit ==
  /\ spu_pc = [s \in Spes |-> "boot"]
  /\ tfront = [s \in Spes |-> 0]
  /\ in_back = [s \in Spes |-> 0]
  /\ out_back = [s \in Spes |-> 0]
  /\ cycle = [s \in Spes |-> 0]
  /\ active = [s \in Spes |-> [c \in Ctx |-> 0]]
  /\ entry = [s \in Spes |-> [c \in Ctx |-> 0]]
  /\ task = [s \in Spes |-> [c \in Ctx |-> Unfetched]]
  /\ dma = [s \in Spes |-> {}]
  /\ executed = [s \in Spes |-> NoSlot]

(* increment of spu_taskmanager.h, one slot too far and as it is.          *)
incrementLate(value, boundary) == IF value + 1 > boundary THEN 0 ELSE value + 1

increment(value, boundary) == IF value + 1 >= boundary THEN 0 ELSE value + 1

(* The context that stage number n works on in this cycle.                 *)
Context(s, n) == (cycle[s] + n - 1) % STAGES

(* main up to its loop: the indices start at the last slot.                *)
SpuMain(s) ==
  /\ spu_pc[s] = "boot"
  /\ tfront' = [tfront EXCEPT ![s] = MaxEntries - 1]
  /\ in_back' = [in_back EXCEPT ![s] = MaxEntries - 1]
  /\ out_back' = [out_back EXCEPT ![s] = MaxEntries - 1]
  /\ spu_pc' = [spu_pc EXCEPT ![s] = "stage1"]
  /\ UNCHANGED <<cycle, active, entry, task, dma, executed,
                 memVars>>

-----------------------------------------------------------------------------
(* check_tasks with a lock line that is used before it is valid, and with  *)
(* the wrong word of it tested.                                            *)
CheckTasksUnguarded(s) == atomic_count[s]

CheckTasksCount(s) == IF atomic_count[s] # 0 THEN atomic_count[s] ELSE tfront[s]

check_tasks(s) == IF atomic_state[s] # 0 THEN atomic_count[s] ELSE tfront[s]

(***************************************************************************)
(* stage1: look at the lock line; when a task is there start to fetch it.  *)
(* The slot that is fetched is the one at in_back before in_back moves,    *)
(* the slot that will be acknowledged is the one after.                    *)
(***************************************************************************)
stage1(s) ==
  LET c == Context(s, 1)
      next == increment(in_back[s], MaxEntries)
  IN
  /\ spu_pc[s] = "stage1"
  /\ tfront' = [tfront EXCEPT ![s] = check_tasks(s)]
  /\ \/ /\ in_back[s] # check_tasks(s)
        /\ dma' = [dma EXCEPT ![s] =
                     @ \cup {[op |-> "get", tag |-> c, slot |-> in_back[s]]}]
        /\ active' = [active EXCEPT ![s][c] = 1]
        /\ in_back' = [in_back EXCEPT ![s] = next]
        /\ entry' = [entry EXCEPT ![s][c] = next]
     \/ /\ in_back[s] = check_tasks(s)
        /\ UNCHANGED <<dma, active, in_back, entry>>
  /\ spu_pc' = [spu_pc EXCEPT ![s] = "stage2"]
  /\ UNCHANGED <<out_back, cycle, task, executed, memVars>>

(***************************************************************************)
(* Looking up a program: `programs == listInit()' compares and does not    *)
(* assign, so the list is address 0 of the local store and what follows is *)
(* undefined.  The SPU goes on as if the program were missing, or never    *)
(* comes back.                                                             *)
(***************************************************************************)
Lookup(s, next) ==
  \E l \in Lookups :
    spu_pc' = [spu_pc EXCEPT ![s] = IF l = "missing" THEN next ELSE "lost"]

(* dmaWaitTag as a no-op, and as it is: every command of the tag is done.  *)
TagDoneAtOnce(s, c) == TRUE

TagDone(s, c) == \A d \in dma[s] : d.tag # c

(***************************************************************************)
(* stage2: wait for the fetch, then prepare the program the task names.    *)
(* REGISTER_PROGRAM fills in a program_s that no list refers to, ADD needs *)
(* nothing; every other word, NOOP too, is looked up.                      *)
(***************************************************************************)
stage2(s) ==
  LET c == Context(s, 2) IN
  /\ spu_pc[s] = "stage2"
  /\ active[s][c] = 1 => TagDone(s, c)
  /\ \/ /\ active[s][c] = 1 /\ task[s][c].cmd \notin {REGISTER_PROGRAM, "ADD"}
        /\ Lookup(s, "stage3")
     \/ /\ active[s][c] = 0 \/ task[s][c].cmd \in {REGISTER_PROGRAM, "ADD"}
        /\ spu_pc' = [spu_pc EXCEPT ![s] = "stage3"]
  /\ UNCHANGED <<tfront, in_back, out_back, cycle, active, entry, task, dma,
                 executed, memVars>>

(***************************************************************************)
(* stage3: execute.  ADD leaves a sum in the ack buffer, NOOP does nothing *)
(* and every other word, REGISTER_PROGRAM too, is looked up as a program.  *)
(***************************************************************************)
stage3(s) ==
  LET c == Context(s, 3) IN
  /\ spu_pc[s] = "stage3"
  /\ \/ /\ active[s][c] = 1 /\ task[s][c].cmd \notin {"ADD", "NOOP"}
        /\ Lookup(s, "stage4")
     \/ /\ active[s][c] = 0 \/ task[s][c].cmd \in {"ADD", "NOOP"}
        /\ spu_pc' = [spu_pc EXCEPT ![s] = "stage4"]
  /\ executed' = [executed EXCEPT ![s] =
                    IF active[s][c] = 1 THEN task[s][c].slot ELSE @]
  /\ UNCHANGED <<tfront, in_back, out_back, cycle, active, entry, task, dma,
                 memVars>>

(* pipe[context].active after stage4, forgotten and as it is.              *)
RetiredStaysActive(s, c) == active[s][c]

RetiredActive(s, c) == 0

(* cycle--, wrapping to one value too low, and as it is: below zero the    *)
(* unsigned counter wraps to its largest value.                            *)
NextCycleShort(x) == IF x = 0 THEN Cycles - 2 ELSE x - 1

NextCycle(x) == IF x = 0 THEN Cycles - 1 ELSE x - 1

(***************************************************************************)
(* stage4: retire the oldest task and start to send its acknowledgement;   *)
(* then the loop of pipeline, which main enters again when it is left.     *)
(* The entry and the task of a retired context are never read again before *)
(* stage1 and the next get overwrite them; resetting them here only merges *)
(* states that the code cannot tell apart.                                 *)
(***************************************************************************)
stage4(s) ==
  LET c == Context(s, 4) IN
  /\ spu_pc[s] = "stage4"
  /\ \/ /\ active[s][c] = 1
        /\ out_back' = [out_back EXCEPT ![s] = increment(@, MaxEntries)]
        /\ active' = [active EXCEPT ![s][c] = RetiredActive(s, c)]
        /\ entry' = [entry EXCEPT ![s][c] = 0]
        /\ task' = [task EXCEPT ![s][c] = Unfetched]
        /\ dma' = [dma EXCEPT ![s] =
                     @ \cup {[op |-> "put", tag |-> c, slot |-> entry[s][c]]}]
     \/ /\ active[s][c] = 0
        /\ UNCHANGED <<out_back, active, entry, task, dma>>
  /\ cycle' = [cycle EXCEPT ![s] = NextCycle(@)]
  /\ spu_pc' = [spu_pc EXCEPT ![s] = "stage1"]
  /\ UNCHANGED <<tfront, in_back, executed, memVars>>

-----------------------------------------------------------------------------
(***************************************************************************)
(* The MFC carries out one of the commands in its queue.  A get copies the *)
(* slot as it is now; a put stores the ack buffer, whose first word is     *)
(* whatever the local store held.                                          *)
(***************************************************************************)
MfcGet(s, d) ==
  /\ d \in dma[s] /\ d.op = "get"
  /\ task' = [task EXCEPT ![s][d.tag] =
                [cmd |-> task_fifo[s][d.slot], slot |-> d.slot]]
  /\ dma' = [dma EXCEPT ![s] = @ \ {d}]
  /\ UNCHANGED <<spu_pc, tfront, in_back, out_back, cycle, active, entry,
                 executed, memVars>>

MfcPut(s, d) ==
  /\ d \in dma[s] /\ d.op = "put"
  /\ \E w \in AckWords :
       ack_fifo' = [ack_fifo EXCEPT ![s][d.slot] = w]
  /\ dma' = [dma EXCEPT ![s] = @ \ {d}]
  /\ UNCHANGED <<spu_pc, tfront, in_back, out_back, cycle, active, entry,
                 task, executed, task_fifo, atomic_count, atomic_state>>

pipeline(s) ==
  \/ SpuMain(s)
  \/ stage1(s)
  \/ stage2(s)
  \/ stage3(s)
  \/ stage4(s)

(* The MFC works on one of the tag groups.                                 *)
MfcTag(s, c) == \E d \in dma[s] : d.tag = c /\ (MfcGet(s, d) \/ MfcPut(s, d))

Mfc(s) == \E c \in Ctx : MfcTag(s, c)

SpuNext == \E s \in Spes : pipeline(s) \/ Mfc(s)

-----------------------------------------------------------------------------
(* The slot before k.                                                      *)
Before(k) == IF k = 0 THEN MaxEntries - 1 ELSE k - 1

(***************************************************************************)
(* The slots whose content the SPU has yet to copy: the gets that are      *)
(* under way and, up to the kicked slot, what stage1 will ask for.         *)
(***************************************************************************)
YetToFetch(s) ==
  {d.slot : d \in {g \in dma[s] : g.op = "get"}} \cup
  {k \in Slots :
     /\ atomic_state[s] = 1 /\ spu_pc[s] # "boot"
     /\ Dist(k, in_back[s], MaxEntries) <
          Dist(atomic_count[s], in_back[s], MaxEntries)}

(***************************************************************************)
(* When stage3 executes a context, the context holds the task of the slot  *)
(* before its entry, entirely copied and not overwritten since, and no DMA *)
(* of its tag is under way: neither a late get nor the put of the          *)
(* acknowledgement of its former task, whose buffer stage3 writes.         *)
(***************************************************************************)
ContextHoldsItsTask ==
  \A s \in Spes :
    LET c == Context(s, 3) IN
    spu_pc[s] = "stage3" /\ active[s][c] = 1 =>
      /\ task[s][c].slot = Before(entry[s][c])
      /\ task[s][c].cmd = task_fifo[s][task[s][c].slot]
      /\ \A d \in dma[s] : d.tag # c

(***************************************************************************)
(* The contexts retire in the order of their slots: the entry that stage4  *)
(* acknowledges is the one out_back moves to, also when cycle wraps and    *)
(* the ring does.                                                          *)
(***************************************************************************)
RetiresInOrder ==
  \A s \in Spes :
    LET c == Context(s, 4) IN
    spu_pc[s] = "stage4" /\ active[s][c] = 1 =>
      entry[s][c] = increment(out_back[s], MaxEntries)

(***************************************************************************)
(* pipeline() is left only when nothing is in it: whenever the test at its *)
(* end finds front and out_back equal, no context is active, so a task     *)
(* cannot be stuck in a pipeline that does not turn.                       *)
(***************************************************************************)
LeavesEmptyPipeline ==
  \A s \in Spes :
    spu_pc[s] = "stage1" /\ tfront[s] = out_back[s] =>
      \A c \in Ctx : active[s][c] = 0
=============================================================================
