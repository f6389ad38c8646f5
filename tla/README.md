# speutils: a TLA+ verification of the task fifo, the SPE threads and their messages

speutils is a small C library for the Cell processor.  Its core is a *task
fifo*: the PPU (the host core) fills task slots in main memory, an SPE per fifo
fetches them by DMA, works on them in a software pipeline and writes an
acknowledgement word per slot, and a monitor thread on the PPU collects the
acknowledgements.  No lock protects any of this.

## Inventory

| Part | Source | State | Operations | Interaction |
|---|---|---|---|---|
| Ring | `shared/ring.c` | `front`, `back`, `size` | `ringIncFront`, `ringIncBack`, `ringHasFree`, `ringHasRemaining` | shared by the application (front) and `fifothread` (back), no lock |
| Fifo memory | `spefifo.h`, `allocate_fifo` | task slots, ack words, lock line (`count`, `state`) | plain stores, `lwarx`/`stwcx.`, DMA | shared by PPU and SPE |
| PPU fifo | `src/spefifo.c` | `isKicked`, `entry_count`, `current_spe`, ring contexts | `fifoInit`, `fifoBegin`, `fifoAdd`, `fifoKick`, `fifoNoop`, `fifo_addition`, `fifoRegisterProgram`, `fifoWait`, `fifoIsEmpty`, `fifothread` | kicks by a store to the lock line, learns of the end by polling ack words |
| SPU task manager | `spu/src/spu_taskmanager.c`, `spu_taskpipe.c` | `tstate` (front, in_back, out_back), `cycle`, four contexts | `check_tasks`, `stage1` .. `stage4`, `pipeline`, `main` | polls the lock line, DMA get and put |
| DMA library | `spu_dmalib.h` | the MFC's command queue and tag groups | `dmaGet`, `dmaPut`, `dmaWaitTag`, `atomicGet`, barrier, fence and list forms | asynchronous, unordered |
| SPE threads | `src/spethread.c` | SPE context, action pipe, epoll set | `start_spu_thread`, `spu_loop_thread`, `stop_spu_thread`, `send_action` | runs the SPU program, callback per stop |
| Mailboxes | `src/spemessage.c`, `spu_message.h` | mailbox queues, retries | `send_message`, `recieve_message_int`, `wait_for_message_poll` | PPU and SPU, blocking and polling |
| Linked list | `shared/linkedlist.c` | list and its cursor | `listInit`, `listAddEntry`, `listRemoveEntry`, `listFirstEntry`, `listNextEntry` | meant for the task manager's program list |
| Examples, tests | `example/`, `tst/` | - | clients | - |

Hard behaviours: two PPU threads and one SPU plus one MFC per fifo run
concurrently on unlocked memory; a kick is three stores (state, count, then the
ring's front), so an entry can be finished before its ring knows of it; DMA
completes in any order; an index wraps and full must not look like empty;
every wait is a spinning loop that needs others to make progress.

What makes the parts correct: the indices keep their order around the ring and
no slot is written while somebody else may read it; each kicked entry is
acknowledged exactly once and collected exactly once, in order; "empty" is
reported only when everything is collected; a pipeline context executes a
completely copied task with quiet buffers (that of the slot before its entry, the
first of the findings below); the spinning loops end.
`PROJECT.json` lists the hazards at their lines, each with the properties that
would catch it.

## Modules

| Module | Models |
|---|---|
| `Ring` | the index arithmetic of `ring.c`; `Dist` is the gap between two indices |
| `FifoMemory` | the shared memory of the fifos and its initial state |
| `HostFifo` | `spefifo.c`: the application inside each call, and `fifothread` |
| `SpuTaskManager` | `spu_taskmanager.c`: the pipeline and the MFC that executes its DMA |
| `SpeService` | abstract: what the PPU relies on - slots are taken in order and each acknowledged once, in any order |
| `PpuService` | abstract: what the SPE relies on - slots are filled while one is free, shown in order, collected in order |
| `TaskFifo` | abstract: the bounded queue that users think of |
| `HostSystem` | `HostFifo` + `SpeService` on one memory; refines `TaskFifo` |
| `SpuSystem` | `PpuService` + `SpuTaskManager` on one memory |
| `SpeFifo` | `HostFifo` + `SpuTaskManager`, the whole system; refines both `HostSystem` and `SpuSystem` |
| `SpeThread` | `spethread.c`: the thread that runs an SPE, its main (`example2.c`), and the SPU program's stops |
| `SpeMessage` | `spemessage.c` and `spu_message.h`: mailboxes in both directions, with `example1.c` and `spu_example1.c` on top of `SpeThread` |
| `SpuDma` | `spu_dmalib.h`: every call of the DMA library, and the MFC |
| `LinkedList` | `linkedlist.c` with `malloc` and `free` |
| `HostSystemProofs`, `HostQueueProofs` | TLAPS proofs about `HostSystem`: the ring, and what needs sequences |
| `SpuSystemProofs` | TLAPS proofs about `SpuSystem` |
| `SpeFifoProofs` | TLAPS proofs about `SpeFifo`: it implements both halves |
| `SpeMessageProofs` | TLAPS proofs about `SpeThread` and `SpeMessage` |
| `SpuDmaProofs` | TLAPS proofs about `SpuDma` |
| `LinkedListProofs` | TLAPS proofs about `LinkedList` |
| `SequenceLemmas` | facts about numbers and sequences that several proofs use |

The fifo is cut between PPU and SPE, and each side is checked against an
abstract other side.  `SpeFifo` refines both compositions (run `spe`, and proved
in `SpeFifoProofs`): the real pipeline keeps the promise of `SpeService` and the
real PPU side that of `PpuService`, so the invariants of either composition hold
in it.  Therefore `HostSystem` can have several SPEs, and be proved about,
without the pipeline, and `SpuSystem` can have a ring that is long enough to fill
the pipeline, without the PPU's threads.  `HostSystem` in turn implements the
queue of `TaskFifo` (run `host_queue`, and proved in `HostQueueProofs`).

### State and actions

An action is a piece of a handler between two accesses to memory that another
thread can observe in between.

* `CallBegin`, `selectfifo`, `fifoBegin` are one call of `fifoBegin`: the round
  robin step, the spinning test, and the filling of the slot.  Filling is one
  action since nobody else may look at the slot (which `OpenSlotIsPrivate` and
  `FetchIsStable` check).
* `fifoKick`, `SendFrontState`, `SendFrontCount` or `SendFrontRetry`,
  `KickDone` are one `fifoKick` with `send_front`: the store to `state`, the
  store conditional (which may fail), then `isKicked` and `front`.
* `CallRegister` and `fifoRegisterProgram` are the loop of
  `fifoRegisterProgram`, each turn followed by the steps of a kick.
* `CallWait`, `fifoWait`, `fifoIsEmpty` scan the rings one per step.
* `MonRead`, `MonClear`, `MonInc`, `MonWrap` are `fifothread`.  `ringIncBack`
  has two assignments to `back`; the language lets the compiler merge them.
  `IncBackStores` says how many stores the build has.
* `stage1` .. `stage4` are the stages of one cycle; `stage4` includes the
  `cycle--` and the loop of `pipeline`, which `main` enters again at once.  A
  stage touches shared memory at one point only (the lock line in `stage1`,
  read in one piece by `atomicGet`); `dmaGet` and `dmaPut` only queue a command.
* `MfcGet` and `MfcPut` carry out one queued command, in any order.
* `Fill`, `Show`, `Collect` of `PpuService` are a filled slot, the store that
  shows it to the SPE and a turn of `fifothread`.

* `SpeThread`: `Setup`, `ContextRun`, `HandleStop`, `Callback`, `EpollWait` are
  the pieces of `spu_loop_thread`; `Setup`, `ContextRun`, `RunReturns` those of
  `spu_thread`;
  `start_spu_thread`, `send_action`, `CondWait`, `CallStop`, `stop_spu_thread`
  are main's; `spu_stop`, `send_message`, `StopForMbox`, `SpuExit` the SPU
  program's.  Its `Client` is the main of `example2.c`, which waits for each
  callback, or one that sends actions early.
* `SpeMessage` adds to a `THREAD_RUN` thread the loop of `example1.c`:
  `EventWait`, `Interrupted`, `GiveUp` and `ReadIntrMbox` are
  `recieve_message_int`, `Ask` is the user's answer, `ppu_send_message` the
  PPU's `send_message`; `FetchArgument`, `send_message_int`,
  `wait_for_message_poll` and `ProgramExit` are `spu_example1.c`.  The steps of
  `SpeMessage` are steps of `SpeThread` or leave its variables alone.  `Faults`
  are what the environment does: a signal may interrupt a wait (ten of them in a
  row make `recieve_message_int` give up), a program may end early.
* `SpuDma`: one action per function of the header, on a queue of commands.  The
  MFC carries out any command that no earlier fence or barrier of its tag group
  holds back.  The program starts conflicting transfers only behind a fence or
  a barrier, and an addition to a lock line competes with another user's.
* `LinkedList`: one action per function.  `Find` is where the loop of
  `listRemoveEntry` stops.  `malloc` may return any node that is free.
  `order`, `stale` and `visited` are history variables.

In `HostFifo`, `Client` selects how the application uses the interface: `disciplined` kicks
an entry before it begins the next, as `fifoNoop`, `fifo_addition` and
`tst/task_iface.c` do, and registers programs while every ring has room;
`draining` also waits for empty rings first; `batching` begins several entries
before a kick; `registering` calls `fifoRegisterProgram` at any time.

### Abstractions

* A task slot is its command word, one of the words the SPU's switches tell
  apart.  Argument words are not kept.  `entry_count` is.
* `owed` and `executed` are history variables: entries begun and not collected,
  and the slot whose task `stage3` executed last.
* Data of a context that is not active is forgotten when it retires (`entry`,
  `task`); the code overwrites both before it reads them again.
* `cycle` is taken modulo `Cycles`.  The code's modulus is 2^32, a multiple of
  `STAGES` like every value the assumption allows, and only `cycle % STAGES`
  is used.
* Undefined behaviour is a choice.  `task_id` of an acknowledgement is never
  written by the SPU: `AckWords` are the values it may have.  Looking up a
  program starts from a list pointer that was never assigned: `Lookups` says
  whether the SPU goes on as if the program were missing or is lost.  The
  content of a slot before its first use is `InitCommand`.
* In `SpeThread` a word is told apart by where it comes from: the code of a
  stop, a message, an address, an uninitialised variable.  A call of libspe2 or
  epoll may fail (`Outcomes`).  When `spe_context_create` fails, which
  `start_spu_thread` does not test, everything goes on without a context: the
  program cannot be loaded and a word that main sends goes nowhere.  A failed
  `pipe` shows as a failed `epoll_ctl`.  `spe_out_mbox_read` has no blocking mode (its
  third argument is a count), so an empty mailbox leaves the variable as it is.
  `said` and `told` are history variables.  The descriptors that
  `close(spu->pipe)` fails to close are not tracked.
* In `SpeMessage` a word from the program is `Address`, since
  `send_message_int` writes the address of its parameter, and
  `messages.h` has RUN and RDY commented out: the model takes RUN and STOP as
  two different words.  The incoming mailbox has four places and the
  interrupting one has one, as in the hardware.
* In `SpuDma` a transfer moves the value of a whole buffer; a list has the
  elements that its size in bytes covers.  Tag 31 is left out: TLC's integers
  end at 2^31 - 1, and `1<<31` does not fit the code's int either.  An addition
  to the lock line counts as made when the status that `atomicPutc` returns says
  so to its maker.
* Memory is sequentially consistent.  `spefifo.c` has no barrier between the
  stores to a slot and the kick; that hazard is listed, not modelled.
* One application thread.  The mutexes in `spefifo.c` are commented out.

## Runs

| Run | Instance | Result |
|---|---|---|
| `host` | 2 SPEs, 2 slots, disciplined, fair | types, the inductive invariant `RingInv`, `AckAccounting`, `SelectFindsFree`, `OpenSlotIsPrivate`, `WaitSound` hold; `EntryCollected`, `SelectReturns`, `WaitReturns` |
| `host_queue` | 1 SPE, 4 slots, disciplined | `NoAckLost`; refines `TaskFifo` |
| `host_torn` | 2 SPEs, 3 slots, draining, two stores, acknowledgement words that may be `ACK_CLEAR` | `WaitSound` holds in spite of the torn store and of acknowledgements that are never seen |
| `spe` | 1 SPE, 3 slots, fair | `FetchIsStable`; the pipeline implements `SpeService` and the PPU side `PpuService`; `fifoWait` returns through the whole chain |
| `spu` | 1 SPE, 5 slots, NOOP tasks, lookups may lose the SPU, fair | types, `EachSlotOnce`, `FetchIsStable`, `ContextHoldsItsTask`, `RetiresInOrder`, `LeavesEmptyPipeline`; `KickedIsCollected` unless the SPU is lost |
| `thread` | both thread types, early actions, up to 3 in the pipe, codes 0, 5 and 16, calls may fail, waits are interrupted, programs end early, 6 answers, fair | `ThreadInv`, `ContextOutlivesSpu`, `SignalReported`, `LockStep`, `ReceivesSentWord`, `ReportsFit` hold; `StopHeard`, `ReceiveReturns`, `SendReturns` |
| `dma` | 2 buffers, 2 tag groups, 3 transfers, 2 additions | `WaitedIsDone`, `AsIfInOrder`, `NoAdditionLost` |
| `list` | 2 entries, 4 nodes, fresh user | `ListIsOrder`, `CursorInOrder` and the inductive `ListInv` |
| `executed_when_empty` | 1 SPE, 3 slots | **violated**: the last kicked task is acknowledged and never executed |
| `registering_wait` | 1 SPE, 3 slots, registering | **violated**: a full ring looks empty |
| `lost_wakeup` | main of `example2.c`, fair | **violated**: the callback comes before the wait |
| `answer_ahead` | example 1, interrupted waits, 1 answer, fair | **violated**: after two waits were given up and STOP was sent the join does not end |

The bounds: two slots are the smallest ring that works and already wrap at
every second entry; four slots let three entries be kicked, taken and
acknowledged out of order at once; with three slots two contexts of the
pipeline are active together and overlap the put of a retired one.  Two SPEs
are enough for the round robin, for scans that pass one ring while another
changes, and for the starvation that `EntryCollected` excludes by its premise.
A slot has four words (`TASK_SIZE` 16), the least `fifoRegisterProgram` needs,
so that `fifoAdd` meets its limit.  The sizes in bytes leave a rest on purpose.
Five slots let four tasks be outstanding, one per context (run `spu`).
`Cycles` is 4, so the counter wraps all the time.  Three actions in the pipe are
two THREAD_CONTINUE before a THREAD_EXIT; the thread treats each alike.  The
code 5 shares two bits with `READ_MBOX`, 0 and 16 none.
Six answers are more than the four places of the
incoming mailbox, so that it fills once main is ahead of the program.  Three
transfers are one, one held back behind it and one that overtakes; two tag
groups show that a fence of one does not hold back the other.  Four nodes are a
list with a first, a last and a middle node, and one that was freed.
The runs of `SpeThread` and `SpeMessage` do not check deadlock: a process that
has stopped, or a main that waits for a thread that has failed, is no error here
(that a main can wait forever is what `lost_wakeup` and `answer_ahead` are
about); nor does `spu`, where the SPU may be lost.

### The findings

* `stage1` (`spu_taskmanager.c:49`) fetches the slot at `in_back` *before* the
  increment and acknowledges the slot *after* it.  Every context runs the task
  of the slot before; the first runs uninitialised memory, the last kicked task
  is not run until a further kick.
* `fifoRegisterProgram` (`spefifo.c:347`) adds an entry to a full ring; then
  `front = back` and `fifoIsEmpty` returns 1 with every entry outstanding.
* `example2.c:73` waits on a condition variable without a condition.
* `recieve_message_int` (`spemessage.c:60`) returns STOP after ten interrupted
  waits; `example1.c` takes it for a report and answers.  One answer too early
  does no harm, for the interrupt mailbox has a place for the report that is not
  read: the program reports once more than it is told to RUN, so the join ends.
  After two of them (twenty interrupted waits) it need not.  In the run main gives
  up, sends RUN, gives up again, sends STOP and joins, without having read a
  report.  The first report fills the mailbox; the program takes the RUN, works,
  and spins in `send_message_int` on its second report, which nobody will read;
  the STOP stays unread and main in the join.  `StopHeard` and `ReportsFit` are
  what remains true: with at most one wait given up the last report finds the
  mailbox empty and the join ends.

Seen while modelling, and not given a run of its own:

* `ringIncBack` (`ring.c:44`) passes through `back = size`.  A burst of the
  application that falls into that instant finds room in a full ring:
  `SelectFindsFree` fails in `HostSystem` with one SPE, a disciplined client and
  `IncBackStores = 2`.
* `spu_loop_thread` (`spethread.c:124`) tests the stop code for a common bit
  with `READ_MBOX` instead of equality; for a code such as 5 the callback gets an
  undefined word.  `SignalReported` says for which codes it does and for which it
  gets the code.
* `listRemoveEntry` (`linkedlist.c:59`) leaves a dangling `previous` in the next
  node: `ListIsOrder` fails in `LinkedList` with `Client = "any"` after two
  additions and two removals.  Nothing in the repository removes entries or says
  what a removal does, so there is no statement to hold it to.
* A thread whose setup failed never runs its program, and `recieve_message_int`
  on it waits forever; `ReceiveReturns` names this case (`NeverRun`).
* `spu_dmalib.h` documents a tag as `1<<(0-31)`, the code takes its number (the
  mutant `maskIsTag` confuses the two and breaks `WaitedIsDone`); `atomicPutc` is
  said to return 1 if successful, but the bit means failure (a user who believes
  the header is the mutant `PutcDocumented`, which breaks `NoAdditionLost`);
  `dmaWaitAny` waits for any group and does not say which.
* `fifoBegin` without a kick (`spefifo.c:219`) also fills a ring completely:
  `registering_wait` with `Client = "batching"` ends the same way.
* `stop_spu_thread` (`spethread.c:222`) frees `events` also after a thread that
  does not loop and never assigned it.  This may end the process; `BufferInv` in
  `ThreadInv` says that it is the only case that can.
* The SPU's `send_message` (`spu_message.h:44`) sends the address of its
  parameter; the model's mailbox holds `Address`.
* `fifoInit` (`spefifo.c:179`) rounds `fifo_size` down, its comment says up.

Not a fault, but worth knowing: the inner loop of `fifothread` stays with one
ring as long as it finds acknowledgements there, so under continuous load on
one SPE the entries of another are not collected.  `EntryCollected` therefore
has the premise that `fifothread` returns to the ring; `WaitReturns` shows that
the starvation ends when the application stops beginning entries.

### Fairness

Weak fairness of the steps inside a call, of `fifothread`, of every SPU and of
every tag group of an MFC: the threads are preemptive and the hardware executes
every queued DMA.  Strong fairness of the successful store conditional: a lost
reservation is repeated, and nothing else writes the lock line all the time.
In `SpeThread`: weak fairness of the thread, of the join, of entering the
condition wait, and of the SPU program, which must not compute forever for an
action to reach it (`spethread.c:207` asks for this).  In `SpeMessage`: weak
fairness of main inside the library's calls and of the program; none of the
user's answers, of signals or of early ends.
Nothing is assumed of the application's calls: it may stop at any time outside
a call.  The liveness runs leave out the lost SPU and the acknowledgement word
that equals `ACK_CLEAR`, for with either the waits do not return.

## Proofs

`HostSystemProofs` proves, for every number of SPEs, every size of the fifos
and all commands, under the assumptions named in the modules (at least one SPE,
at least two slots, at least four words per slot):

* `TypeCorrect`: `Spec => []TypeOK`, for every kind of client and both
  compilations of `ringIncBack`.  `TypeOK` is not inductive: `TypeInv` adds that
  `back` is out of range only inside `ringIncBack` and that a slot that is open
  for `fifoAdd` has a free word.
* `RingInvariant`: `Spec => []RingInv`, for a disciplined or draining client
  and a `ringIncBack` of one store.  The runs above show that both hypotheses
  are needed.
* `AcksAccountedFor`, `SelectIsSafe`, `OpenSlotSafe`: `AckAccounting`,
  `SelectFindsFree` and `OpenSlotIsPrivate` follow from it.

The argument: around the ring the indices come in the order `back`, taken,
kicked, `front`.  `AckAccounting` alone is not inductive: that a step of `back`
does not run past the taken slots needs that the collected word was an
acknowledgement (`MonitorInv`); that a kick does not close the window needs the
room that `selectfifo` found to be there still (`RoomInv`), which needs that at
most one slot is open (`OpenInv`) and how `front` follows the lock line during
the stores of a kick (`FrontInv`); `TakenInv` bounds the SPE by the lock line,
and `OwedInv` ties the history variable to the indices.  The lemmas `GapIncUpper`,
`GapIncLower`, `GapUnique` and `GapWidest` carry all the modular arithmetic, so
that no other step expands it.  There is one lemma per action or group of
actions, and `RingStep` combines them.

`HostQueueProofs` goes on from `RingInv`, under the same two hypotheses:

* `WaitIsSound`: `WaitSound`.  By `OwedInv` a ring with `front = back` and
  nothing open owes nothing, and no entry is begun during a scan.
* `AcksNotLost`: `NoAckLost`, which is inductive relative to `RingInv`.
* `QueuesImplemented`: `Spec => ImplementsTaskFifo`.  The mapping makes a
  sequence of statuses out of the slots between `back` and the lock line.  A
  store to `state` or `count` that widens the window appends to it, `Take` and
  `Acknowledge` change one element, `MonInc` takes the head off, and every other
  step leaves all positions alone; each of these is a lemma.

`SpuSystemProofs`, for every size of the ring, every multiple of four as the
modulus of `cycle`, all commands and both outcomes of a lookup:

* `TypeCorrect` (`TypeOK`) and `PipeInvariant`: `Spec => []PipeInv`.
* `ExecutesTheTask`, `RetirementInOrder`, `PipelineLeftEmpty`,
  `FetchesAreStable`: `ContextHoldsItsTask`, `RetiresInOrder`,
  `LeavesEmptyPipeline` and `FetchIsStable` follow from it.
* `SlotsInOnePlace`: `EachSlotOnce`, when no acknowledgement word is
  `ACK_CLEAR`.  The hypothesis is needed: such an acknowledgement is in no place.

None of these is inductive.  `PipeInv` is: `OrderInv` keeps the indices
collected, retired, fetched, seen and shown in this order around the ring (an SPU
that has not run `main` yet counts as standing before slot 0); `ContextInv` says
that the slots between `out_back` and `in_back` are in the active contexts, the
oldest nearest to `stage4` and without a gap, which is why a context is free when
`stage1` takes it although `stage1` does not test it; `FetchInv` says that the
task of an active context is being fetched or there, and unchanged in memory
because the slot one behind it cannot be filled; `AckInv` says where a retired
slot is.  A turn of the pipeline hands every context to the next stage; the lemma
`ContextsMoveOn` does the arithmetic, also where `cycle` wraps.

`SpeFifoProofs`, for a disciplined or draining client and a `ringIncBack` of one
store:

* `WholeInvariant`: `RingInv` and `PipeInv`, through the refinement mappings of
  `SpeFifo`, hold together.  Neither half can be shown alone: that `stage1` and
  `MfcPut` are steps of `SpeService` uses `PipeInv`, that a kick, `fifoBegin` and
  `fifothread` are steps of `PpuService` uses `RingInv`, and `RingStep` and
  `PipeStep` of the two halves then give the invariants after the step.
* `PipelineKeepsPromise`, `PpuKeepsPromise`: `ImplementsSpeService` and
  `ImplementsPpuService`.
* `OpenSlotIsNotFetched`: `FetchIsStable` of the whole.
* `PipelineWorksInWhole`: `ContextHoldsItsTask`, `RetiresInOrder` and
  `LeavesEmptyPipeline` with the real PPU.
* `WholeImplementsQueues`: the whole implements the queues of `TaskFifo`.

`SpeMessageProofs`, for every set of stop codes, every client, every outcome of
the calls, every number of turns and every fault:

* `ThreadCorrect`: `Spec => []ThreadInv`.  `ThreadInv` is inductive; it contains
  `ContextOutlivesSpu`.
* `SignalsAreReported`: `SignalReported`, for all codes.  It needs `SignalInv`, a
  stop that is not handled yet still has the program's code, and the lemma
  `MboxBitsAsk`, which finds the bits of `READ_MBOX`.
* `MessagesRefineThread`: `MsgSpec => Spec`, so that these hold with the mailbox
  messages too (`MessagesKeepThreadInv`, `MessagesKeepContext`).
* `MsgInvariant`, and from it `MessageTypes`, `MessagesInLockStep`,
  `ReceivedWordWasSent` and `ReportsAlwaysFit` (`MsgTypeOK`, `LockStep`,
  `ReceivesSentWord`, `ReportsFit`).  `MsgInv`
  adds to them what the counters say: `CountInv` relates the turns of main and
  of the program to the unread words in the mailbox, where only the last can be a
  STOP, `TurnInv` says whose turn it is as long as no wait was given up, and
  `ReportInv` that every receive of main has read a report or was given up and
  every report was read or lies in the mailbox; hence what is left to report.

`SpuDmaProofs`, for all buffers, tags, values and bounds and without a
hypothesis: `DmaInvariant`, and from it `DmaTypeCorrect`, `AdditionsKept`,
`WaitingIsEnough` and `OrderNeverShows`.  `AsIfInOrder` speaks of an empty queue
only; the invariant must speak of every queue.  It says that the commands left,
carried out in the order of the queue, would turn `mem` into `want`: `Replay`,
which names the memories in between instead of computing them.  A command that
the MFC takes out of turn commutes with every command before it, because
conflicting ones are `Ordered` by a fence or a barrier (`QueueInv`), so the
memories in between can be moved along.  `WaitInv` ties what was waited for to
what is in the queue, `LockInv` the reservation to the value that was read.
`PowersAssumption` states the facts about `2^t` that the provers do not have.

`LinkedListProofs`, for every number of entries and nodes and a user that never
removes an entry whose predecessor was removed (`Client = "fresh"`; with
`"any"` the properties fail, see the findings): `ListInvariant`, and from it
`PointersAreTheList` and `CursorStaysInOrder`.  `LinksInv` says of every node of
the list, not only of those that a walk from `first` meets, that its links are
right.  What the walk (`chain`, a recursive function) returns follows from it by
a least counterexample: `SequenceLemmas!LeastNumber` takes the place of
induction.

The assumptions of all these theorems are the named ones of the modules, which
TLC evaluates in every run.

Only model-checked:

* Liveness: `EntryCollected`, `SelectReturns`, `WaitReturns`,
  `KickedIsCollected`, `StopHeard`, `ReceiveReturns`, `SendReturns`.  Fairness
  needs `ENABLED`, which is out of the prover's reach.
* `WaitSound` where `back` is stored twice (run `host_torn`): the theorem is
  about one store.

Every other property of a passing run is stated by a theorem.  `PipeInv` and
`MsgInv`, which no run names, were model-checked on the instances of `spu` and
`thread`.

## Not modelled

What a registered program does: `main` of the task manager never assigns the
list and `stage2` fills in a `program_s` that nothing refers to, so no program is
found or run in a defined way.  The SNOOZE state of the task manager, which
nothing enters.  `check_for_message`, a status read that nobody calls;
`ringReset`, `ringFreeContext`, `spu_thread_allocate` and `spu_thread_free`,
which wrap allocation.  Several application threads.  The order of stores on a
weakly ordered PPU: the repository states no order to hold the code to.  Build
files.

## Plan

1. `WaitSound` for a draining client and a `ringIncBack` of two stores, with an
   invariant that does not need `RingInv`: `front` and `back` agree whenever the
   rings are scanned as empty, torn or not.
2. What `RingInv` becomes for a batching client while a ring has room, so that
   the theorems state the limits of `fifoBegin` instead of excluding them.
3. The safety half of the liveness properties: the step that a waiting thread
   waits for is possible whenever it waits.
