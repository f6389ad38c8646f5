------------------------------- MODULE SpuDma -------------------------------
(***************************************************************************)
(* The DMA library of the SPU, include/speutils/spu_dmalib.h, and the MFC  *)
(* behind it.  A program starts transfers between its local store and main *)
(* memory in tag groups and waits for groups; the MFC carries the commands *)
(* out in any order that their fences and barriers allow.  The program     *)
(* starts a transfer that touches what an outstanding one writes, or       *)
(* writes what it reads, only behind a fence or a barrier, and it uses a   *)
(* place only when it has waited for every transfer of it.                 *)
(***************************************************************************)
EXTENDS Integers, Sequences, SequencesExt, FiniteSets

CONSTANTS
  Places,      (* local buffer i and external address i, for i in 0 .. n-1 *)
  Tags,        (* the tag groups that the program uses,                    *)
  Masks,       (* the masks that it passes to dmaWaitAll and dmaWaitAny    *)
  Addresses,   (* the addresses of its single transfers                    *)
  MaxCalls,    (* bound: the transfers that it starts                      *)
  MaxAdds      (* bound: additions to the lock line                        *)

(* The MFC has 32 tags; the last one, whose bit is the sign of an int, is  *)
(* left out.                                                               *)
TagNumbers == 0 .. 30

ASSUME PlacesAssumption == Places \in Nat \ {0}
ASSUME TagsAssumption == Tags \subseteq TagNumbers
ASSUME MasksAssumption == Masks \subseteq Nat \ {0}
ASSUME AddressesAssumption == Addresses \subseteq 0 .. (Places - 1)
ASSUME MaxCallsAssumption == MaxCalls \in Nat
ASSUME MaxAddsAssumption == MaxAdds \in Nat

(* Arithmetic that the provers do not have: a power of two has one bit.    *)
ASSUME PowersAssumption ==
  \A t, u \in TagNumbers : 2^t \in Nat /\ ((2^t \div 2^u) % 2 = 1 <=> t = u)

VARIABLES
  queue,     (* the commands that the MFC has not carried out, oldest first*)
  mem,       (* what every place of the local store and main memory holds  *)
  waiting,   (* the read of the tag status that the SPU is blocked in      *)
  calls,     (* history: how many transfers were started                   *)
  asked,     (* history: queue as the program means it                     *)
  want,      (* history: mem, had every call been carried out at once      *)
  unwaited,  (* history: for every place, the tags of the transfers of it  *)
             (* that the program has started and not waited for            *)
  lock, copy, reserved, (* the lock line, the SPU's copy, its reservation  *)
  adds       (* history: the additions that their makers take for done     *)

dmaVars == <<queue, mem, waiting, calls, asked, want, unwaited>>
lockVars == <<lock, copy, reserved, adds>>
vars == <<dmaVars, lockVars>>

Index == 0 .. (Places - 1)
Ls(i) == <<"ls", i>>
Ea(i) == <<"ea", i>>
Locs == {"ls", "ea"} \X Index

(* Every place starts with a value of its own; the program may compute one.*)
Computed == <<"computed", 0>>
Values == Locs \cup {Computed}

Forms == {"plain", "fence", "barrier"}

(* A command: which buffers it moves from or to which addresses.           *)
Commands == [op : {"get", "put"}, form : Forms, tag : Tags,
             pairs : SUBSET (Index \X Index)]

Idle == [mode |-> "none", mask |-> 0, told |-> {}]

TypeOK ==
  /\ calls \in 0 .. MaxCalls
  /\ queue \in Seq(Commands) /\ Len(queue) <= calls
  /\ asked \in Seq(Commands) /\ Len(asked) = Len(queue)
  /\ mem \in [Locs -> Values] /\ want \in [Locs -> Values]
  /\ waiting.mode \in {"none", "all", "any"}
  /\ waiting.mask \in Nat /\ waiting.told \subseteq Tags
  /\ unwaited \in [Locs -> SUBSET Tags]
  /\ lock \in 0 .. MaxAdds /\ copy \in 0 .. MaxAdds
  /\ reserved \in {"none", "held", "lost"}
  /\ adds \in 0 .. MaxAdds

Init ==
  /\ queue = << >> /\ asked = << >> /\ calls = 0
  /\ mem = [x \in Locs |-> x] /\ want = mem
  /\ waiting = Idle
  /\ unwaited = [x \in Locs |-> {}]
  /\ lock = 0 /\ copy = 0 /\ reserved = "none" /\ adds = 0

-----------------------------------------------------------------------------
(* What a command reads and writes, and memory after it.                   *)
Source(c) == {IF c.op = "get" THEN Ea(p[2]) ELSE Ls(p[1]) : p \in c.pairs}
Target(c) == {IF c.op = "get" THEN Ls(p[1]) ELSE Ea(p[2]) : p \in c.pairs}

Transfer(m, c) ==
  [x \in Locs |->
     IF x \notin Target(c) THEN m[x]
     ELSE LET p == CHOOSE p \in c.pairs :
                     x = IF c.op = "get" THEN Ls(p[1]) ELSE Ea(p[2])
          IN  m[IF c.op = "get" THEN Ea(p[2]) ELSE Ls(p[1])]]

Conflict(c, d) ==
  \/ Target(c) \cap (Source(d) \cup Target(d)) # {}
  \/ Target(d) \cap Source(c) # {}

(***************************************************************************)
(* The program's side of a call: the guard is its discipline, c the        *)
(* transfer that it means to start.                                        *)
(***************************************************************************)
Ask(c) ==
  /\ waiting = Idle /\ calls < MaxCalls
  /\ calls' = calls + 1
  /\ \A i \in 1 .. Len(asked) :
       Conflict(asked[i], c) =>
         /\ asked[i].tag = c.tag
         /\ \/ c.form # "plain"
            \/ \E j \in i .. Len(asked) :
                 asked[j].form = "barrier" /\ asked[j].tag = c.tag
  /\ asked' = Append(asked, c)
  /\ want' = Transfer(want, c)
  /\ unwaited' = [x \in Locs |-> IF x \in Source(c) \cup Target(c)
                                   THEN unwaited[x] \cup {c.tag}
                                   ELSE unwaited[x]]
  /\ UNCHANGED <<mem, lockVars>>

(* mfc_get, mfc_put and their forms put a command into the queue.          *)
Command(op, form, tag, pairs) ==
  [op |-> op, form |-> form, tag |-> tag, pairs |-> pairs]

mfc(op, form, tag, pairs) ==
  queue' = Append(queue, Command(op, form, tag, pairs))

dmaGet(b, l, t) == mfc("get", "plain", t, {<<b, l>>})

dmaGetb(b, l, t) == mfc("get", "barrier", t, {<<b, l>>})

dmaGetf(b, l, t) == mfc("get", "fence", t, {<<b, l>>})

dmaPut(b, l, t) == mfc("put", "plain", t, {<<b, l>>})

dmaPutb(b, l, t) == mfc("put", "barrier", t, {<<b, l>>})

dmaPutf(b, l, t) == mfc("put", "fence", t, {<<b, l>>})

(* mfc_putqlluc is one more way to queue a put.                            *)
atomicqPutuc(b, l, t) == mfc("put", "plain", t, {<<b, l>>})

(***************************************************************************)
(* The list forms tell the MFC the size of the list in bytes; the elements *)
(* are the first n addresses, for the first n buffers.  The size as the    *)
(* number of entries, and as it is.                                        *)
(***************************************************************************)
ELEMENT_SIZE == 8

listEntries(n) == n

listBytes(n) == n * ELEMENT_SIZE

Elements(n) == {<<i, i>> : i \in 0 .. ((listBytes(n) \div ELEMENT_SIZE) - 1)}

dmaGetl(n, t) == mfc("get", "plain", t, Elements(n))

dmaGetlb(n, t) == mfc("get", "barrier", t, Elements(n))

dmaGetlfPlain(n, t) == mfc("get", "plain", t, Elements(n))

dmaGetlf(n, t) == mfc("get", "fence", t, Elements(n))

dmaPutl(n, t) == mfc("put", "plain", t, Elements(n))

dmaPutlb(n, t) == mfc("put", "barrier", t, Elements(n))

dmaPutlf(n, t) == mfc("put", "fence", t, Elements(n))

-----------------------------------------------------------------------------
(* Tag masks: the tag itself, and one bit for it as it is.                 *)
maskIsTag(tag) == tag

uiMask(tag) == 2^tag

InMask(mask) == {t \in TagNumbers : (mask \div 2^t) % 2 = 1}

Outstanding(t) == \E i \in 1 .. Len(queue) : queue[i].tag = t

(* mfc_write_tag_mask and mfc_read_tag_status_all or _any; told is what    *)
(* the program takes for done when the call returns.                       *)
Wait(mode, mask, told) ==
  /\ waiting = Idle
  /\ waiting' = [mode |-> mode, mask |-> mask, told |-> told]

dmaWaitTag(tag) == Wait("all", uiMask(tag), {tag})

dmaWaitAll(mask) == Wait("all", mask, InMask(mask) \cap Tags)

(* The tag status is returned from a function of type void.                *)
dmaWaitAny(mask) == Wait("any", mask, {})

dmaGetnWait(b, l, t) == dmaGet(b, l, t) /\ Wait("any", uiMask(t), {t})

dmaPutnWait(b, l, t) == dmaPut(b, l, t) /\ Wait("any", uiMask(t), {t})

(* The read of the tag status returns.                                     *)
TagStatus ==
  /\ waiting # Idle
  /\ \/ waiting.mode = "all" /\ \A t \in InMask(waiting.mask) : ~Outstanding(t)
     \/ waiting.mode = "any" /\ \E t \in InMask(waiting.mask) : ~Outstanding(t)
  /\ waiting' = Idle
  /\ unwaited' = [x \in Locs |-> unwaited[x] \ waiting.told]
  /\ UNCHANGED <<queue, mem, calls, asked, want, lockVars>>

-----------------------------------------------------------------------------
(* The calls of the program.                                               *)
CallOne(b, l, t) ==
  LET Asks(op, form) == Ask(Command(op, form, t, {<<b, l>>})) IN
  \/ /\ UNCHANGED waiting
     /\ \/ Asks("get", "plain") /\ dmaGet(b, l, t)
        \/ Asks("get", "barrier") /\ dmaGetb(b, l, t)
        \/ Asks("get", "fence") /\ dmaGetf(b, l, t)
        \/ Asks("put", "plain") /\ (dmaPut(b, l, t) \/ atomicqPutuc(b, l, t))
        \/ Asks("put", "barrier") /\ dmaPutb(b, l, t)
        \/ Asks("put", "fence") /\ dmaPutf(b, l, t)
  \/ Asks("get", "plain") /\ dmaGetnWait(b, l, t)
  \/ Asks("put", "plain") /\ dmaPutnWait(b, l, t)

CallList(n, t) ==
  LET Asks(op, form) ==
        Ask(Command(op, form, t, {<<i, i>> : i \in 0 .. (n - 1)}))
  IN
  /\ UNCHANGED waiting
  /\ \/ Asks("get", "plain") /\ dmaGetl(n, t)
     \/ Asks("get", "barrier") /\ dmaGetlb(n, t)
     \/ Asks("get", "fence") /\ dmaGetlf(n, t)
     \/ Asks("put", "plain") /\ dmaPutl(n, t)
     \/ Asks("put", "barrier") /\ dmaPutlb(n, t)
     \/ Asks("put", "fence") /\ dmaPutlf(n, t)

CallWait ==
  /\ \/ \E t \in Tags : dmaWaitTag(t)
     \/ \E mask \in Masks : dmaWaitAll(mask) \/ dmaWaitAny(mask)
  /\ UNCHANGED <<queue, mem, calls, asked, want, unwaited, lockVars>>

(* The program works on a buffer that no transfer can touch.               *)
Compute(i) ==
  /\ waiting = Idle /\ unwaited[Ls(i)] = {}
  /\ mem' = [mem EXCEPT ![Ls(i)] = Computed]
  /\ want' = [want EXCEPT ![Ls(i)] = Computed]
  /\ UNCHANGED <<queue, waiting, calls, asked, unwaited, lockVars>>

(***************************************************************************)
(* The MFC carries out a command: one with a fence or a barrier comes      *)
(* after all earlier ones of its tag group, and every later one of the     *)
(* group comes after one with a barrier.                                   *)
(***************************************************************************)
MfcCommand(i) ==
  /\ \A j \in 1 .. (i - 1) :
       queue[j].tag = queue[i].tag =>
         queue[i].form = "plain" /\ queue[j].form # "barrier"
  /\ mem' = Transfer(mem, queue[i])
  /\ queue' = RemoveAt(queue, i)
  /\ asked' = RemoveAt(asked, i)
  /\ UNCHANGED <<waiting, calls, want, unwaited, lockVars>>

-----------------------------------------------------------------------------
(***************************************************************************)
(* The lock line.  The SPU adds one to it: it reads the line with          *)
(* atomicGet, which sets a reservation, and stores it with atomicPutc,     *)
(* which fails when somebody else has stored meanwhile; then it tries      *)
(* again.  Meanwhile it does nothing else with the library.                *)
(***************************************************************************)
atomicGet ==
  /\ waiting = Idle /\ queue = << >> /\ reserved = "none" /\ adds < MaxAdds
  /\ copy' = lock
  /\ reserved' = "held"
  /\ UNCHANGED <<dmaVars, lock, adds>>

(* The store as an unconditional one and as it is.  The copy in the local  *)
(* store is not needed any more; atomicGet fetches it anew.                *)
atomicPutcAlways ==
  /\ reserved # "none"
  /\ lock' = copy + 1 /\ adds' = adds + 1
  /\ reserved' = "none" /\ copy' = 0
  /\ UNCHANGED dmaVars

(* What atomicPutc returns: the bit is set when the reservation was lost   *)
(* and nothing was stored.  First as the header documents it ("returns 1   *)
(* if successful"), then as it is.                                         *)
MFC_PUTLLC_STATUS == 1

PutcDocumented == IF reserved = "held" THEN MFC_PUTLLC_STATUS ELSE 0

PutcStatus == IF reserved = "lost" THEN MFC_PUTLLC_STATUS ELSE 0

(* The SPU takes its addition for done when the bit is clear.              *)
atomicPutc ==
  /\ reserved # "none"
  /\ lock' = IF reserved = "held" THEN copy + 1 ELSE lock
  /\ adds' = IF PutcStatus = 0 THEN adds + 1 ELSE adds
  /\ reserved' = "none" /\ copy' = 0
  /\ UNCHANGED dmaVars

(* The line is set to 0, whatever it holds.                                *)
atomicPutuc ==
  /\ waiting = Idle /\ queue = << >> /\ reserved = "none"
  /\ lock' = 0 /\ adds' = 0
  /\ UNCHANGED <<dmaVars, copy, reserved>>

(* Somebody else, the PPU or another SPU, adds one to the lock line; when  *)
(* the SPU is busy with transfers nobody can tell when.                    *)
OtherAdds ==
  /\ adds < MaxAdds /\ queue = << >> /\ waiting = Idle
  /\ lock' = lock + 1 /\ adds' = adds + 1
  /\ reserved' = IF reserved = "held" THEN "lost" ELSE reserved
  /\ UNCHANGED <<dmaVars, copy>>

-----------------------------------------------------------------------------
Calls ==
  \/ \E b \in Index, l \in Addresses, t \in Tags : CallOne(b, l, t)
  \/ \E n \in 1 .. Places, t \in Tags : CallList(n, t)
  \/ CallWait
  \/ \E i \in Index : Compute(i)

Next ==
  \/ reserved = "none" /\ Calls
  \/ TagStatus
  \/ \E i \in 1 .. Len(queue) : MfcCommand(i)
  \/ atomicGet
  \/ atomicPutc
  \/ atomicPutuc
  \/ OtherAdds

Spec == Init /\ [][Next]_vars

-----------------------------------------------------------------------------
(***************************************************************************)
(* What the program has waited for is done: a place all of whose transfers *)
(* were covered by dmaWaitTag, dmaWaitAll, dmaGetnWait or dmaPutnWait      *)
(* holds what it would hold had they been carried out in order, and no     *)
(* command in the queue can touch it any more.                             *)
(***************************************************************************)
WaitedIsDone ==
  \A x \in Locs :
    unwaited[x] = {} =>
      /\ mem[x] = want[x]
      /\ \A i \in 1 .. Len(queue) : x \notin Source(queue[i]) \cup Target(queue[i])

(***************************************************************************)
(* The fence and barrier forms order what the program relies on them for:  *)
(* when the queue is empty, memory is as if every call had been carried    *)
(* out at once, in whatever order the MFC took the commands.               *)
(***************************************************************************)
AsIfInOrder == queue = << >> => mem = want

(***************************************************************************)
(* No addition to the lock line is lost or made twice, whoever else adds   *)
(* between atomicGet and atomicPutc: the line holds as many as its users   *)
(* take for done, the SPU by the status that atomicPutc returns.           *)
(***************************************************************************)
NoAdditionLost == lock = adds

-----------------------------------------------------------------------------
(***************************************************************************)
(* What makes the properties inductive.  A reservation that is held is one *)
(* on the line as the SPU has read it.                                     *)
(***************************************************************************)
LockInv ==
  /\ NoAdditionLost
  /\ reserved = "held" => copy = lock /\ adds < MaxAdds

(* The MFC cannot take command j before command i.                         *)
Ordered(q, i, j) ==
  /\ q[i].tag = q[j].tag
  /\ \/ q[j].form # "plain"
     \/ \E k \in i .. (j - 1) : q[k].form = "barrier" /\ q[k].tag = q[j].tag

(* The commands are the ones that the program means, those that must not   *)
(* be exchanged cannot be, and the tag of each one is among those that the *)
(* program knows it has to wait for, for every place that the command      *)
(* touches.                                                                *)
QueueInv ==
  /\ asked = queue
  /\ \A i, j \in 1 .. Len(queue) :
       i < j /\ Conflict(queue[i], queue[j]) => Ordered(queue, i, j)
  /\ \A i \in 1 .. Len(queue) :
       \A x \in Source(queue[i]) \cup Target(queue[i]) :
         queue[i].tag \in unwaited[x]

(* When the read of the tag status returns, what the program takes for     *)
(* done is done.                                                           *)
WaitInv ==
  \/ waiting.told = {}
  \/ waiting.mode = "all" /\ waiting.told \subseteq InMask(waiting.mask)
  \/ waiting.mode = "any" /\ InMask(waiting.mask) = waiting.told
                         /\ \E t \in Tags : waiting.told = {t}
=============================================================================
