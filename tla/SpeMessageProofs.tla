-------------------------- MODULE SpeMessageProofs --------------------------
(***************************************************************************)
(* Proofs about SpeThread, for every set of stop codes, every kind of      *)
(* client and every outcome of the calls, and about SpeMessage, for every  *)
(* number of turns and every fault: the messages do not disturb what       *)
(* SpeThread says of the threads, and main and the program keep in step.   *)
(***************************************************************************)
EXTENDS SpeMessage, SequenceTheorems, TLAPS

(* A stop with READ_MBOX itself is always taken for a mailbox message.     *)
LEMMA ReadMboxAsks == AsksForMbox(READ_MBOX)
<1>1. 1 \in SignalBits
  BY DEF SignalBits
<1>2. (1999 \div 1) % 2 = 1
  BY SMT
<1>. QED
  BY <1>1, <1>2 DEF AsksForMbox, READ_MBOX

(* The bits that the test looks at are those of READ_MBOX.                 *)
LEMMA MboxBitsAsk ==
  ASSUME NEW c \in Nat
  PROVE  AsksForMbox(c) <=> \E b \in MboxBits : (c \div b) % 2 = 1
<1>1. \A b \in SignalBits : (1999 \div b) % 2 = 1 <=> b \in MboxBits
  BY SMT DEF SignalBits, MboxBits
<1>2. MboxBits \subseteq SignalBits
  BY DEF SignalBits, MboxBits
<1>. QED
  BY <1>1, <1>2 DEF AsksForMbox, READ_MBOX

(* The thread and main start out of each other's way.                      *)
LEMMA ThreadInit == Init => ThreadInv
BY TypesAssumption
DEF Init, ThreadInv, TypeOK, LifeCycle, BufferInv, MailboxInv, MboxPending,
    ContextOutlivesSpu, Actions, Words, Undefined, Message

(* The steps of main keep the invariant; the join is what stop_spu_thread  *)
(* needs before it destroys the context.                                   *)
LEMMA MainStep == ThreadInv /\ MainNext => ThreadInv'
<1>. SUFFICES ASSUME ThreadInv, MainNext PROVE ThreadInv'
  OBVIOUS
<1>. USE DEF ThreadInv, TypeOK, LifeCycle, BufferInv, MailboxInv,
             MboxPending, ContextOutlivesSpu
<1>1. CASE start_spu_thread
  BY <1>1 DEF start_spu_thread
<1>2. ASSUME NEW a \in Actions, send_action(a) PROVE ThreadInv'
  BY <1>2 DEF send_action
<1>3. CASE CondWait
  BY <1>3 DEF CondWait
<1>4. CASE CallStop
  BY <1>4 DEF CallStop
<1>5. CASE stop_spu_thread
  BY <1>5 DEF stop_spu_thread, Joined, ThreadTypes
<1>. QED
  BY <1>1, <1>2, <1>3, <1>4, <1>5 DEF MainNext

(* The steps of the SPU program keep the invariant: the mailbox is filled  *)
(* on the way to a stop with READ_MBOX only.                               *)
LEMMA SpuStep == ThreadInv /\ SpuNext => ThreadInv'
<1>. SUFFICES ASSUME ThreadInv, SpuNext PROVE ThreadInv'
  OBVIOUS
<1>. USE DEF ThreadInv, TypeOK, LifeCycle, BufferInv, MailboxInv,
             MboxPending, ContextOutlivesSpu, Words, Code, Message, Address
<1>1. ASSUME NEW c \in StopCodes, spu_stop(c) PROVE ThreadInv'
  BY <1>1 DEF spu_stop
<1>2. CASE send_message
  BY <1>2 DEF send_message
<1>3. CASE StopForMbox
  BY <1>3 DEF StopForMbox
<1>4. CASE SpuExit
  BY <1>4 DEF SpuExit
<1>. QED
  BY <1>1, <1>2, <1>3, <1>4 DEF SpuNext

(* The steps of the thread keep the invariant.                             *)
LEMMA ThreadStep == ThreadInv /\ ThreadNext => ThreadInv'
<1>. SUFFICES ASSUME ThreadInv, ThreadNext PROVE ThreadInv'
  OBVIOUS
<1>. USE DEF ThreadInv, TypeOK, LifeCycle, BufferInv, MailboxInv,
             MboxPending, ContextOutlivesSpu
<1>1. CASE Setup
  BY <1>1 DEF Setup, EventsAfterSetup
<1>2. CASE ContextRun
  BY <1>2 DEF ContextRun
<1>6. CASE RunReturns
  BY <1>6 DEF RunReturns, ThreadTypes
<1>3. CASE HandleStop
  <2>1. TypeOK'
    BY <1>3 DEF HandleStop, MboxWord, Words, Code, Address, Undefined
  <2>2. LifeCycle' /\ BufferInv' /\ ContextOutlivesSpu'
    BY <1>3 DEF HandleStop
  <2>3. MailboxInv'
    BY <1>3, ReadMboxAsks DEF HandleStop, MboxWord
  <2>. QED
    BY <2>1, <2>2, <2>3
<1>4. CASE Callback
  BY <1>4 DEF Callback
<1>5. CASE EpollWait
  BY <1>5 DEF EpollWait, ExitsOn
<1>. QED
  BY <1>1, <1>2, <1>3, <1>4, <1>5, <1>6 DEF ThreadNext

(* The life cycle, the event buffer and the mailbox are handled as         *)
(* ThreadInv says, in every state of spu_loop_thread, spu_thread, main and *)
(* the SPU program.                                                        *)
THEOREM ThreadCorrect == Spec => []ThreadInv
<1>1. ThreadInv /\ UNCHANGED vars => ThreadInv'
  BY DEF vars, ThreadInv, TypeOK, LifeCycle, BufferInv, MailboxInv,
         MboxPending, ContextOutlivesSpu
<1>2. ThreadInv /\ [Next]_vars => ThreadInv'
  BY <1>1, MainStep, ThreadStep, SpuStep DEF Next
<1>. QED
  BY <1>2, ThreadInit, PTL DEF Spec

(* Every step keeps the code of a stop until it is reported.               *)
LEMMA SignalStep ==
  ThreadInv /\ SignalInv /\ [Next]_vars => SignalInv'
<1>. SUFFICES ASSUME ThreadInv, SignalInv, [Next]_vars PROVE SignalInv'
  OBVIOUS
<1>. USE DEF ThreadInv, ContextOutlivesSpu, SignalInv, SignalReported
<1>1. CASE UNCHANGED vars
  BY <1>1 DEF vars
<1>2. CASE MainNext
  BY <1>2 DEF MainNext, start_spu_thread, send_action, CondWait, CallStop,
              stop_spu_thread, LifeCycle, TypeOK
<1>3. CASE Setup \/ ContextRun \/ RunReturns \/ Callback \/ EpollWait
  BY <1>3 DEF Setup, ContextRun, RunReturns, Callback, EpollWait
<1>4. CASE HandleStop
  <2>1. CASE thr_pc' = "exited"
    BY <1>4, <2>1 DEF HandleStop
  <2>2. CASE thr_pc' = "callback" /\ said.kind = "code"
    <3>1. /\ thr_pc = "in_run" /\ spe = "stopped" /\ type = "THREAD_LOOP"
          /\ stop_info.reason = "SPE_STOP_AND_SIGNAL" /\ said' = said
          /\ told' = IF AsksForMbox(stop_info.code) THEN MboxWord
                                                   ELSE Code(stop_info.code)
      BY <1>4, <2>2 DEF HandleStop
    <3>2. said = Code(stop_info.code) /\ stop_info.code \in Nat
      BY <2>2, <3>1, StopCodesAssumption
    <3>3. out_mbox = << >>
      BY <2>2, <3>1 DEF MailboxInv, MboxPending, Message
    <3>4. said.value = stop_info.code
      BY <3>2 DEF Code
    <3>. QED
      BY <2>2, <3>1, <3>2, <3>3, <3>4, MboxBitsAsk DEF MboxWord
  <2>3. CASE thr_pc' = "callback" /\ said.kind # "code"
    BY <1>4, <2>3 DEF HandleStop
  <2>. QED
    BY <1>4, <2>1, <2>2, <2>3 DEF HandleStop
<1>5. ASSUME NEW c \in StopCodes, spu_stop(c) PROVE SignalInv'
  BY <1>5 DEF spu_stop, TypeOK
<1>6. CASE send_message \/ SpuExit
  BY <1>6 DEF send_message, SpuExit, TypeOK
<1>7. CASE StopForMbox
  BY <1>7 DEF StopForMbox, Message, TypeOK
<1>. QED
  BY <1>1, <1>2, <1>3, <1>4, <1>5, <1>6, <1>7 DEF Next, ThreadNext, SpuNext

(***************************************************************************)
(* Whatever codes the program uses, the callback gets those that have no   *)
(* bit in common with READ_MBOX, and an uninitialised word for the others. *)
(***************************************************************************)
THEOREM SignalsAreReported == Spec => []SignalReported
<1>1. Init => SignalInv
  BY DEF Init, SignalInv, SignalReported, Undefined
<1>2. SignalInv => SignalReported
  BY DEF SignalInv
<1>. QED
  BY <1>1, SignalStep, <1>2, ThreadCorrect, PTL DEF Spec

-----------------------------------------------------------------------------
(* Every step of main, the thread and the program is a step of SpeThread,  *)
(* or it changes the mailboxes of the messages only.                       *)
LEMMA MessageStepIsThreadStep ==
  MsgNext => Next \/ UNCHANGED vars
<1> SUFFICES ASSUME MsgNext PROVE Next \/ UNCHANGED vars
  OBVIOUS
<1>1. CASE MainCommon
  BY <1>1 DEF MainCommon, Next, MainNext
<1>2. CASE ThreadNext \/ LoopProgram
  BY <1>2 DEF LoopProgram, Next
<1>3. CASE recieve_message_int \/ Interrupted \/ Ask
  BY <1>3 DEF recieve_message_int, Interrupted, EventWait, GiveUp, ReadIntrMbox,
              Ask
<1>4. CASE ppu_send_message
  BY <1>4 DEF ppu_send_message, Next, MainNext
<1>5. CASE Program \/ EarlyExit
  BY <1>5 DEF Program, FetchArgument, send_message_int, wait_for_message_poll,
              ProgramExit, EarlyExit, Next, SpuNext
<1> QED
  BY <1>1, <1>2, <1>3, <1>4, <1>5 DEF MsgNext

(***************************************************************************)
(* The thread of a program that uses the mailbox messages behaves as       *)
(* SpeThread says, so whatever is proved of SpeThread holds for it.        *)
(***************************************************************************)
THEOREM MessagesRefineThread ==
  MsgSpec => Spec
<1>1. MsgInit => Init
  BY DEF MsgInit
<1>2. [MsgNext]_<<vars, msgVars>> => [Next]_vars
  BY MessageStepIsThreadStep
<1> QED
  BY <1>1, <1>2, PTL DEF MsgSpec, Spec

(* The life cycle, the event buffer and the mailbox stop of SpeThread are  *)
(* kept by a program with mailbox messages.                                *)
THEOREM MessagesKeepThreadInv ==
  MsgSpec => []ThreadInv
  BY MessagesRefineThread, ThreadCorrect, PTL

(* The SPU runs only inside spe_context_run and on a live context.         *)
THEOREM MessagesKeepContext ==
  MsgSpec => []ContextOutlivesSpu
<1>1. ThreadInv => ContextOutlivesSpu
  BY DEF ThreadInv
<1> QED
  BY <1>1, MessagesKeepThreadInv, PTL

-----------------------------------------------------------------------------
(* Nothing is under way when main starts.                                  *)
LEMMA MsgInvInit ==
  MsgInit => MsgInv
<1> SUFFICES ASSUME MsgInit PROVE MsgInv
  OBVIOUS
<1>1. TypeOK
  BY ThreadInit DEF MsgInit, ThreadInv
<1>2. in_mbox = << >> /\ Len(in_mbox) = 0 /\ ~StopSent /\ UnreadRuns = 0
  BY DEF MsgInit, StopSent, UnreadRuns
<1>3. CountInv
  BY <1>2 DEF MsgInit, CountInv
<1>4. MsgTypeOK
  <2>1. /\ 0 \in 0 .. (MaxTurns + 1) /\ 0 \in 0 .. MaxTurns
        /\ RETRIES \in 0 .. RETRIES /\ 0 <= InMboxDepth /\ 0 <= OutIntrMboxDepth
    BY MaxTurnsAssumption, SMT DEF RETRIES, InMboxDepth, OutIntrMboxDepth
  <2>2. out_intr_mbox = << >> /\ Len(out_intr_mbox) = 0
    BY DEF MsgInit
  <2>3. in_mbox \in Seq(Answers) /\ out_intr_mbox \in Seq({Address})
    BY <1>2, <2>2, EmptySeq
  <2> QED
    BY <1>1, <1>2, <2>1, <2>2, <2>3 DEF MsgInit, MsgTypeOK, Answers
<1>5. QuietInv
  BY DEF MsgInit, QuietInv
<1>6. ReportInv
  <2>1. Len(out_intr_mbox) = 0
    BY DEF MsgInit
  <2>2. Receives = 0 /\ Reports = 0 /\ give_ups = 0
    BY SMT DEF MsgInit, Receives, Reports
  <2> QED
    BY <2>1, <2>2, SMT DEF ReportInv
<1> QED
  BY <1>3, <1>4, <1>5, <1>6 DEF MsgInit, MsgInv, ReceivesSentWord, TurnInv

(* main starts the thread once, and a context comes into being then only.  *)
LEMMA ContextStep ==
  ASSUME ThreadInv, [Next]_vars
  PROVE  /\ main_pc' = "new" => main_pc = "new"
         /\ ctx' = "none" => ctx = "none" \/ main_pc = "new"
         /\ ctx = "none" => ctx' = "none" \/ main_pc = "new"
<1>1. CASE MainNext
  BY <1>1 DEF MainNext, start_spu_thread, send_action, CondWait, CallStop,
              stop_spu_thread
<1>2. CASE ThreadNext
  <2>1. UNCHANGED ctx
    BY <1>2 DEF ThreadNext, Setup, ContextRun, RunReturns, HandleStop, Callback,
                EpollWait
  <2>2. CASE Callback
    BY <2>1, <2>2 DEF Callback
  <2>3. CASE ~Callback
    <3>1. UNCHANGED main_pc
      BY <1>2, <2>3 DEF ThreadNext, Setup, ContextRun, RunReturns, HandleStop,
                        EpollWait
    <3> QED
      BY <2>1, <3>1
  <2> QED
    BY <2>2, <2>3
<1>3. CASE SpuNext
  BY <1>3 DEF SpuNext, spu_stop, send_message, StopForMbox, SpuExit
<1>4. CASE UNCHANGED vars
  BY <1>4 DEF vars
<1> QED
  BY <1>1, <1>2, <1>3, <1>4 DEF Next

(* What is neither a message step nor a step of the program leaves the     *)
(* messages alone.                                                         *)
LEMMA MsgInvFrame ==
  ASSUME MsgInv, ThreadInv, TypeOK', [Next]_vars, UNCHANGED msgVars
  PROVE  MsgInv'
<1> USE DEF msgVars
<1>1. StopSent' = StopSent /\ UnreadRuns' = UnreadRuns
  BY DEF StopSent, UnreadRuns
<1>2. MsgTypeOK'
  BY DEF MsgInv, MsgTypeOK
<1>3. QuietInv'
  BY ContextStep DEF MsgInv, QuietInv
<1>4. CountInv'
  <2>1. CASE ctx = "none" /\ main_pc = "new"
    <3>1. runs = 0 /\ in_mbox = << >> /\ prog_pc = "boot"
      BY <2>1 DEF MsgInv, QuietInv
    <3>2. UnreadRuns = 0
      BY <3>1 DEF UnreadRuns, StopSent
    <3>3. runs' = UnreadRuns' + (IF prog_pc' = "boot" THEN 0 ELSE myint' - 1)
      BY <1>1, <3>1, <3>2, SMT
    <3> QED
      BY <3>3 DEF MsgInv, CountInv
  <2>2. CASE ~(ctx = "none" /\ main_pc = "new")
    <3>1. ctx' # "none" => ctx # "none"
      BY <2>2, ContextStep
    <3> QED
      BY <1>1, <3>1 DEF MsgInv, CountInv
  <2> QED
    BY <2>1, <2>2
<1>5. TurnInv' = TurnInv /\ ReportInv' = ReportInv
  BY DEF TurnInv, ReportInv, Receives, Reports
<1> QED
  BY <1>2, <1>3, <1>4, <1>5 DEF MsgInv, ReceivesSentWord

(* The counts are numbers.                                                 *)
LEMMA CountsAreNumbers ==
  ASSUME MsgTypeOK
  PROVE  /\ runs \in Int /\ myint \in Int /\ give_ups \in Int
         /\ Len(out_intr_mbox) \in Int
<1>1. runs \in Int /\ myint \in Int /\ give_ups \in Int
  BY MaxTurnsAssumption, SMT DEF MsgTypeOK
<1>2. Len(out_intr_mbox) \in Int
  BY DEF MsgTypeOK
<1> QED
  BY <1>1, <1>2

(* The steps of recieve_message_int and of the user.                       *)
LEMMA ReceiveStep ==
  ASSUME MsgInv, TypeOK', recieve_message_int \/ Interrupted \/ Ask
  PROVE  MsgInv'
<1> USE DEF MsgInv
<1>1. CASE \E e \in Ready \cup {"interrupted"} : EventWait(e) /\ (e = "interrupted" \/ e \in Ready)
  <2>1. PICK e : EventWait(e) /\ (e = "mbox" => out_intr_mbox # << >>)
    BY <1>1 DEF Ready
  <2>2. /\ UNCHANGED <<answer, in_mbox, out_intr_mbox, prog_pc, myint, got,
                       give_ups, runs, ctx, main_pc>>
        /\ ppu_pc = "receive" /\ retries > 0
        /\ \/ ppu_pc' = "read" /\ UNCHANGED retries /\ out_intr_mbox # << >>
           \/ ppu_pc' = ppu_pc /\ retries' = retries - 1
    BY <2>1 DEF EventWait, MboxEvent, RetriesAfter, vars
  <2>3. StopSent' = StopSent /\ UnreadRuns' = UnreadRuns
    BY <2>2 DEF StopSent, UnreadRuns
  <2>4. MsgTypeOK'
    BY <2>2, SMT DEF MsgTypeOK, RETRIES
  <2>5. CountInv'
    BY <2>2, <2>3 DEF CountInv
  <2>6. TurnInv => TurnInv'
    BY <2>2 DEF TurnInv
  <2>7. QuietInv'
    BY <2>2 DEF QuietInv
  <2>8. ReportInv'
    BY <2>2 DEF ReportInv, Receives, Reports
  <2> QED
    BY <2>2, <2>4, <2>5, <2>6, <2>7, <2>8 DEF ReceivesSentWord
<1>2. CASE GiveUp
  <2>1. /\ UNCHANGED <<retries, answer, in_mbox, out_intr_mbox, prog_pc, myint,
                       runs, ctx, main_pc>>
        /\ ppu_pc = "receive" /\ ppu_pc' = "ask"
        /\ got' = StopWord /\ give_ups' = give_ups + 1
    BY <1>2 DEF GiveUp, vars
  <2>2. StopSent' = StopSent /\ UnreadRuns' = UnreadRuns
    BY <2>1 DEF StopSent, UnreadRuns
  <2>3. give_ups' \in Nat /\ give_ups' > 0
    BY <2>1, SMT DEF MsgTypeOK
  <2>4. MsgTypeOK'
    BY <2>1, <2>3 DEF MsgTypeOK
  <2>5. CountInv'
    BY <2>1, <2>2 DEF CountInv
  <2>6. QuietInv'
    BY <2>1 DEF QuietInv
  <2>7. ReportInv'
    <3>1. Reports' = Reports /\ Len(out_intr_mbox') = Len(out_intr_mbox)
      BY <2>1 DEF Reports
    <3>2. Receives = runs /\ Receives' = runs + 1
      BY <2>1, CountsAreNumbers, SMT DEF Receives
    <3>3. Receives' - give_ups' = Receives - give_ups
      BY <2>1, <3>2, CountsAreNumbers, SMT
    <3> QED
      BY <3>1, <3>3 DEF ReportInv
  <2> QED
    BY <2>1, <2>3, <2>4, <2>5, <2>6, <2>7, SMT DEF ReceivesSentWord
<1>3. CASE ReadIntrMbox
  <2>1. /\ UNCHANGED <<retries, answer, in_mbox, prog_pc, myint, give_ups, runs,
                       ctx, main_pc>>
        /\ ppu_pc = "read" /\ ppu_pc' = "ask" /\ out_intr_mbox' = << >>
        /\ got' = Head(out_intr_mbox) /\ out_intr_mbox # << >>
    BY <1>3 DEF ReadIntrMbox, vars
  <2>2. got' = Address
    <3>1. out_intr_mbox \in Seq({Address})
      BY DEF MsgTypeOK
    <3>2. Head(out_intr_mbox) \in {Address}
      BY <2>1, <3>1, HeadTailProperties
    <3> QED
      BY <2>1, <3>2
  <2>3. StopSent' = StopSent /\ UnreadRuns' = UnreadRuns
    BY <2>1 DEF StopSent, UnreadRuns
  <2>4. MsgTypeOK'
    <3>1. Len(out_intr_mbox') <= OutIntrMboxDepth /\ out_intr_mbox' \in Seq({Address})
      BY <2>1, SMT DEF OutIntrMboxDepth
    <3> QED
      BY <2>1, <2>2, <3>1 DEF MsgTypeOK
  <2>5. CountInv'
    BY <2>1, <2>3 DEF CountInv
  <2>6. TurnInv => TurnInv'
    BY <2>1 DEF TurnInv
  <2>7. QuietInv'
    BY <2>1 DEF QuietInv
  <2>8. ReportInv'
    <3>1. Len(out_intr_mbox) = 1 /\ Len(out_intr_mbox') = 0
      <4>1. PICK n \in Nat : n = Len(out_intr_mbox) /\ n <= 1
        BY DEF MsgTypeOK, OutIntrMboxDepth
      <4>2. n # 0
        BY <2>1, <4>1, EmptySeq DEF MsgTypeOK
      <4> QED
        BY <2>1, <4>1, <4>2, SMT
    <3>2. Receives = runs /\ Receives' = runs + 1
      BY <2>1, CountsAreNumbers, SMT DEF Receives
    <3>3. Reports' = Reports
      BY <2>1 DEF Reports
    <3>4. (Receives' - give_ups') + 0 = (Receives - give_ups) + 1
      BY <2>1, <3>2, CountsAreNumbers, SMT
    <3> QED
      BY <3>1, <3>3, <3>4 DEF ReportInv
  <2> QED
    BY <2>1, <2>2, <2>4, <2>5, <2>6, <2>7, <2>8 DEF ReceivesSentWord
<1>4. CASE Ask
  <2>1. /\ UNCHANGED <<retries, in_mbox, out_intr_mbox, prog_pc, myint, got,
                       give_ups, runs, ctx, main_pc>>
        /\ ppu_pc = "ask" /\ ppu_pc' = "send" /\ answer' \in Answers
        /\ answer' = "RUN" => runs < MaxTurns
    BY <1>4 DEF Ask, vars
  <2>2. StopSent' = StopSent /\ UnreadRuns' = UnreadRuns
    BY <2>1 DEF StopSent, UnreadRuns
  <2>3. MsgTypeOK'
    BY <2>1 DEF MsgTypeOK
  <2>4. CountInv'
    BY <2>1, <2>2 DEF CountInv
  <2>5. TurnInv => TurnInv'
    BY <2>1 DEF TurnInv
  <2>6. QuietInv'
    BY <2>1 DEF QuietInv
  <2>7. ReportInv'
    BY <2>1 DEF ReportInv, Receives, Reports
  <2> QED
    BY <2>1, <2>3, <2>4, <2>5, <2>6, <2>7 DEF ReceivesSentWord
<1>5. CASE Interrupted
  BY <1>1, <1>5 DEF Interrupted
<1>6. CASE recieve_message_int
  BY <1>1, <1>2, <1>3, <1>6 DEF recieve_message_int
<1> QED
  BY <1>4, <1>5, <1>6

(* An answer ends one receive of main and, if it is a RUN, begins another. *)
LEMMA SendKeepsReports ==
  ASSUME MsgInv, ppu_pc = "send",
         \/ ppu_pc' = "receive" /\ runs' = runs + 1
         \/ ppu_pc' = "done" /\ runs' = runs,
         UNCHANGED <<out_intr_mbox, prog_pc, myint, give_ups>>
  PROVE  ReportInv'
<1>1. runs \in Int
  BY CountsAreNumbers DEF MsgInv
<1>2. Receives' = Receives
  BY <1>1, SMT DEF Receives
<1>3. Reports' = Reports /\ Len(out_intr_mbox') = Len(out_intr_mbox)
  BY DEF Reports
<1> QED
  BY <1>2, <1>3 DEF MsgInv, ReportInv

(* main sends its answer to an SPU: a RUN that is counted, or the STOP     *)
(* after which it sends nothing.                                           *)
LEMMA SendStep ==
  ASSUME MsgInv, TypeOK', ppu_send_message, ctx = "live"
  PROVE  MsgInv'
<1> USE DEF MsgInv
<1>1. /\ ppu_pc = "send" /\ in_mbox_status # 0
      /\ in_mbox' = Append(in_mbox, answer)
      /\ \/ answer = "RUN" /\ ppu_pc' = "receive" /\ retries' = RETRIES
            /\ runs' = runs + 1
         \/ answer = "STOP" /\ ppu_pc' = "done" /\ UNCHANGED <<retries, runs>>
      /\ UNCHANGED <<answer, out_intr_mbox, prog_pc, myint, got, give_ups>>
  BY DEF ppu_send_message
<1>a. main_pc' # "new" /\ main_pc # "new" /\ UNCHANGED ctx
  BY DEF ppu_send_message, InExample1, CallStop, vars
<1>2. in_mbox \in Seq(Answers) /\ answer \in Answers /\ Len(in_mbox) \in Nat
  BY DEF MsgTypeOK
<1>3. /\ in_mbox' \in Seq(Answers) /\ Len(in_mbox') = Len(in_mbox) + 1
      /\ \A i \in 1 .. Len(in_mbox) : in_mbox'[i] = in_mbox[i]
      /\ in_mbox'[Len(in_mbox')] = answer
  BY <1>1, <1>2, AppendProperties
<1>4. in_mbox' # << >>
  BY <1>2, <1>3, SMT
<1>5. ~StopSent /\ UnreadRuns = Len(in_mbox)
      /\ \A i \in 1 .. Len(in_mbox) : in_mbox[i] # "STOP"
  <2>1. \A i \in 1 .. Len(in_mbox) : in_mbox[i] # "STOP"
    BY <1>1 DEF CountInv
  <2>2. in_mbox # << >> => Len(in_mbox) \in 1 .. Len(in_mbox)
    BY <1>2, EmptySeq, SMT
  <2> QED
    BY <2>1, <2>2 DEF StopSent, UnreadRuns
<1>6. CountInv'
  <2>1. UnreadRuns' = IF answer = "STOP" THEN Len(in_mbox) ELSE Len(in_mbox) + 1
    BY <1>2, <1>3, <1>4, SMT DEF StopSent, UnreadRuns
  <2>2. runs' = UnreadRuns' + (IF prog_pc = "boot" THEN 0 ELSE myint - 1)
    <3>1. runs = Len(in_mbox) + (IF prog_pc = "boot" THEN 0 ELSE myint - 1)
      BY <1>5 DEF CountInv
    <3>2. myint \in Int
      BY CountsAreNumbers
    <3>3. PICK n \in Nat : n = Len(in_mbox)
      BY <1>2
    <3>4. PICK done \in Int : done = IF prog_pc = "boot" THEN 0 ELSE myint - 1
      BY <3>2, SMT
    <3>5. runs = n + done
      BY <3>1, <3>3, <3>4
    <3>6. UnreadRuns' + done = IF answer = "STOP" THEN runs ELSE runs + 1
      BY <2>1, <3>3, <3>5, SMT
    <3>7. runs' = IF answer = "STOP" THEN runs ELSE runs + 1
      BY <1>1
    <3> QED
      BY <3>4, <3>6, <3>7
  <2>3. \A i \in 1 .. Len(in_mbox') :
          in_mbox'[i] = "STOP" => i = Len(in_mbox') /\ ppu_pc' = "done"
    <3>1. \A i \in 1 .. Len(in_mbox') : i \in 1 .. Len(in_mbox) \/ i = Len(in_mbox')
      BY <1>2, <1>3, SMT
    <3> QED
      BY <1>1, <1>3, <1>5, <3>1
  <2>4. (prog_pc = "boot" <=> myint = 0)
    BY DEF CountInv
  <2>5. ppu_pc' # "send"
    BY <1>1
  <2> QED
    BY <1>1, <2>2, <2>3, <2>4, <2>5 DEF CountInv
<1>7. MsgTypeOK'
  <2>1. Len(in_mbox') <= InMboxDepth
    <3>1. Len(in_mbox) <= 4 /\ 4 - Len(in_mbox) # 0
      BY <1>1, SMT DEF MsgTypeOK, in_mbox_status, InMboxDepth
    <3>2. PICK n \in Nat : n = Len(in_mbox)
      BY <1>2
    <3>3. Len(in_mbox') = n + 1 /\ n + 1 <= 4
      BY <1>3, <3>1, <3>2, SMT
    <3> QED
      BY <3>3 DEF InMboxDepth
  <2>2. runs' \in 0 .. MaxTurns
    <3>1. answer = "RUN" => runs < MaxTurns
      BY <1>1 DEF CountInv
    <3> QED
      BY <1>1, <3>1, MaxTurnsAssumption, SMT DEF MsgTypeOK
  <2>3. retries' \in 0 .. RETRIES
    BY <1>1, SMT DEF MsgTypeOK, RETRIES
  <2> QED
    BY <1>1, <1>3, <2>1, <2>2, <2>3 DEF MsgTypeOK
<1>8. TurnInv => TurnInv'
  <2> SUFFICES ASSUME TurnInv PROVE TurnInv'
    OBVIOUS
  <2>1. in_mbox = << >> /\ out_intr_mbox = << >> /\ prog_pc = "poll"
    BY <1>1 DEF TurnInv
  <2>2. Len(in_mbox') = 1 /\ in_mbox'[1] = answer
    BY <1>3, <2>1, SMT
  <2>3. answer = "STOP" \/ ppu_pc' = "receive"
    BY <1>1
  <2>4. ppu_pc' \in {"receive", "done"} /\ (ppu_pc' = "done" => answer = "STOP")
    BY <1>1
  <2> QED
    BY <1>1, <2>1, <2>2, <2>4, SMT DEF TurnInv
<1>9. ReceivesSentWord' /\ ppu_pc' # "read"
  BY <1>1 DEF ReceivesSentWord
<1>10. QuietInv'
  BY <1>a DEF QuietInv
<1>11. ReportInv'
  BY <1>1, SendKeepsReports
<1> QED
  BY <1>1, <1>7, <1>6, <1>8, <1>9, <1>10, <1>11

(* Without an SPU the answer gets lost.                                    *)
LEMMA SendToNobody ==
  ASSUME MsgInv, TypeOK', ppu_send_message, ctx = "none"
  PROVE  MsgInv'
<1> USE DEF MsgInv
<1>1. /\ ppu_pc = "send"
      /\ \/ answer = "RUN" /\ ppu_pc' = "receive" /\ retries' = RETRIES
            /\ runs' = runs + 1
         \/ answer = "STOP" /\ ppu_pc' = "done" /\ UNCHANGED <<retries, runs>>
      /\ UNCHANGED <<in_mbox, answer, out_intr_mbox, prog_pc, myint, got,
                     give_ups>>
  BY DEF ppu_send_message
<1>2. main_pc' # "new" /\ UNCHANGED ctx
  BY DEF ppu_send_message, InExample1, CallStop, vars
<1>3. in_mbox = << >> /\ prog_pc = "boot" /\ Len(in_mbox) = 0
  BY DEF QuietInv
<1>4. QuietInv'
  BY <1>1, <1>2, <1>3 DEF QuietInv
<1>5. CountInv'
  <2>1. \A i \in 1 .. Len(in_mbox') : FALSE
    BY <1>1, <1>3, SMT
  <2>2. ctx' = "none" /\ ppu_pc' # "send"
    BY <1>1, <1>2
  <2>3. prog_pc' = "boot" <=> myint' = 0
    BY <1>1 DEF CountInv
  <2> QED
    BY <2>1, <2>2, <2>3 DEF CountInv
<1>6. MsgTypeOK'
  <2>1. runs' \in 0 .. MaxTurns
    <3>1. answer = "RUN" => runs < MaxTurns
      BY <1>1 DEF CountInv
    <3> QED
      BY <1>1, <3>1, MaxTurnsAssumption, SMT DEF MsgTypeOK
  <2>2. retries' \in 0 .. RETRIES
    BY <1>1, SMT DEF MsgTypeOK, RETRIES
  <2> QED
    BY <1>1, <2>1, <2>2 DEF MsgTypeOK
<1>7. ReportInv'
  BY <1>1, SendKeepsReports
<1>8. ~TurnInv
  BY <1>1, <1>3 DEF TurnInv
<1>9. ReceivesSentWord' /\ ppu_pc' # "read"
  BY <1>1 DEF ReceivesSentWord
<1> QED
  BY <1>1, <1>4, <1>5, <1>6, <1>7, <1>8, <1>9

(* A program runs on an SPU that main has started, and its steps leave the *)
(* threads alone.                                                          *)
LEMMA ProgramHasContext ==
  ASSUME ThreadInv, FetchArgument \/ send_message_int \/ wait_for_message_poll
  PROVE  ctx = "live" /\ main_pc # "new" /\ UNCHANGED <<ctx, main_pc>>
<1>1. spe = "running" /\ UNCHANGED vars
  BY DEF FetchArgument, send_message_int, wait_for_message_poll, InProgram
<1>2. ctx = "live" /\ thr_pc = "in_run"
  BY <1>1 DEF ThreadInv, ContextOutlivesSpu
<1>3. main_pc # "new"
  BY <1>2 DEF ThreadInv, LifeCycle
<1> QED
  BY <1>1, <1>2, <1>3 DEF vars

(* The program fetches its argument and reports.                           *)
LEMMA ReportStep ==
  ASSUME MsgInv, ThreadInv, TypeOK', FetchArgument \/ send_message_int
  PROVE  MsgInv'
<1> USE DEF MsgInv
<1>3. ctx' = "live" /\ main_pc' # "new" /\ ctx = "live"
  BY ProgramHasContext
<1>4. QuietInv'
  BY <1>3 DEF QuietInv
<1>1. CASE FetchArgument
  <2>1. /\ prog_pc = "boot" /\ myint' = 1 /\ prog_pc' = "report"
        /\ UNCHANGED <<ppu_pc, retries, answer, in_mbox, out_intr_mbox, got,
                       give_ups, runs>>
    BY <1>1 DEF FetchArgument
  <2>2. StopSent' = StopSent /\ UnreadRuns' = UnreadRuns
    BY <2>1 DEF StopSent, UnreadRuns
  <2>3. MsgTypeOK'
    <3>1. 1 \in 0 .. (MaxTurns + 1)
      BY MaxTurnsAssumption, SMT
    <3> QED
      BY <2>1, <3>1 DEF MsgTypeOK
  <2>4. CountInv'
    BY <1>3, <2>1, <2>2, SMT DEF CountInv
  <2>5. TurnInv => TurnInv'
    BY <2>1 DEF TurnInv
  <2>6. ReportInv'
    <3>1. Reports = 0 /\ Reports' = 0
      BY <2>1, SMT DEF CountInv, Reports
    <3>2. Receives' = Receives
      BY <2>1 DEF Receives
    <3> QED
      BY <2>1, <3>1, <3>2 DEF ReportInv
  <2> QED
    BY <1>4, <2>1, <2>3, <2>4, <2>5, <2>6 DEF ReceivesSentWord
<1>2. CASE send_message_int
  <2>1. /\ prog_pc = "report" /\ prog_pc' = "poll"
        /\ Len(out_intr_mbox) < OutIntrMboxDepth
        /\ out_intr_mbox' = Append(out_intr_mbox, Address)
        /\ UNCHANGED <<ppu_pc, retries, answer, in_mbox, myint, got, give_ups,
                       runs>>
    BY <1>2 DEF send_message_int
  <2>2. StopSent' = StopSent /\ UnreadRuns' = UnreadRuns
    BY <2>1 DEF StopSent, UnreadRuns
  <2>3. PICK n \in Nat : n = Len(out_intr_mbox)
    BY DEF MsgTypeOK
  <2>4. out_intr_mbox' \in Seq({Address}) /\ Len(out_intr_mbox') = n + 1
    BY <2>1, <2>3, AppendProperties DEF MsgTypeOK
  <2>5. n + 1 <= OutIntrMboxDepth /\ n + 1 # 0
    BY <2>1, <2>3, SMT DEF OutIntrMboxDepth
  <2>6. out_intr_mbox' # << >>
    BY <2>4, <2>5
  <2>7. MsgTypeOK'
    BY <2>1, <2>4, <2>5 DEF MsgTypeOK
  <2>8. CountInv'
    BY <1>3, <2>1, <2>2 DEF CountInv
  <2>9. TurnInv => TurnInv'
    BY <2>1, <2>6 DEF TurnInv
  <2>10. ReportInv'
    <3>1. PICK m \in Int : m = myint
      BY CountsAreNumbers
    <3>2. PICK c \in Int : c = Receives - give_ups
      BY CountsAreNumbers, SMT DEF Receives
    <3>3. Reports = m - 1 /\ Reports' = m
      BY <2>1, <3>1 DEF Reports
    <3>4. Receives' - give_ups' = c
      BY <2>1, <3>2 DEF Receives
    <3>5. m - 1 = c + n
      BY <2>3, <3>2, <3>3 DEF ReportInv
    <3>6. m = c + (n + 1)
      BY <3>5, SMT
    <3> QED
      BY <2>4, <3>3, <3>4, <3>6 DEF ReportInv
  <2> QED
    BY <1>4, <2>1, <2>6, <2>7, <2>8, <2>9, <2>10 DEF ReceivesSentWord
<1> QED
  BY <1>1, <1>2

(* The program takes a word: the STOP, which is the last one, or a RUN.    *)
LEMMA PollStep ==
  ASSUME MsgInv, ThreadInv, TypeOK', wait_for_message_poll
  PROVE  MsgInv'
<1> USE DEF MsgInv
<1>a. ctx' = "live" /\ main_pc' # "new" /\ ctx = "live"
  BY ProgramHasContext
<1>1. /\ prog_pc = "poll" /\ in_mbox # << >> /\ in_mbox' = Tail(in_mbox)
      /\ \/ Head(in_mbox) = "STOP" /\ prog_pc' = "ended" /\ myint' = myint
         \/ Head(in_mbox) # "STOP" /\ prog_pc' = "report" /\ myint' = myint + 1
      /\ UNCHANGED <<ppu_pc, retries, answer, out_intr_mbox, got, give_ups, runs>>
  BY DEF wait_for_message_poll, EndsOn
<1>2. in_mbox \in Seq(Answers)
  BY DEF MsgTypeOK
<1>3. PICK n \in Nat : n = Len(in_mbox) /\ n >= 1
  <2>1. Len(in_mbox) \in Nat /\ Len(in_mbox) # 0
    BY <1>1, <1>2, EmptySeq
  <2> QED
    BY <2>1, SMT
<1>4. /\ in_mbox' \in Seq(Answers) /\ Len(in_mbox') = n - 1
      /\ \A i \in 1 .. (n - 1) : in_mbox'[i] = in_mbox[i + 1]
      /\ Head(in_mbox) = in_mbox[1]
  <2>1. Head(in_mbox) = in_mbox[1]
    BY <1>1, <1>2
  <2> QED
    BY <1>1, <1>2, <1>3, <2>1, HeadTailProperties
<1>5. (in_mbox' = << >>) <=> n = 1
  BY <1>3, <1>4, EmptySeq, SMT
<1>6. \A i \in 1 .. n : in_mbox[i] = "STOP" => i = n /\ ppu_pc = "done"
  BY <1>3 DEF CountInv
<1>7. Head(in_mbox) = "STOP" => n = 1 /\ ppu_pc = "done"
  <2>1. 1 \in 1 .. n
    BY <1>3, SMT
  <2> QED
    BY <1>4, <1>6, <2>1
<1>8. \A i \in 1 .. Len(in_mbox') :
        in_mbox'[i] = "STOP" => i = Len(in_mbox') /\ ppu_pc' = "done"
  <2> SUFFICES ASSUME NEW i \in 1 .. (n - 1), in_mbox'[i] = "STOP"
               PROVE  i = n - 1 /\ ppu_pc' = "done"
    BY <1>4
  <2>1. PICK j \in 1 .. n : j = i + 1
    BY <1>3, SMT
  <2>2. in_mbox[j] = "STOP"
    BY <1>4, <2>1
  <2>3. j = n /\ ppu_pc = "done"
    BY <1>6, <2>2
  <2> QED
    BY <1>1, <1>3, <2>1, <2>3, SMT
<1>9. UnreadRuns' = IF Head(in_mbox) = "STOP" THEN UnreadRuns ELSE UnreadRuns - 1
  <2>1. StopSent <=> in_mbox[n] = "STOP"
    BY <1>1, <1>3 DEF StopSent
  <2>2. StopSent' <=> n # 1 /\ in_mbox[n] = "STOP"
    <3>1. CASE n = 1
      BY <1>5, <3>1 DEF StopSent
    <3>2. CASE n # 1
      <4>1. PICK j \in 1 .. (n - 1) : j = n - 1 /\ j + 1 = n
        BY <1>3, <3>2, SMT
      <4>2. in_mbox'[j] = in_mbox[n] /\ j = Len(in_mbox')
        BY <1>4, <4>1
      <4> QED
        BY <1>5, <3>2, <4>2 DEF StopSent
    <3> QED
      BY <3>1, <3>2
  <2>3. /\ UnreadRuns = IF in_mbox[n] = "STOP" THEN n - 1 ELSE n
        /\ UnreadRuns' = IF n # 1 /\ in_mbox[n] = "STOP" THEN (n - 1) - 1 ELSE n - 1
    BY <1>3, <1>4, <2>1, <2>2 DEF UnreadRuns
  <2>4. Head(in_mbox) = in_mbox[1]
    BY <1>4
  <2>5. CASE n = 1
    BY <2>3, <2>4, <2>5, SMT
  <2>6. CASE n # 1
    <3>1. Head(in_mbox) # "STOP"
      BY <1>7, <2>6
    <3> QED
      BY <2>3, <2>6, <3>1, SMT
  <2> QED
    BY <2>5, <2>6
<1>10. UnreadRuns \in Nat /\ (Head(in_mbox) # "STOP" => UnreadRuns >= 1)
  <2>1. UnreadRuns = IF in_mbox[n] = "STOP" THEN n - 1 ELSE n
    BY <1>1, <1>3 DEF StopSent, UnreadRuns
  <2>2. in_mbox[n] = "STOP" /\ n = 1 => Head(in_mbox) = "STOP"
    BY <1>4
  <2> QED
    BY <1>3, <2>1, <2>2, SMT
<1>11. PICK u \in Nat : u = UnreadRuns
  BY <1>10
<1>12. /\ runs = u + (myint - 1) /\ myint # 0
       /\ myint \in 0 .. (MaxTurns + 1) /\ runs \in 0 .. MaxTurns
  BY <1>1, <1>a, <1>11 DEF CountInv, MsgTypeOK
<1>13. myint' \in 0 .. (MaxTurns + 1) /\ myint' # 0
       /\ runs = UnreadRuns' + (myint' - 1)
  <2>1. CASE Head(in_mbox) = "STOP"
    BY <1>1, <1>9, <1>11, <1>12, <2>1
  <2>2. CASE Head(in_mbox) # "STOP"
    <3>1. u >= 1 /\ UnreadRuns' = u - 1 /\ myint' = myint + 1
      BY <1>1, <1>9, <1>10, <1>11, <2>2
    <3> QED
      BY <1>12, <3>1, MaxTurnsAssumption, SMT
  <2> QED
    BY <2>1, <2>2
<1>14. prog_pc' \in {"ended", "report"}
  BY <1>1
<1>15. CountInv'
  BY <1>1, <1>8, <1>13, <1>14 DEF CountInv
<1>16. MsgTypeOK'
  <2>1. Len(in_mbox') <= InMboxDepth
    BY <1>3, <1>4, SMT DEF MsgTypeOK, InMboxDepth
  <2> QED
    BY <1>1, <1>4, <1>13, <1>14, <2>1 DEF MsgTypeOK
<1>17. TurnInv => TurnInv'
  <2> SUFFICES ASSUME TurnInv PROVE TurnInv'
    OBVIOUS
  <2>1. ppu_pc \in {"receive", "read", "done"} /\ n = 1 /\ out_intr_mbox = << >>
    <3>1. ppu_pc \in {"receive", "read", "ask", "send", "done"}
      BY DEF MsgTypeOK
    <3> QED
      BY <1>1, <1>3, <3>1, SMT DEF TurnInv
  <2>2. in_mbox' = << >> /\ Len(in_mbox') = 0
    BY <1>5, <2>1
  <2>3. ppu_pc = "done" => Head(in_mbox) = "STOP"
    BY <1>1, <1>4 DEF TurnInv
  <2>4. ppu_pc # "done" => Head(in_mbox) # "STOP"
    BY <1>7
  <2>5. IF ppu_pc' = "done" THEN prog_pc' = "ended" ELSE prog_pc' = "report"
    BY <1>1, <2>3, <2>4
  <2> QED
    BY <1>1, <2>1, <2>2, <2>5, SMT DEF TurnInv
<1>18. QuietInv'
  BY <1>a DEF QuietInv
<1>19. ReportInv'
  <2>1. Receives' = Receives
    BY <1>1 DEF Receives
  <2>2. Reports' = Reports
    BY <1>1, CountsAreNumbers, SMT DEF Reports
  <2> QED
    BY <1>1, <2>1, <2>2 DEF ReportInv
<1> QED
  BY <1>1, <1>15, <1>16, <1>17, <1>18, <1>19 DEF ReceivesSentWord

(***************************************************************************)
(* The inductive invariant of the mailbox messages holds whatever the user *)
(* answers, wherever the program stops and however often a wait fails.     *)
(***************************************************************************)
THEOREM MsgInvariant ==
  MsgSpec => []MsgInv
<1>1. MsgInv /\ ThreadInv /\ ThreadInv' /\ [MsgNext]_<<vars, msgVars>> => MsgInv'
  <2> SUFFICES ASSUME MsgInv, ThreadInv, ThreadInv', [MsgNext]_<<vars, msgVars>>
               PROVE  MsgInv'
    OBVIOUS
  <2>1. TypeOK' /\ [Next]_vars
    BY MessageStepIsThreadStep DEF ThreadInv
  <2>2. CASE UNCHANGED msgVars
    BY <2>1, <2>2, MsgInvFrame
  <2>3. CASE recieve_message_int \/ Interrupted \/ Ask
    BY <2>1, <2>3, ReceiveStep
  <2>4. CASE ppu_send_message
    <3>1. ctx \in {"live", "none"}
      <4>1. main_pc = "started"
        BY <2>4 DEF ppu_send_message, InExample1
      <4> QED
        BY <4>1 DEF ThreadInv, TypeOK, LifeCycle
    <3> QED
      BY <2>1, <2>4, <3>1, SendStep, SendToNobody
  <2>5. CASE Program \/ EarlyExit
    BY <2>1, <2>2, <2>5, ReportStep, PollStep
       DEF Program, ProgramExit, EarlyExit
  <2> QED
    BY <2>2, <2>3, <2>4, <2>5 DEF MsgNext
<1> QED
  BY <1>1, MsgInvInit, MessagesKeepThreadInv, PTL DEF MsgSpec

(***************************************************************************)
(* The mailboxes never hold more words than they have room for, the        *)
(* retries never go below zero, and myint counts no RUN that was not sent. *)
(***************************************************************************)
THEOREM MessageTypes ==
  MsgSpec => []MsgTypeOK
<1>1. MsgInv => MsgTypeOK
  BY DEF MsgInv
<1> QED
  BY <1>1, MsgInvariant, PTL

(***************************************************************************)
(* Unless recieve_message_int has given up, main and the program take      *)
(* turns, and every RUN has been carried out when main asks its user.      *)
(***************************************************************************)
THEOREM MessagesInLockStep ==
  MsgSpec => []LockStep
<1>1. MsgInv => LockStep
  <2> SUFFICES ASSUME MsgInv, give_ups = 0 PROVE LockStep
    BY DEF LockStep
  <2>1. TurnInv /\ MsgTypeOK /\ CountInv /\ QuietInv
    BY DEF MsgInv
  <2>2. /\ in_mbox = << >> => Len(in_mbox) = 0
        /\ out_intr_mbox = << >> => Len(out_intr_mbox) = 0
    OBVIOUS
  <2>3. Len(in_mbox) + Len(out_intr_mbox) <= 1
    <3>1. PICK n \in Nat : n = Len(in_mbox)
      BY <2>1 DEF MsgTypeOK
    <3>2. PICK m \in Nat : m = Len(out_intr_mbox) /\ m <= 1
      BY <2>1 DEF MsgTypeOK, OutIntrMboxDepth
    <3>3. \/ n = 0
          \/ n = 1 /\ m = 0
          \/ n <= 1 /\ m = 0
      BY <2>1, <2>2, <3>1, <3>2 DEF TurnInv, MsgTypeOK
    <3>4. n + m <= 1
      BY <3>2, <3>3, SMT
    <3> QED
      BY <3>1, <3>2, <3>4
  <2>4. ppu_pc \in {"ask", "send"} =>
          /\ prog_pc = "poll" /\ in_mbox = << >> /\ out_intr_mbox = << >>
          /\ myint = runs + 1
    <3> SUFFICES ASSUME ppu_pc \in {"ask", "send"}
                 PROVE  /\ prog_pc = "poll" /\ in_mbox = << >>
                        /\ out_intr_mbox = << >> /\ myint = runs + 1
      OBVIOUS
    <3>1. prog_pc = "poll" /\ in_mbox = << >> /\ out_intr_mbox = << >>
      BY <2>1 DEF TurnInv
    <3>2. UnreadRuns = 0
      BY <3>1, <2>2 DEF UnreadRuns, StopSent
    <3>3. myint \in Int
      BY <2>1, MaxTurnsAssumption, SMT DEF MsgTypeOK
    <3>4. runs = 0 + (myint - 1)
      BY <2>1, <3>1, <3>2 DEF CountInv, QuietInv
    <3> QED
      BY <3>1, <3>3, <3>4, SMT
  <2> QED
    BY <2>3, <2>4 DEF LockStep
<1> QED
  BY <1>1, MsgInvariant, PTL

(***************************************************************************)
(* recieve_message_int never returns its uninitialised variable.           *)
(***************************************************************************)
THEOREM ReceivedWordWasSent ==
  MsgSpec => []ReceivesSentWord
<1>1. MsgInv => ReceivesSentWord
  BY DEF MsgInv
<1> QED
  BY <1>1, MsgInvariant, PTL

(***************************************************************************)
(* Once main has sent STOP the program finds room for every report it      *)
(* still has to make, for every number of turns, unless                    *)
(* recieve_message_int has given up twice.                                 *)
(***************************************************************************)
THEOREM ReportsAlwaysFit ==
  MsgSpec => []ReportsFit
<1>1. MsgInv => ReportsFit
  <2> SUFFICES ASSUME MsgInv, ppu_pc = "done", prog_pc = "report", give_ups < 2
               PROVE  out_intr_mbox = << >>
    BY DEF ReportsFit
  <2>1. MsgTypeOK /\ CountInv /\ QuietInv /\ ReportInv
    BY DEF MsgInv
  <2>2. PICK n \in Nat : n = Len(out_intr_mbox)
    BY <2>1 DEF MsgTypeOK
  <2>3. PICK m \in Int : m = myint
    BY <2>1, CountsAreNumbers
  <2>4. PICK k \in Int : k = runs
    BY <2>1, CountsAreNumbers
  <2>5. PICK g \in Nat : g = give_ups
    BY <2>1 DEF MsgTypeOK
  <2>6. PICK u \in Nat : u = UnreadRuns
    <3>1. PICK q \in Nat : q = Len(in_mbox)
      BY <2>1 DEF MsgTypeOK
    <3>2. in_mbox # << >> => q # 0
      BY <2>1, <3>1, EmptySeq DEF MsgTypeOK
    <3>3. UnreadRuns = IF StopSent THEN q - 1 ELSE q
      BY <3>1 DEF UnreadRuns
    <3>4. StopSent => q # 0
      BY <3>2 DEF StopSent
    <3> QED
      BY <3>1, <3>3, <3>4, SMT
  <2>7. k = u + (m - 1)
    BY <2>1, <2>3, <2>4, <2>6 DEF CountInv, QuietInv
  <2>8. m - 1 = ((k + 1) - g) + n
    BY <2>1, <2>2, <2>3, <2>4, <2>5 DEF ReportInv, Receives, Reports
  <2>9. g < 2
    BY <2>5
  <2>10. n = 0
    BY <2>7, <2>8, <2>9, SMT
  <2> QED
    BY <2>1, <2>2, <2>10, EmptySeq DEF MsgTypeOK
<1> QED
  BY <1>1, MsgInvariant, PTL

=============================================================================
