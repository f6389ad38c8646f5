----------------------------- MODULE SpeMessage -----------------------------
(***************************************************************************)
(* The mailbox messages of src/spemessage.c and spu_message.h on top of    *)
(* SpeThread, used as example1.c and spu_example1.c do: the program of a   *)
(* THREAD_RUN thread reports and waits for an answer in turn, and main     *)
(* receives, asks its user and answers.  A THREAD_LOOP thread behaves as   *)
(* SpeThread says.                                                         *)
(***************************************************************************)
EXTENDS Integers, SpeThread

CONSTANTS
  Faults,    (* what may go wrong meanwhile: "interrupted", a wait is cut  *)
             (* short by a signal; "early_exit", the program ends by itself*)
  MaxTurns   (* bound: the answers RUN that the user gives                 *)

ASSUME FaultsAssumption == Faults \subseteq {"interrupted", "early_exit"}
ASSUME MaxTurnsAssumption == MaxTurns \in Nat

VARIABLES
  ppu_pc,        (* main of example1 while main_pc is "started": "receive",*)
                 (* "read", "ask", "send", then "done"                     *)
  retries,       (* of recieve_message_int                                 *)
  answer,        (* the message main is about to send                      *)
  in_mbox,       (* the inbound mailbox of the SPU                         *)
  out_intr_mbox, (* its outbound interrupt mailbox                         *)
  prog_pc,       (* spu_example1: "boot", "report", "poll", "ended"        *)
  myint,         (* its copy of the example data                           *)
  got,           (* history: what recieve_message_int returned last        *)
  give_ups,      (* history: how often it has returned STOP for want of a  *)
                 (* message                                                *)
  runs           (* history: how often main has sent RUN                   *)

msgVars == <<ppu_pc, retries, answer, in_mbox, out_intr_mbox, prog_pc, myint,
             got, give_ups, runs>>

RETRIES == 10

(* The mailboxes hold four words and one word.                             *)
InMboxDepth == 4
OutIntrMboxDepth == 1

Answers == {"RUN", "STOP"}

(* The word STOP as recieve_message_int returns it.                        *)
StopWord == [kind |-> "STOP", value |-> 0]

MsgTypeOK ==
  /\ TypeOK
  /\ ppu_pc \in {"receive", "read", "ask", "send", "done"}
  /\ retries \in 0 .. RETRIES
  /\ answer \in Answers
  /\ in_mbox \in Seq(Answers) /\ Len(in_mbox) <= InMboxDepth
  /\ out_intr_mbox \in Seq({Address}) /\ Len(out_intr_mbox) <= OutIntrMboxDepth
  /\ prog_pc \in {"boot", "report", "poll", "ended"}
  /\ myint \in 0 .. (MaxTurns + 1)
  /\ got \in {Address, Undefined, StopWord}
  /\ give_ups \in Nat
  /\ runs \in 0 .. MaxTurns

MsgInit ==
  /\ Init
  /\ ppu_pc = "receive" /\ retries = RETRIES /\ answer = "RUN"
  /\ in_mbox = << >> /\ out_intr_mbox = << >>
  /\ prog_pc = "boot" /\ myint = 0
  /\ got = Undefined /\ give_ups = 0 /\ runs = 0

-----------------------------------------------------------------------------
(* recieve_message_int.                                                    *)

InExample1 == main_pc = "started" /\ type = "THREAD_RUN"

(***************************************************************************)
(* What spe_event_wait can return.  Both events stay as long as their      *)
(* cause does: nothing here reads the stop information.  A signal cuts the *)
(* wait short only when no event is there.                                 *)
(***************************************************************************)
Ready == {e \in {"mbox", "stopped"} :
            /\ e = "mbox" => out_intr_mbox # << >>
            /\ e = "stopped" => stop_info.reason = "SPE_EXIT"}

(* Any event taken for a message, and the test as it is.                   *)
AnyEvent(e) == TRUE

MboxEvent(e) == e = "mbox"

(* Only a failed wait is counted; and every other event, as it is.         *)
RetriesIfFailed(e) == IF e = "interrupted" THEN retries - 1 ELSE retries

RetriesAfter(e) == retries - 1

EventWait(e) ==
  /\ InExample1 /\ ppu_pc = "receive" /\ retries > 0
  /\ \/ MboxEvent(e) /\ ppu_pc' = "read" /\ UNCHANGED retries
     \/ ~MboxEvent(e) /\ retries' = RetriesAfter(e) /\ UNCHANGED ppu_pc
  /\ UNCHANGED <<vars, answer, in_mbox, out_intr_mbox, prog_pc, myint, got,
                 give_ups, runs>>

Interrupted ==
  "interrupted" \in Faults /\ Ready = {} /\ EventWait("interrupted")

(* After ten events that were no message: STOP.                            *)
GiveUp ==
  /\ InExample1 /\ ppu_pc = "receive" /\ retries = 0
  /\ got' = StopWord /\ give_ups' = give_ups + 1
  /\ ppu_pc' = "ask"
  /\ UNCHANGED <<vars, retries, answer, in_mbox, out_intr_mbox, prog_pc,
                 myint, runs>>

(* spe_out_intr_mbox_read does not wait: an empty mailbox leaves the       *)
(* variable message as it was, uninitialised.                              *)
ReadIntrMbox ==
  /\ InExample1 /\ ppu_pc = "read"
  /\ got' = IF out_intr_mbox = << >> THEN Undefined ELSE Head(out_intr_mbox)
  /\ out_intr_mbox' = << >>
  /\ ppu_pc' = "ask"
  /\ UNCHANGED <<vars, retries, answer, in_mbox, prog_pc, myint, give_ups,
                 runs>>

recieve_message_int ==
  \/ \E e \in Ready : EventWait(e)
  \/ GiveUp
  \/ ReadIntrMbox

-----------------------------------------------------------------------------
(* The user of example1 answers; what main received does not matter.       *)
Ask ==
  /\ InExample1 /\ ppu_pc = "ask"
  /\ \E a \in Answers :
       /\ a = "RUN" => runs < MaxTurns
       /\ answer' = a
  /\ ppu_pc' = "send"
  /\ UNCHANGED <<vars, retries, in_mbox, out_intr_mbox, prog_pc, myint, got,
                 give_ups, runs>>

(* spe_in_mbox_status not asked, read as the words that wait, and as the   *)
(* room left; without a context the call fails, which is not 0 either.     *)
AlwaysRoom == 1

WordsInMbox == Len(in_mbox)

in_mbox_status == IF ctx = "live" THEN InMboxDepth - Len(in_mbox) ELSE -1

(* send_message of the PPU spins until there is room, and the word is lost *)
(* if there is no context; after STOP main calls stop_spu_thread.          *)
ppu_send_message ==
  /\ InExample1 /\ ppu_pc = "send"
  /\ in_mbox_status # 0
  /\ in_mbox' = IF ctx = "live" THEN Append(in_mbox, answer) ELSE in_mbox
  /\ \/ /\ answer = "RUN"
        /\ ppu_pc' = "receive" /\ retries' = RETRIES /\ runs' = runs + 1
        /\ UNCHANGED vars
     \/ /\ answer = "STOP"
        /\ ppu_pc' = "done" /\ UNCHANGED <<retries, runs>>
        /\ CallStop
  /\ UNCHANGED <<answer, out_intr_mbox, prog_pc, myint, got, give_ups>>

-----------------------------------------------------------------------------
(* spu_example1.                                                           *)

InProgram == type = "THREAD_RUN" /\ spe = "running"

(* dmaGetnWait of the argument, whose myint is 1.                          *)
FetchArgument ==
  /\ InProgram /\ prog_pc = "boot"
  /\ myint' = 1
  /\ prog_pc' = "report"
  /\ UNCHANGED <<vars, ppu_pc, retries, answer, in_mbox, out_intr_mbox, got,
                 give_ups, runs>>

(* Like send_message it writes the address of its parameter.               *)
send_message_int ==
  /\ InProgram /\ prog_pc = "report"
  /\ Len(out_intr_mbox) < OutIntrMboxDepth
  /\ out_intr_mbox' = Append(out_intr_mbox, Address)
  /\ prog_pc' = "poll"
  /\ UNCHANGED <<vars, ppu_pc, retries, answer, in_mbox, myint, got, give_ups,
                 runs>>

(* msg != STOP, tested the wrong way round and as it is.                   *)
EndsOnRun(msg) == msg = "RUN"

EndsOn(msg) == msg = "STOP"

wait_for_message_poll ==
  /\ InProgram /\ prog_pc = "poll"
  /\ in_mbox # << >>
  /\ in_mbox' = Tail(in_mbox)
  /\ \/ /\ EndsOn(Head(in_mbox))
        /\ prog_pc' = "ended" /\ UNCHANGED myint
     \/ /\ ~EndsOn(Head(in_mbox))
        /\ prog_pc' = "report" /\ myint' = myint + 1
  /\ UNCHANGED <<vars, ppu_pc, retries, answer, out_intr_mbox, got, give_ups,
                 runs>>

ProgramExit ==
  /\ InProgram /\ prog_pc = "ended"
  /\ SpuExit
  /\ UNCHANGED msgVars

(* Another program, or this one with an error, may end at any time.        *)
EarlyExit ==
  /\ InProgram /\ prog_pc # "ended" /\ "early_exit" \in Faults
  /\ SpuExit
  /\ UNCHANGED msgVars

Program ==
  \/ FetchArgument
  \/ send_message_int
  \/ wait_for_message_poll
  \/ ProgramExit

-----------------------------------------------------------------------------
(* What the two types of thread have in common, and the SPU program of a   *)
(* looping one.                                                            *)
MainCommon ==
  \/ start_spu_thread
  \/ \E a \in Actions : send_action(a)
  \/ CondWait
  \/ stop_spu_thread

LoopProgram == type = "THREAD_LOOP" /\ SpuNext

MsgNext ==
  \/ MainCommon /\ UNCHANGED msgVars
  \/ ThreadNext /\ UNCHANGED msgVars
  \/ LoopProgram /\ UNCHANGED msgVars
  \/ recieve_message_int
  \/ Interrupted
  \/ Ask
  \/ ppu_send_message
  \/ Program
  \/ EarlyExit

MsgSpec == MsgInit /\ [][MsgNext]_<<vars, msgVars>>

(***************************************************************************)
(* As in SpeThread; the calls of spemessage.c go on when they can, and a   *)
(* program that runs goes on; but the user need not answer, no signal has  *)
(* to come and no program has to end early.                                *)
(***************************************************************************)
MsgFairness ==
  /\ WF_<<vars, msgVars>>(stop_spu_thread /\ UNCHANGED msgVars)
  /\ WF_<<vars, msgVars>>(CondWait /\ UNCHANGED msgVars)
  /\ WF_<<vars, msgVars>>(ThreadNext /\ UNCHANGED msgVars)
  /\ WF_<<vars, msgVars>>(LoopProgram /\ UNCHANGED msgVars)
  /\ WF_<<vars, msgVars>>(recieve_message_int)
  /\ WF_<<vars, msgVars>>(ppu_send_message)
  /\ WF_<<vars, msgVars>>(Program)

MsgFairSpec == MsgSpec /\ MsgFairness

-----------------------------------------------------------------------------
(***************************************************************************)
(* Unless recieve_message_int has given up, main and the program take      *)
(* turns: at most one word is under way between them, and while main asks  *)
(* its user the program waits for the answer, having carried out every RUN *)
(* that was sent.                                                          *)
(***************************************************************************)
LockStep ==
  give_ups = 0 =>
    /\ Len(in_mbox) + Len(out_intr_mbox) <= 1
    /\ InExample1 /\ ppu_pc \in {"ask", "send"} =>
         /\ prog_pc = "poll" /\ in_mbox = << >> /\ out_intr_mbox = << >>
         /\ myint = runs + 1

(***************************************************************************)
(* recieve_message_int never returns its uninitialised variable: the word  *)
(* it returns was sent by the program, or is the STOP of a wait that has   *)
(* failed.                                                                 *)
(***************************************************************************)
ReceivesSentWord ==
  ppu_pc \in {"ask", "send", "done"} =>
    got = Address \/ (got = StopWord /\ give_ups > 0)

(***************************************************************************)
(* After its STOP main reads no report any more, and the program still has *)
(* to report once for every RUN that it had not carried out by then; it    *)
(* finds room each time, and so gets to the STOP, provided that            *)
(* recieve_message_int has given up at most once.  (The one place of the   *)
(* interrupting mailbox makes up for one report that main has not read.)   *)
(***************************************************************************)
ReportsFit ==
  ppu_pc = "done" /\ prog_pc = "report" /\ give_ups < 2 => out_intr_mbox = << >>

(***************************************************************************)
(* What these invariants rest on.  The STOP is the last word main sends,   *)
(* so the other words in the mailbox are RUNs that the program has not     *)
(* carried out.                                                            *)
(***************************************************************************)
StopSent == in_mbox # << >> /\ in_mbox[Len(in_mbox)] = "STOP"

UnreadRuns == IF StopSent THEN Len(in_mbox) - 1 ELSE Len(in_mbox)

CountInv ==
  /\ ctx # "none" =>
       runs = UnreadRuns + (IF prog_pc = "boot" THEN 0 ELSE myint - 1)
  /\ prog_pc = "boot" <=> myint = 0
  /\ ppu_pc = "send" /\ answer = "RUN" => runs < MaxTurns
  /\ \A i \in 1 .. Len(in_mbox) :
       in_mbox[i] = "STOP" => i = Len(in_mbox) /\ ppu_pc = "done"

(* Nothing is sent before main has started the thread, and nothing gets    *)
(* through when there is no context.                                       *)
QuietInv ==
  /\ main_pc = "new" => runs = 0
  /\ main_pc = "new" \/ ctx = "none" => in_mbox = << >> /\ prog_pc = "boot"

(***************************************************************************)
(* Every receive of main has read a report or was given up, and what the   *)
(* program has reported was read or is in the mailbox.                     *)
(***************************************************************************)
Receives == runs + (IF ppu_pc \in {"ask", "send", "done"} THEN 1 ELSE 0)

Reports == IF prog_pc = "report" THEN myint - 1 ELSE myint

ReportInv == Reports = (Receives - give_ups) + Len(out_intr_mbox)

(* The turns of main and the program while no receive has given up.        *)
TurnInv ==
  /\ ppu_pc \in {"receive", "read"} =>
       \/ in_mbox = << >> /\ out_intr_mbox = << >> /\ prog_pc \in {"boot", "report"}
       \/ in_mbox = << >> /\ out_intr_mbox # << >> /\ prog_pc = "poll"
       \/ Len(in_mbox) = 1 /\ out_intr_mbox = << >> /\ prog_pc = "poll"
  /\ ppu_pc \in {"ask", "send"} =>
       in_mbox = << >> /\ out_intr_mbox = << >> /\ prog_pc = "poll"
  /\ ppu_pc = "done" =>
       /\ out_intr_mbox = << >> /\ prog_pc \in {"poll", "ended"}
       /\ Len(in_mbox) <= 1 /\ (in_mbox # << >> => in_mbox[1] = "STOP")

(* The inductive invariant of the mailbox messages.                        *)
MsgInv ==
  /\ MsgTypeOK /\ CountInv /\ QuietInv /\ ReportInv /\ ReceivesSentWord
  /\ ppu_pc = "read" => out_intr_mbox # << >>
  /\ give_ups = 0 => TurnInv

-----------------------------------------------------------------------------
NeverRun == thr_pc = "exited" /\ stop_info.reason = "none"

(***************************************************************************)
(* recieve_message_int returns: with a message, or with STOP when the      *)
(* program has ended.  (If the program was never run, no event tells it    *)
(* so, and it waits forever: the timeout of spe_event_wait is -1.)         *)
(***************************************************************************)
ReceiveReturns ==
  (InExample1 /\ ppu_pc \in {"receive", "read"}) ~>
    (ppu_pc \notin {"receive", "read"} \/ NeverRun)

(***************************************************************************)
(* The spinning loop of send_message ends while the program runs, even     *)
(* when answers were sent ahead of the reports and the mailbox is full.    *)
(***************************************************************************)
SendReturns ==
  (InExample1 /\ ppu_pc = "send") ~>
    (~(InExample1 /\ ppu_pc = "send") \/ thr_pc = "exited")

(***************************************************************************)
(* The join in stop_spu_thread ends once THREAD_EXIT or STOP has been      *)
(* sent, however many actions wait in the pipe and wherever the thread and *)
(* the program are, unless recieve_message_int has given up twice: then    *)
(* the program may have two reports to make that nobody reads.             *)
(***************************************************************************)
StopHeard == (main_pc = "join") ~> (main_pc # "join" \/ give_ups > 1)
=============================================================================
