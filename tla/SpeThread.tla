----------------------------- MODULE SpeThread ------------------------------
(***************************************************************************)
(* src/spethread.c: a PPU thread that runs an SPE, reports every stop of   *)
(* its program by a callback and waits on a pipe for an action; and the    *)
(* main thread, which starts it, sends the actions and joins it.           *)
(***************************************************************************)
EXTENDS Naturals, Sequences

CONSTANTS
  Types,      (* the thread types main may start                           *)
  Client,     (* "example2": main waits for each callback, as example2.c   *)
              (* does; "early": main may also send an action without that  *)
  StopCodes,  (* what the SPU program passes to spu_stop                   *)
  Outcomes,   (* what a call of libspe2 or epoll may do: "ok", "fail"      *)
  Endings,    (* how the SPU program may end by itself: "exit"             *)
  MaxPipe     (* bound: the actions that wait in the pipe                  *)

ThreadTypes == {"THREAD_LOOP", "THREAD_RUN"}

ASSUME TypesAssumption == Types \subseteq ThreadTypes
ASSUME StopCodesAssumption == StopCodes \subseteq Nat
ASSUME MaxPipeAssumption == MaxPipe \in Nat \ {0}

VARIABLES
  main_pc,   (* main: "new", "started", "condwait", "answer", "join", then *)
             (* "stopped", "exit" or "crashed"                             *)
  thr_pc,    (* spu_thread or spu_loop_thread                              *)
  type, ctx, events, pipe, action,       (* the fields of spu_thread_s     *)
  stop_info, (* stop_reason and result of the last spe_context_run         *)
  spe,       (* the SPU: "stopped", "running", or "sent" its message       *)
  out_mbox,  (* its outbound mailbox, one word deep                        *)
  said,      (* history: what the SPU stopped to say                       *)
  told       (* history: the argument of the last callback                 *)

vars == <<main_pc, thr_pc, type, ctx, events, pipe, action, stop_info, spe,
          out_mbox, said, told>>

Actions == {"THREAD_EXIT", "THREAD_CONTINUE"}
READ_MBOX == 1999

(* The words that travel: the code of a stop, a message, the address of    *)
(* one, or what an uninitialised variable holds.                           *)
Code(c) == [kind |-> "code", value |-> c]
Message == [kind |-> "message", value |-> 0]
Address == [kind |-> "address", value |-> 0]
Undefined == [kind |-> "undefined", value |-> 0]
Words == {Code(c) : c \in StopCodes \cup {READ_MBOX}}
           \cup {Message, Address, Undefined}

TypeOK ==
  /\ main_pc \in {"new", "started", "condwait", "answer", "join", "stopped",
                  "exit", "crashed"}
  /\ thr_pc \in {"none", "setup", "run", "in_run", "callback", "wait",
                 "exited"}
  /\ type \in ThreadTypes
  /\ ctx \in {"none", "live", "destroyed"}
  /\ events \in {"unset", "allocated", "freed"}
  /\ pipe \in Seq(Actions)
  /\ action \in Actions
  /\ stop_info \in [reason : {"none", "SPE_EXIT", "SPE_STOP_AND_SIGNAL"},
                    code : StopCodes \cup {READ_MBOX}]
  /\ spe \in {"stopped", "running", "sent"}
  /\ out_mbox \in {<< >>, <<Address>>}
  /\ said \in Words
  /\ told \in Words

Init ==
  /\ main_pc = "new"
  /\ thr_pc = "none"
  /\ type \in Types
  /\ ctx = "none"
  /\ events = "unset"
  /\ pipe = << >>
  /\ action = "THREAD_EXIT"
  /\ stop_info = [reason |-> "none", code |-> READ_MBOX]
  /\ spe = "stopped"
  /\ out_mbox = << >>
  /\ said = Undefined
  /\ told = Undefined

-----------------------------------------------------------------------------
(***************************************************************************)
(* The main thread.  start_spu_thread creates the context and the thread;  *)
(* it goes on without a context when spe_context_create fails, and ends    *)
(* the process when pthread_create does.  That pipe has failed shows as a  *)
(* failure of epoll_ctl in Setup.                                          *)
(***************************************************************************)
start_spu_thread ==
  /\ main_pc = "new"
  /\ \/ "ok" \in Outcomes /\ ctx' = "live"
     \/ "fail" \in Outcomes /\ ctx' = "none"
  /\ \/ "ok" \in Outcomes /\ main_pc' = "started" /\ thr_pc' = "setup"
     \/ "fail" \in Outcomes /\ main_pc' = "exit" /\ thr_pc' = thr_pc
  /\ UNCHANGED <<type, events, pipe, action, stop_info, spe, out_mbox, said,
                 told>>

(* send_action; main goes to stop_spu_thread once it has sent THREAD_EXIT. *)
send_action(a) ==
  /\ main_pc = "answer" \/ (main_pc = "started" /\ Client = "early")
  /\ type = "THREAD_LOOP"
  /\ Len(pipe) < MaxPipe
  /\ pipe' = Append(pipe, a)
  /\ main_pc' = IF a = "THREAD_EXIT" THEN "join" ELSE "started"
  /\ UNCHANGED <<thr_pc, type, ctx, events, action, stop_info, spe, out_mbox,
                 said, told>>

(* main enters pthread_cond_wait, as in example2; Callback wakes it.       *)
CondWait ==
  /\ main_pc = "started" /\ type = "THREAD_LOOP"
  /\ main_pc' = "condwait"
  /\ UNCHANGED <<thr_pc, type, ctx, events, pipe, action, stop_info, spe,
                 out_mbox, said, told>>

(* A thread that does not loop is joined without an action.                *)
CallStop ==
  /\ main_pc = "started" /\ type = "THREAD_RUN"
  /\ main_pc' = "join"
  /\ UNCHANGED <<thr_pc, type, ctx, events, pipe, action, stop_info, spe,
                 out_mbox, said, told>>

(* pthread_join, skipped and as it is.                                     *)
JoinedAtOnce == TRUE

Joined == thr_pc = "exited"

(***************************************************************************)
(* stop_spu_thread from the join on.  free(spu->events) of a pointer that  *)
(* was never assigned is undefined: it may go well or end the process.     *)
(* close(spu->pipe) is given the array and closes nothing.                 *)
(***************************************************************************)
stop_spu_thread ==
  /\ main_pc = "join" /\ Joined
  /\ ctx' = IF ctx = "live" THEN "destroyed" ELSE ctx
  /\ \/ main_pc' = "stopped"
     \/ events = "unset" /\ main_pc' = "crashed"
  /\ events' = "freed"
  /\ UNCHANGED <<thr_pc, type, pipe, action, stop_info, spe, out_mbox, said,
                 told>>

-----------------------------------------------------------------------------
(* spu->events after the setup, when a failure comes before the malloc and *)
(* as it is.                                                               *)
EventsAfterSetupLate(failed) ==
  IF type = "THREAD_LOOP" /\ ~failed THEN "allocated" ELSE events

EventsAfterSetup(failed) ==
  IF type = "THREAD_LOOP" THEN "allocated" ELSE events

(* The epoll set of a looping thread, and spe_program_load, which fails    *)
(* without a context.                                                      *)
Setup ==
  /\ thr_pc = "setup"
  /\ \/ /\ "ok" \in Outcomes /\ ctx = "live"
        /\ thr_pc' = "run" /\ events' = EventsAfterSetup(FALSE)
     \/ /\ "fail" \in Outcomes
        /\ thr_pc' = "exited" /\ events' = EventsAfterSetup(TRUE)
  /\ UNCHANGED <<main_pc, type, ctx, pipe, action, stop_info, spe, out_mbox,
                 said, told>>

(* The call of spe_context_run: the SPU goes on where it stopped.          *)
ContextRun ==
  /\ thr_pc = "run"
  /\ \/ "ok" \in Outcomes /\ thr_pc' = "in_run" /\ spe' = "running"
     \/ "fail" \in Outcomes /\ thr_pc' = "exited" /\ spe' = spe
  /\ UNCHANGED <<main_pc, type, ctx, events, pipe, action, stop_info,
                 out_mbox, said, told>>

(* The values of the fourteen bits of a signal code.                       *)
SignalBits == {1, 2, 4, 8, 16, 32, 64, 128, 256, 512, 1024, 2048, 4096, 8192}

(* spe_signal_code & READ_MBOX as any code, and as it is.                  *)
AnyCode(c) == TRUE

AsksForMbox(c) ==
  \E b \in SignalBits : (c \div b) % 2 = 1 /\ (READ_MBOX \div b) % 2 = 1

(* spe_out_mbox_read: what is in the mailbox, if anything is.              *)
MboxWord == IF out_mbox = << >> THEN Undefined ELSE Head(out_mbox)

(* spe_context_run returns to spu_thread, which ends.                      *)
RunReturns ==
  /\ thr_pc = "in_run" /\ spe = "stopped" /\ type = "THREAD_RUN"
  /\ thr_pc' = "exited"
  /\ UNCHANGED <<main_pc, type, ctx, events, pipe, action, stop_info, spe,
                 out_mbox, said, told>>

(***************************************************************************)
(* spe_context_run returns to spu_loop_thread: the end of the program ends *)
(* the thread, a stop is turned into the argument of the callback.         *)
(***************************************************************************)
HandleStop ==
  LET mbox == AsksForMbox(stop_info.code) IN
  /\ thr_pc = "in_run" /\ spe = "stopped" /\ type = "THREAD_LOOP"
  /\ \/ /\ stop_info.reason # "SPE_STOP_AND_SIGNAL"
        /\ thr_pc' = "exited"
        /\ UNCHANGED <<told, out_mbox>>
     \/ /\ stop_info.reason = "SPE_STOP_AND_SIGNAL"
        /\ thr_pc' = "callback"
        /\ told' = IF mbox THEN MboxWord ELSE Code(stop_info.code)
        /\ out_mbox' = IF mbox THEN << >> ELSE out_mbox
  /\ UNCHANGED <<main_pc, type, ctx, events, pipe, action, stop_info, spe,
                 said>>

(* The callback; that of example2 broadcasts main's condition variable.    *)
Callback ==
  /\ thr_pc = "callback"
  /\ thr_pc' = "wait"
  /\ main_pc' = IF main_pc = "condwait" THEN "answer" ELSE main_pc
  /\ UNCHANGED <<type, ctx, events, pipe, action, stop_info, spe, out_mbox,
                 said, told>>

(* spu->action = THREAD_EXIT, tested the wrong way round and as it is.     *)
ExitsOnContinue(a) == a = "THREAD_CONTINUE"

ExitsOn(a) == a = "THREAD_EXIT"

(* epoll_wait and the read of one action from the pipe.                    *)
EpollWait ==
  /\ thr_pc = "wait" /\ pipe # << >>
  /\ action' = Head(pipe)
  /\ pipe' = Tail(pipe)
  /\ thr_pc' = IF ExitsOn(Head(pipe)) THEN "exited" ELSE "run"
  /\ UNCHANGED <<main_pc, type, ctx, events, stop_info, spe, out_mbox, said,
                 told>>

-----------------------------------------------------------------------------
(***************************************************************************)
(* The SPU program.  spu_stop stops it with a code; send_message writes a  *)
(* word to the mailbox once there is room, and what it writes is &message, *)
(* the address of its parameter; spu_stop(READ_MBOX) follows, as in the    *)
(* task manager's SNOOZE.  A program may also end.                         *)
(***************************************************************************)
spu_stop(c) ==
  /\ spe = "running"
  /\ spe' = "stopped"
  /\ stop_info' = [reason |-> "SPE_STOP_AND_SIGNAL", code |-> c]
  /\ said' = Code(c)
  /\ UNCHANGED <<main_pc, thr_pc, type, ctx, events, pipe, action, out_mbox,
                 told>>

send_message ==
  /\ spe = "running" /\ out_mbox = << >>
  /\ spe' = "sent"
  /\ out_mbox' = <<Address>>
  /\ UNCHANGED <<main_pc, thr_pc, type, ctx, events, pipe, action, stop_info,
                 said, told>>

StopForMbox ==
  /\ spe = "sent"
  /\ spe' = "stopped"
  /\ stop_info' = [reason |-> "SPE_STOP_AND_SIGNAL", code |-> READ_MBOX]
  /\ said' = Message
  /\ UNCHANGED <<main_pc, thr_pc, type, ctx, events, pipe, action, out_mbox,
                 told>>

SpuExit ==
  /\ spe = "running" /\ "exit" \in Endings
  /\ spe' = "stopped"
  /\ stop_info' = [stop_info EXCEPT !.reason = "SPE_EXIT"]
  /\ UNCHANGED <<main_pc, thr_pc, type, ctx, events, pipe, action, out_mbox,
                 said, told>>

-----------------------------------------------------------------------------
MainNext ==
  \/ start_spu_thread
  \/ \E a \in Actions : send_action(a)
  \/ CondWait
  \/ CallStop
  \/ stop_spu_thread

ThreadNext ==
  \/ Setup
  \/ ContextRun
  \/ RunReturns
  \/ HandleStop
  \/ Callback
  \/ EpollWait

SpuNext ==
  \/ \E c \in StopCodes : spu_stop(c)
  \/ send_message
  \/ StopForMbox
  \/ SpuExit

Next == MainNext \/ ThreadNext \/ SpuNext

Spec == Init /\ [][Next]_vars

(* The threads are preemptive, and the SPU program never computes forever. *)
(* Nothing is assumed about what main decides to send.                     *)
Fairness ==
  /\ WF_vars(stop_spu_thread)
  /\ WF_vars(CondWait)
  /\ WF_vars(ThreadNext)
  /\ WF_vars(SpuNext)

FairSpec == Spec /\ Fairness

-----------------------------------------------------------------------------
(***************************************************************************)
(* The SPU runs only while its thread is inside spe_context_run, on a      *)
(* context that stop_spu_thread has not destroyed.                         *)
(***************************************************************************)
ContextOutlivesSpu ==
  spe # "stopped" => thr_pc = "in_run" /\ ctx = "live"

(* The bits that are set in READ_MBOX.                                     *)
MboxBits == {1, 2, 4, 8, 64, 128, 256, 512, 1024}

(***************************************************************************)
(* What spu_loop_thread has reported before it waits for an action and     *)
(* before it resumes the SPU, when spu_stop stopped the program with a     *)
(* code: the code, if it has no bit in common with READ_MBOX; for any      *)
(* other code, 5 say, the test of a common bit sends the thread to the     *)
(* empty mailbox and the callback gets an uninitialised variable.  (The    *)
(* comment of spu_loop_thread promises "a callback with arguments from     *)
(* spe" for every stop.)                                                   *)
(***************************************************************************)
SignalReported ==
  thr_pc \in {"callback", "wait", "run"} /\ said.kind = "code" =>
    told = IF \E b \in MboxBits : (said.value \div b) % 2 = 1
             THEN Undefined ELSE said

(* A stop for the mailbox that has not been handled yet.                   *)
MboxPending ==
  /\ thr_pc = "in_run"
  /\ spe = "sent" \/ (spe = "stopped" /\ said = Message
                        /\ stop_info.reason = "SPE_STOP_AND_SIGNAL")

(* The life cycle of the thread follows that of main.                      *)
LifeCycle ==
  /\ main_pc \in {"new", "exit"} <=> thr_pc = "none"
  /\ main_pc \in {"stopped", "crashed"} => thr_pc = "exited"
  /\ main_pc \notin {"stopped", "crashed"} => ctx # "destroyed"
  /\ thr_pc \in {"run", "in_run", "callback", "wait"} => ctx = "live"

(* The event buffer of a looping thread exists from its setup on.          *)
BufferInv ==
  /\ type = "THREAD_LOOP" /\ thr_pc \notin {"none", "setup"} => events # "unset"
  /\ main_pc = "crashed" => type = "THREAD_RUN"

(* The mailbox is filled on the way from send_message to the callback.     *)
MailboxInv ==
  /\ type = "THREAD_LOOP" => (out_mbox # << >> <=> MboxPending)
  /\ MboxPending /\ spe = "stopped" => stop_info.code = READ_MBOX
  /\ thr_pc = "callback" /\ said = Message => told = Address

(***************************************************************************)
(* The inductive invariant: the life cycle of the thread follows that of   *)
(* main, the buffer of a looping thread exists from its setup to its stop, *)
(* and the mailbox is empty except on the way from send_message to the     *)
(* callback, so the callback never gets an undefined word for a message.   *)
(***************************************************************************)
ThreadInv ==
  TypeOK /\ LifeCycle /\ BufferInv /\ MailboxInv /\ ContextOutlivesSpu

(* What SignalReported needs: an unhandled stop still has the code that    *)
(* the program gave.                                                       *)
SignalInv ==
  /\ thr_pc \in {"none", "setup"} => said.kind # "code"
  /\ thr_pc = "in_run" /\ spe = "stopped" /\ said.kind = "code"
     /\ stop_info.reason = "SPE_STOP_AND_SIGNAL"
       => said = Code(stop_info.code) /\ stop_info.code \in StopCodes
  /\ SignalReported

-----------------------------------------------------------------------------
(***************************************************************************)
(* The join in stop_spu_thread ends whenever main, as its comment asks,    *)
(* has given "a command to the spe or spe thread to actually exit".        *)
(***************************************************************************)
StopReturns == (main_pc = "join") ~> (main_pc # "join")

(***************************************************************************)
(* "wait for a message from the spu": the main of example2 comes back from *)
(* pthread_cond_wait when the SPU program stops again and again.           *)
(***************************************************************************)
WokenUp == (main_pc = "condwait") ~> (main_pc # "condwait")
=============================================================================
