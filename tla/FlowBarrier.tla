----------------------------- MODULE FlowBarrier ----------------------------
(***************************************************************************)
(* One flow process under the supervisor: a sender (udp_socket/src/        *)
(* sender.c), a UDP receiver (receiver.c) or an AF_XDP receiver            *)
(* (BPF/afxdp_recv.c).  Each captures or sends until it is done or told to *)
(* stop, reports one completion byte, waits for SIGUSR1 and only then      *)
(* writes its results.  Beside them the two samplers of a run: phc_track,  *)
(* which keeps its observations in memory until SIGTERM, and cpu_sample,   *)
(* which writes every sample at once.  They have no pipe and no barrier.   *)
(*                                                                         *)
(* Signals are modelled as the kernel delivers them: a pending signal that *)
(* is not blocked runs its handler between any two steps of the process.   *)
(* TERM stands for INT too.  Failures of sigprocmask are left out.         *)
(***************************************************************************)
EXTENDS Naturals

CONSTANT Expected    \* packets of the flow, and capacity of the records;
                     \* the bound on the samples of cpu_sample

ASSUME ExpectedAssumption == Expected \in Nat \ {0, 1}

VARIABLES
  kind,      \* which of the five programs
  pc,        \* its control point
  wait,      \* how far it is in a sigsuspend loop, "none" outside of one
  armed,     \* its signal handlers are installed
  blocked,   \* its signal mask
  pending,   \* signals sent and not handled
  stop, flush, busy,   \* stop, flush_requested, busy_released
  first,     \* stop_signal: the first signal that set stop
  drain,     \* its drain window (phc_track: whether its budget is over)
  count,     \* packets attempted, or recorded
  errors,    \* errors, receive_errors or err
  byte,      \* what the completion pipe carries (a sampler: eof once it ended)
  file,      \* packets the output file, or the statistics, has
  status,    \* exit status
  staging,   \* the records are in the staging file (receiver only)
  sent,      \* signals the supervisor has sent
  start      \* the supervisor has linked the start file

vars == <<kind, pc, wait, armed, blocked, pending, stop, flush, busy, first,
          drain, count, errors, byte, file, status, staging, sent, start>>
signalVars == <<wait, blocked, pending, stop, flush, busy, first>>
superVars  == <<sent, start, staging>>
resultVars == <<byte, file, status>>

Receivers == {"receiver", "afxdp_recv"}
Samplers == {"phc_track", "cpu_sample"}
Kinds == {"sender"} \cup Receivers \cup Samplers
Signals == {"TERM", "USR1", "USR2", "ALRM"}
Waits == {"full", "gate", "flush"}

(* Every variable has its type.                                            *)
TypeOK ==
  /\ kind \in Kinds
  /\ pc \in {"fork", "setup", "ready", "start", "capture", "call", "blocked",
             "after", "report", "save", "done", "killed"} \cup Waits
  /\ wait \in {"none", "test", "sleep", "suspended"}
  /\ wait # "none" <=> pc \in Waits
  /\ {armed, stop, flush, busy, errors, staging, start} \subseteq BOOLEAN
  /\ blocked \subseteq Signals /\ pending \subseteq Signals /\ sent \subseteq Signals
  /\ first \in Signals \cup {"none"}
  /\ drain \in {"off", "on", "over"}
  /\ count \in 0..Expected
  /\ byte \in {"none", "ok", "error", "eof"}
  /\ file \in 0..count
  /\ status \in {"none", "0", "1"}

Init ==
  /\ kind \in Kinds
  /\ pc = "fork"
  /\ wait = "none"
  /\ armed = FALSE
  /\ blocked = {}
  /\ pending = {}
  /\ stop = FALSE /\ flush = FALSE /\ busy = FALSE
  /\ first = "none"
  /\ drain = "off"
  /\ count = 0
  /\ errors = FALSE
  /\ byte = "none"
  /\ file = 0
  /\ status = "none"
  /\ staging = FALSE
  /\ sent = {}
  /\ start = FALSE

-----------------------------------------------------------------------------
(* Signals.                                                                *)

(* What a sigsuspend loop waits for.                                       *)
WaitSignals(w) ==
  CASE w = "full" -> {"TERM"}
    [] w = "gate" -> {"USR2", "TERM"}
    [] w = "flush" -> IF kind = "sender" THEN {"USR1", "TERM"} ELSE {"USR1"}

(* Wrong: a stop request releases a receiver too.                          *)
ReleasedByStop(w) ==
  CASE w = "full" -> stop
    [] w = "gate" -> busy \/ stop
    [] w = "flush" -> flush \/ stop

Released(w) ==
  CASE w = "full" -> stop
    [] w = "gate" -> busy \/ stop
    [] w = "flush" -> flush \/ (kind = "sender" /\ stop)

(* Wrong: the signals are not blocked before the flag is tested.           *)
EnterWaitUnblocked(w) ==
  /\ pc' = w
  /\ wait' = "test"
  /\ UNCHANGED blocked

(* sigprocmask(SIG_BLOCK)                                                  *)
EnterWait(w) ==
  /\ pc' = w
  /\ wait' = "test"
  /\ blocked' = blocked \cup WaitSignals(w)

(* The flag is tested; once it is set the old mask is restored.            *)
TestWait(to) ==
  /\ pc \in Waits
  /\ wait = "test"
  /\ IF Released(pc)
       THEN wait' = "none" /\ blocked' = blocked \ WaitSignals(pc) /\ pc' = to
       ELSE wait' = "sleep" /\ UNCHANGED <<blocked, pc>>
  /\ UNCHANGED <<kind, armed, pending, stop, flush, busy, first, drain, count,
                 errors, resultVars, superVars>>

(* sigsuspend: unblocking and sleeping are one step.                       *)
Suspend ==
  /\ wait = "sleep"
  /\ wait' = "suspended"
  /\ blocked' = blocked \ WaitSignals(pc)
  /\ UNCHANGED <<kind, pc, armed, pending, stop, flush, busy, first, drain, count,
                 errors, resultVars, superVars>>

(* A process that ends closes the pipe.                                    *)
Closed == IF byte = "none" THEN "eof" ELSE byte

(* on_signal, on_flush_signal and on_busy_signal.  Until they are          *)
(* installed the signal kills, except that a forked copy of the supervisor *)
(* handles TERM as the supervisor does, and forgets it in execvp.  A       *)
(* handler ends a blocking call, and sigsuspend, which restores the mask.  *)
Handle(s) ==
  /\ s \in pending \ blocked
  /\ pc \notin {"done", "killed"}
  /\ pending' = pending \ {s}
  /\ \/ /\ pc = "fork" /\ s = "TERM"
        /\ UNCHANGED <<pc, byte, wait, blocked, stop, flush, busy, first>>
     \/ /\ ~armed /\ ~(pc = "fork" /\ s = "TERM")
        /\ pc' = "killed"
        /\ byte' = Closed
        /\ UNCHANGED <<wait, blocked, stop, flush, busy, first>>
     \/ /\ armed
        /\ stop' = (stop \/ s \in {"TERM", "ALRM"})
        /\ first' = IF s \in {"TERM", "ALRM"} /\ ~stop THEN s ELSE first
        /\ flush' = (flush \/ s = "USR1")
        /\ busy' = (busy \/ s = "USR2")
        /\ pc' = IF pc = "blocked" THEN "capture" ELSE pc
        /\ IF wait = "suspended"
             THEN wait' = "test" /\ blocked' = blocked \cup WaitSignals(pc)
             ELSE UNCHANGED <<wait, blocked>>
        /\ UNCHANGED byte
  /\ UNCHANGED <<kind, armed, drain, count, errors, file, status, superVars>>

-----------------------------------------------------------------------------
(* The process.                                                            *)

Go(to) == pc' = to /\ UNCHANGED <<wait, blocked>>

Exit(result, report) ==
  /\ Go("done")
  /\ status' = result
  /\ byte' = report

(* The default handlers are back; the program is executed.                 *)
Exec ==
  /\ pc = "fork"
  /\ Go("setup")
  /\ UNCHANGED <<kind, armed, pending, stop, flush, busy, first, drain, count,
                 errors, resultVars, superVars>>

(* Everything up to the handlers; any of its calls may fail.  The receiver *)
(* has created its staging file by then.                                   *)
Setup ==
  /\ pc = "setup" /\ kind # "cpu_sample"
  /\ \/ /\ armed' = TRUE
        /\ staging' = (kind = "receiver")
        /\ Go("ready")
        /\ UNCHANGED <<status, byte>>
     \/ /\ UNCHANGED armed
        /\ staging' \in {FALSE, kind = "receiver"}
        /\ Exit("1", Closed)
  /\ UNCHANGED <<kind, pending, stop, flush, busy, first, drain, count, errors,
                 file, sent, start>>

(* The rest of the setup and ace_publish_ready.  Only afxdp_recv reports a *)
(* failure here, at its label out; a sender reports it at its label        *)
(* finished.                                                               *)
Ready ==
  /\ pc = "ready" /\ kind # "cpu_sample"
  /\ \/ /\ kind # "afxdp_recv" \/ ~stop
        /\ \/ kind = "afxdp_recv" /\ EnterWait("gate")
           \/ Go(IF kind = "sender" THEN "start" ELSE "capture")
        /\ UNCHANGED <<errors, status, byte>>
     \/ /\ kind # "phc_track"
        /\ errors' = TRUE
        /\ CASE kind = "sender" -> Go("report") /\ UNCHANGED <<status, byte>>
             [] kind = "receiver" -> Exit("1", "eof")
             [] kind = "afxdp_recv" -> Exit("1", "error")
  /\ UNCHANGED <<kind, armed, pending, stop, flush, busy, first, drain, count,
                 file, superVars>>

(* wait_start_file and the deadline checks of the sender.                  *)
StartFile ==
  /\ pc = "start"
  /\ \/ stop /\ Go("report") /\ UNCHANGED errors
     \/ start /\ Go("capture") /\ UNCHANGED errors
     \/ start /\ Go("report") /\ errors' = TRUE
  /\ UNCHANGED <<kind, armed, pending, stop, flush, busy, first, drain, count,
                 resultVars, superVars>>

(* The count is reached, a sender or phc_track sees stop, or the drain     *)
(* window, or the budget, is over.                                         *)
CaptureDone ==
  \/ kind # "afxdp_recv" /\ count = Expected
  \/ kind \in {"sender", "phc_track"} /\ stop
  \/ drain = "over"

(* The head of the loop: the flags are tested, and a receiver that sees    *)
(* stop begins its drain window, which may be empty.                       *)
LoopTest ==
  /\ pc = "capture"
  /\ drain' \in IF kind \in Receivers /\ stop /\ drain = "off" /\ ~CaptureDone
                 THEN {"on", "over"} ELSE {drain}
  /\ Go(IF CaptureDone \/ drain' = "over" THEN "after" ELSE "call")
  /\ UNCHANGED <<kind, armed, pending, stop, flush, busy, first, count, errors,
                 resultVars, superVars>>

(* recvmsg, poll or clock_nanosleep: a signal handled between the test and *)
(* the call does not end the call.                                         *)
Call ==
  /\ pc = "call" /\ kind # "phc_track"
  /\ Go("blocked")
  /\ UNCHANGED <<kind, armed, pending, stop, flush, busy, first, drain, count,
                 errors, resultVars, superVars>>

(* Wrong: the call has no timeout.                                         *)
TimeoutNever ==
  /\ FALSE
  /\ UNCHANGED vars

(* It is bounded: SO_RCVTIMEO, the poll interval, sleeps of at most 10 ms. *)
Timeout ==
  /\ pc = "blocked" /\ kind # "cpu_sample"
  /\ Go("capture")
  /\ UNCHANGED <<kind, armed, pending, stop, flush, busy, first, drain, count,
                 errors, resultVars, superVars>>

(* A packet is sent, or recorded.  One that cannot be sent, or lacks a     *)
(* required timestamp, is an error but does not end the loop.              *)
Packet ==
  /\ pc = "blocked" /\ kind \notin Samplers
  /\ count < Expected
  /\ kind = "sender" => ~stop
  /\ count' = count + 1
  /\ errors' \in {errors, errors \/ kind # "afxdp_recv"}
  /\ Go("capture")
  /\ UNCHANGED <<kind, armed, pending, stop, flush, busy, first, drain,
                 resultVars, superVars>>

(* Clock, socket and ring errors end it; so does a packet too many for the *)
(* records of afxdp_recv.                                                  *)
CaptureError ==
  /\ pc = "blocked" /\ kind # "cpu_sample"
  /\ errors' = TRUE
  /\ Go("after")
  /\ UNCHANGED <<kind, armed, pending, stop, flush, busy, first, drain, count,
                 resultVars, superVars>>

(* The deadline of the drain window, or the budget of phc_track, passes.   *)
DrainOver ==
  /\ drain = IF kind = "phc_track" THEN "off" ELSE "on"
  /\ kind \in Receivers \cup {"phc_track"} /\ pc \in {"capture", "call", "blocked"}
  /\ drain' = "over"
  /\ UNCHANGED <<kind, pc, armed, signalVars, count, errors, resultVars, superVars>>

(* A full receiver waits for the others to be stopped; one that the busy   *)
(* limit stopped has failed.                                               *)
After ==
  /\ pc = "after" /\ kind # "phc_track"
  /\ errors' = (errors \/ first = "ALRM")
  /\ IF kind = "receiver" /\ count = Expected THEN EnterWait("full") ELSE Go("report")
  /\ UNCHANGED <<kind, armed, pending, stop, flush, busy, first, drain, count,
                 resultVars, superVars>>

(* What the completion byte says.                                          *)
Outcome == errors \/ (kind = "sender" /\ (stop \/ count # Expected))

(* notify_completion, then the flush barrier.  Which failures skip the     *)
(* barrier differs; the pipe may be broken.                                *)
Report ==
  /\ pc = "report"
  /\ \/ byte' = (IF Outcome THEN "error" ELSE "ok") /\ UNCHANGED errors
     \/ byte' = "eof" /\ errors' = TRUE
  /\ IF \/ kind = "sender" /\ ~errors'
        \/ kind = "receiver" /\ byte' = "ok"
        \/ kind = "afxdp_recv"
       THEN EnterWait("flush")
       ELSE Go("save")
  /\ UNCHANGED <<kind, armed, pending, stop, flush, busy, first, drain, count,
                 file, status, superVars>>

(* Wrong: an output file that could not be written does not matter.        *)
SaveAnyway ==
  /\ pc = "save"
  /\ file' \in 0..count
  /\ status' = IF errors THEN "1" ELSE "0"
  /\ byte' = IF kind \in Samplers THEN Closed ELSE byte
  /\ Go("done")
  /\ UNCHANGED <<kind, armed, pending, stop, flush, busy, first, drain, count,
                 errors, superVars>>

(* save_records, save_user_records or the statistics; whatever fails here  *)
(* or in the rest of main makes the status 1.                              *)
Save ==
  /\ pc = "save"
  /\ \/ file' = count /\ status' = IF errors THEN "1" ELSE "0"
     \/ file' \in 0..count /\ status' = "1"
  /\ byte' = IF kind \in Samplers THEN Closed ELSE byte
  /\ Go("done")
  /\ UNCHANGED <<kind, armed, pending, stop, flush, busy, first, drain, count,
                 errors, superVars>>

-----------------------------------------------------------------------------
(* The samplers.                                                           *)

(* The loop of phc_track: the PHC answers and the observation is kept, or  *)
(* it does not and is opened again next time; a clock, or the ready file   *)
(* of the first observation, fails.                                        *)
Observe ==
  /\ pc = "call" /\ kind = "phc_track"
  /\ \/ count' \in {count, count + 1} /\ Go("blocked") /\ UNCHANGED errors
     \/ count' \in {count, count + 1} /\ Go("after") /\ errors' = TRUE
  /\ UNCHANGED <<kind, armed, pending, stop, flush, busy, first, drain,
                 resultVars, superVars>>

(* It has failed when nobody stopped it or it has no observation.          *)
TrackOver ==
  /\ pc = "after" /\ kind = "phc_track"
  /\ errors' = (errors \/ ~stop \/ count = 0)
  /\ Go("save")
  /\ UNCHANGED <<kind, armed, pending, stop, flush, busy, first, drain, count,
                 resultVars, superVars>>

(* cpu_sample keeps SIGTERM blocked from the start; before that it kills.  *)
Block ==
  /\ pc = "setup" /\ kind = "cpu_sample"
  /\ \/ /\ pc' = "ready" /\ blocked' = {"TERM"}
        /\ UNCHANGED <<wait, status, byte>>
     \/ Exit("1", Closed)
  /\ UNCHANGED <<kind, armed, pending, stop, flush, busy, first, drain, count,
                 errors, file, superVars>>

(* A sample that reaches the disk before the next wait, or ends the        *)
(* program.                                                                *)
Sample(to) ==
  \/ /\ count' = count + 1 /\ file' = count'
     /\ to
  \/ /\ Exit("1", Closed)
     /\ UNCHANGED <<count, file>>

FirstSample ==
  /\ pc = "ready" /\ kind = "cpu_sample"
  /\ Sample(Go("blocked") /\ UNCHANGED <<status, byte>>)
  /\ UNCHANGED <<kind, armed, pending, stop, flush, busy, first, drain, errors,
                 superVars>>

(* sigtimedwait runs into its timeout.                                     *)
NextSample ==
  /\ pc = "blocked" /\ kind = "cpu_sample" /\ "TERM" \notin pending
  /\ count + 1 < Expected
  /\ Sample(Go("blocked") /\ UNCHANGED <<status, byte>>)
  /\ UNCHANGED <<kind, armed, pending, stop, flush, busy, first, drain, errors,
                 superVars>>

(* It takes the signal: one last sample, and the file is closed.           *)
LastSample ==
  /\ pc = "blocked" /\ kind = "cpu_sample" /\ "TERM" \in pending
  /\ pending' = pending \ {"TERM"}
  /\ stop' = TRUE /\ first' = "TERM"
  /\ Sample(Exit("0", Closed) \/ Exit("1", Closed))
  /\ UNCHANGED <<kind, armed, flush, busy, drain, errors, superVars>>

-----------------------------------------------------------------------------
(* The supervisor.                                                         *)

SendSignal(s) ==
  /\ s \notin sent
  /\ sent' = sent \cup {s}
  /\ pending' = pending \cup {s}
  /\ UNCHANGED <<kind, pc, wait, armed, blocked, stop, flush, busy, first, drain,
                 count, errors, resultVars, start, staging>>

(* SIGUSR2 to an AF_XDP receiver that is ready.                            *)
SendBusy == kind = "afxdp_recv" /\ pc \notin {"fork", "setup", "ready"} /\ SendSignal("USR2")

(* request_stop: at any time, if only in cleanup_children.                 *)
SendStop == SendSignal("TERM")

(* SIGUSR1 follows the completion byte, or in cleanup_children SIGTERM.    *)
SendFlush ==
  /\ kind \notin Samplers
  /\ "TERM" \in sent \/ (kind = "sender" /\ byte = "ok")
  /\ SendSignal("USR1")

LinkStart ==
  /\ kind = "sender" /\ pc \notin {"fork", "setup", "ready"} /\ ~start
  /\ start' = TRUE
  /\ UNCHANGED <<kind, pc, armed, signalVars, drain, count, errors, resultVars,
                 sent, staging>>

(* alarm(busy_timeout_sec)                                                 *)
Alarm ==
  /\ kind = "afxdp_recv" /\ pc \in {"capture", "call", "blocked"}
  /\ SendSignal("ALRM")

(* wait_child kills a child that does not end in time ...                  *)
Kill ==
  /\ {"TERM", "USR1"} \cap sent # {}
  /\ pc \notin {"done", "killed"}
  /\ pc' = "killed"
  /\ wait' = "none"
  /\ byte' = Closed
  /\ UNCHANGED <<kind, armed, blocked, pending, stop, flush, busy, first, drain,
                 count, errors, file, status, superVars>>

(* Wrong: whatever its status.                                             *)
RemoveStagingAlways ==
  /\ pc \in {"done", "killed"} /\ staging
  /\ staging' = FALSE
  /\ UNCHANGED <<kind, pc, armed, signalVars, drain, count, errors, resultVars,
                 sent, start>>

(* ... and removes the staging file of one that ended well.                *)
RemoveStaging ==
  /\ pc = "done" /\ status = "0" /\ staging
  /\ staging' = FALSE
  /\ UNCHANGED <<kind, pc, armed, signalVars, drain, count, errors, resultVars,
                 sent, start>>

-----------------------------------------------------------------------------
Step ==
  \/ Exec \/ Setup \/ Ready \/ StartFile \/ LoopTest \/ Call \/ Timeout
  \/ After \/ Report \/ Save \/ Suspend
  \/ Observe \/ TrackOver \/ Block \/ FirstSample \/ NextSample \/ LastSample
  \/ TestWait(CASE pc = "gate" -> "capture" [] pc = "full" -> "report" [] OTHER -> "save")

Supervisor ==
  \/ SendBusy \/ SendStop \/ SendFlush \/ LinkStart \/ Kill \/ RemoveStaging

Next ==
  \/ Step \/ Packet \/ CaptureError \/ DrainOver \/ Alarm \/ Supervisor
  \/ \E s \in Signals : Handle(s)

Spec == Init /\ [][Next]_vars

(* The process runs, time passes, and the kernel delivers what is pending. *)
(* Nothing is assumed of the supervisor, nor of traffic or errors.         *)
FairSpec ==
  /\ Spec
  /\ WF_vars(Step) /\ WF_vars(DrainOver)
  /\ \A s \in Signals : WF_vars(Handle(s))

-----------------------------------------------------------------------------
(* The flush barrier: a receiver that reported success writes its file     *)
(* only after the supervisor released it, so that no storage I/O falls     *)
(* into another flow's capture ("only the supervisor's USR1 permits I/O"). *)
SavedAfterRelease ==
  kind \in Receivers /\ byte = "ok" /\ file > 0 => "USR1" \in sent

(* What a flow process tells its supervisor is true.  Exit status 0 of a   *)
(* receiver, on which the supervisor removes the staging file, means that  *)
(* every record is in its output file and that the capture was reported as *)
(* good.  A good completion byte means that a sender sent every packet,    *)
(* and that an AF_XDP receiver was not stopped by its busy limit.  Exit    *)
(* status 0 of a sampler means that its file is whole and goes on to the   *)
(* stop it was sent, not to the end of its budget.                         *)
ReportsAreTrue ==
  /\ status = "0" /\ kind \in Receivers => file = count /\ byte = "ok"
  /\ status = "0" /\ kind \in Samplers => file = count /\ count > 0 /\ first = "TERM"
  /\ byte = "ok" => /\ kind = "sender" => count = Expected
                    /\ kind = "afxdp_recv" => first # "ALRM"

(* The records of a UDP receiver are never only in the memory of a dead    *)
(* process: they are in the staging file until they are in the output.     *)
(* Those of cpu_sample are on disk at once, however it ends.               *)
RecordsSurvive ==
  /\ TypeOK
  /\ kind = "cpu_sample" => file = count
  /\ kind = "receiver" /\ count > 0 => staging \/ file = count

(* A SIGTERM that reaches the program ends it, or its capture, in whatever *)
(* loop, call or wait it arrives: the supervisor gets its completion byte  *)
(* or end of file.  No wakeup is lost between the test of a flag and the   *)
(* call that sleeps.                                                       *)
StopIsReported == pc # "fork" /\ "TERM" \in pending ~> byte # "none"

(* A stop request and SIGUSR1, in any order of arrival, end the process; a *)
(* sampler needs the first only.                                           *)
ReleasedEnds == stop /\ (kind \in Samplers \/ "USR1" \in sent) ~> pc \in {"done", "killed"}
=============================================================================
