-------------------------- MODULE FlowBarrierProofs -------------------------
(***************************************************************************)
(* What a flow process or a sampler reports is true and what it recorded   *)
(* survives it, for a flow of any length, whatever signals arrive and      *)
(* whenever, and whatever fails (SavedAfterRelease, ReportsAreTrue and     *)
(* RecordsSurvive of FlowBarrier).                                         *)
(***************************************************************************)
EXTENDS FlowBarrier, TLAPS

-----------------------------------------------------------------------------
(* The inductive invariant.                                                *)

(* Signals come from the supervisor or the alarm; the flags say which have *)
(* been handled.                                                           *)
SignalInv ==
  /\ pending \subseteq sent
  /\ flush => "USR1" \in sent
  /\ stop => first # "none"
  /\ first \in {"none", "TERM", "ALRM"}
  /\ first = "ALRM" => "ALRM" \in sent
  /\ "ALRM" \in sent => kind = "afxdp_recv"
  /\ kind = "cpu_sample" => ~armed
  /\ kind # "cpu_sample" /\ ~armed => pc \in {"fork", "setup", "done", "killed"}

(* Where each program can be, and what it cannot have done before.         *)
ControlInv ==
  /\ status # "none" => pc = "done"
  /\ byte # "none" => pc \in {"flush", "save", "done", "killed"}
  /\ kind # "cpu_sample" /\ file # 0 => pc = "done"
  /\ pc \in {"fork", "setup"} => count = 0
  /\ pc = "start" => kind = "sender"
  /\ pc = "gate" => kind = "afxdp_recv"
  /\ pc = "full" => kind = "receiver"
  /\ kind = "phc_track" =>
       pc \in {"fork", "setup", "ready", "capture", "call", "blocked", "after",
               "save", "done", "killed"}
  /\ kind = "phc_track" /\ pc = "call" => count < Expected
  /\ kind = "cpu_sample" => pc \in {"fork", "setup", "ready", "blocked", "done", "killed"}
  /\ kind = "cpu_sample" /\ pc = "ready" => count = 0
  /\ kind = "cpu_sample" /\ pc = "blocked" => count < Expected

(* An AF_XDP receiver leaves its loop stopped or with an error; an error   *)
(* is remembered until the exit status.                                    *)
OutcomeInv ==
  /\ kind \in Receivers /\ drain # "off" => stop
  /\ kind = "afxdp_recv" =>
       /\ pc = "after" => errors \/ drain = "over"
       /\ pc = "report" => errors \/ (stop /\ first # "ALRM")
       /\ byte = "ok" => stop
  /\ kind \in Receivers /\ pc \in {"flush", "save"} => errors \/ byte = "ok"
  /\ kind \in Receivers /\ byte = "ok" /\ pc \in {"save", "done"} => "USR1" \in sent
  /\ kind = "phc_track" /\ pc = "save" => errors \/ (stop /\ count # 0)

(* The staging file is there from the setup on.                            *)
StagingInv ==
  kind = "receiver" /\ pc \notin {"fork", "setup", "done", "killed"} => staging

FInv ==
  /\ TypeOK /\ SignalInv /\ ControlInv /\ OutcomeInv /\ StagingInv
  /\ ReportsAreTrue /\ RecordsSurvive

-----------------------------------------------------------------------------
(* The invariant holds at first.                                           *)
LEMMA FInit == Init => FInv
<1> SUFFICES ASSUME Init PROVE FInv
  OBVIOUS
<1> USE DEF Init, Kinds, Receivers, Samplers, Signals, Waits
<1>1. count \in 0..Expected /\ file \in 0..count
  BY ExpectedAssumption
<1>2. {armed, stop, flush, busy, errors, staging, start} \subseteq BOOLEAN
  OBVIOUS
<1>3. TypeOK
  BY <1>1, <1>2 DEF TypeOK
<1>4. SignalInv /\ ControlInv /\ OutcomeInv /\ StagingInv
  BY DEF SignalInv, ControlInv, OutcomeInv, StagingInv
<1>5. ReportsAreTrue /\ RecordsSurvive
  BY <1>3 DEF ReportsAreTrue, RecordsSurvive
<1> QED
  BY <1>3, <1>4, <1>5 DEF FInv

(* Every step keeps it.                                                    *)
LEMMA FNext == FInv /\ [Next]_vars => FInv'
<1> SUFFICES ASSUME FInv, [Next]_vars PROVE FInv'
  OBVIOUS
<1> USE ExpectedAssumption
        DEF FInv, TypeOK, SignalInv, ControlInv, OutcomeInv, StagingInv, ReportsAreTrue,
            RecordsSurvive, Kinds, Receivers, Samplers, Signals, Waits,
            signalVars, superVars, resultVars
<1>1. CASE Exec
  BY <1>1 DEF Exec, Go
<1>2. CASE Setup
  <2>1. TypeOK'
    BY <1>2, ZenonT(40) DEF Setup, Go, Exit, Closed
  <2>2. SignalInv'
    BY <1>2 DEF Setup, Go, Exit, Closed
  <2>3. ControlInv'
    BY <1>2 DEF Setup, Go, Exit, Closed
  <2>4. OutcomeInv'
    BY <1>2 DEF Setup, Go, Exit, Closed
  <2>5. StagingInv'
    BY <1>2 DEF Setup, Go, Exit, Closed
  <2>6. ReportsAreTrue'
    BY <1>2 DEF Setup, Go, Exit, Closed
  <2>7. RecordsSurvive'
    BY <2>1, <1>2 DEF Setup, Go, Exit, Closed
  <2> QED
    BY <2>1, <2>2, <2>3, <2>4, <2>5, <2>6, <2>7
<1>3. CASE Ready
  <2>1. TypeOK'
    BY <1>3 DEF Ready, Go, Exit, EnterWait, WaitSignals
  <2>2. SignalInv'
    BY <1>3 DEF Ready, Go, Exit, EnterWait, WaitSignals
  <2>3. ControlInv'
    BY <1>3 DEF Ready, Go, Exit, EnterWait, WaitSignals
  <2>4. OutcomeInv'
    BY <1>3 DEF Ready, Go, Exit, EnterWait, WaitSignals
  <2>5. StagingInv'
    BY <1>3 DEF Ready, Go, Exit, EnterWait, WaitSignals
  <2>6. ReportsAreTrue'
    BY <1>3 DEF Ready, Go, Exit, EnterWait, WaitSignals
  <2>7. RecordsSurvive'
    BY <2>1, <1>3 DEF Ready, Go, Exit, EnterWait, WaitSignals
  <2> QED
    BY <2>1, <2>2, <2>3, <2>4, <2>5, <2>6, <2>7
<1>4. CASE StartFile
  <2>1. TypeOK'
    BY <1>4 DEF StartFile, Go
  <2>2. SignalInv'
    BY <1>4 DEF StartFile, Go
  <2>3. ControlInv'
    BY <1>4 DEF StartFile, Go
  <2>4. OutcomeInv'
    BY <1>4 DEF StartFile, Go
  <2>5. StagingInv'
    BY <1>4 DEF StartFile, Go
  <2>6. ReportsAreTrue'
    BY <1>4 DEF StartFile, Go
  <2>7. RecordsSurvive'
    BY <2>1, <1>4 DEF StartFile, Go
  <2> QED
    BY <2>1, <2>2, <2>3, <2>4, <2>5, <2>6, <2>7
<1>5. CASE LoopTest
  BY <1>5 DEF LoopTest, CaptureDone, Go
<1>6. CASE Call
  BY <1>6 DEF Call, Go
<1>7. CASE Timeout
  BY <1>7 DEF Timeout, Go
<1>8. CASE After
  BY <1>8 DEF After, Go, EnterWait, WaitSignals
<1>9. CASE Report
  <2>1. TypeOK'
    BY <1>9 DEF Report, Outcome, Go, EnterWait, WaitSignals
  <2>2. SignalInv'
    BY <1>9 DEF Report, Outcome, Go, EnterWait, WaitSignals
  <2>3. ControlInv'
    BY <1>9 DEF Report, Outcome, Go, EnterWait, WaitSignals
  <2>4. OutcomeInv'
    BY <1>9 DEF Report, Outcome, Go, EnterWait, WaitSignals
  <2>5. StagingInv'
    BY <1>9 DEF Report, Outcome, Go, EnterWait, WaitSignals
  <2>6. ReportsAreTrue'
    BY <1>9 DEF Report, Outcome, Go, EnterWait, WaitSignals
  <2>7. RecordsSurvive'
    BY <2>1, <1>9 DEF Report, Outcome, Go, EnterWait, WaitSignals
  <2> QED
    BY <2>1, <2>2, <2>3, <2>4, <2>5, <2>6, <2>7
<1>10. CASE Save
  BY <1>10 DEF Save, Go, Closed
<1>11. CASE Suspend
  <2>1. TypeOK'
    BY <1>11 DEF Suspend
  <2>2. SignalInv'
    BY <1>11 DEF Suspend
  <2>3. ControlInv'
    BY <1>11 DEF Suspend
  <2>4. OutcomeInv'
    BY <1>11 DEF Suspend
  <2>5. StagingInv'
    BY <1>11 DEF Suspend
  <2>6. ReportsAreTrue'
    BY <1>11 DEF Suspend
  <2>7. RecordsSurvive'
    BY <2>1, <1>11 DEF Suspend
  <2> QED
    BY <2>1, <2>2, <2>3, <2>4, <2>5, <2>6, <2>7
<1>12. CASE Observe
  <2>0. count' \in 0..Expected /\ file' \in 0..count'
    BY <1>12 DEF Observe, Go
  <2>1. TypeOK'
    BY <1>12, <2>0 DEF Observe, Go
  <2>2. SignalInv'
    BY <1>12 DEF Observe, Go
  <2>3. ControlInv'
    BY <1>12 DEF Observe, Go
  <2>4. OutcomeInv'
    BY <1>12 DEF Observe, Go
  <2>5. StagingInv'
    BY <1>12 DEF Observe, Go
  <2>6. ReportsAreTrue'
    BY <1>12 DEF Observe, Go
  <2>7. RecordsSurvive'
    BY <2>1, <1>12 DEF Observe, Go
  <2> QED
    BY <2>1, <2>2, <2>3, <2>4, <2>5, <2>6, <2>7
<1>13. CASE TrackOver
  BY <1>13 DEF TrackOver, Go
<1>14. CASE Block
  BY <1>14 DEF Block, Exit, Go, Closed
<1>15. CASE FirstSample
  <2>0. count' \in 0..Expected /\ file' \in 0..count'
    BY <1>15 DEF FirstSample, Sample, Go, Exit, Closed
  <2>1. TypeOK'
    BY <1>15, <2>0 DEF FirstSample, Sample, Go, Exit, Closed
  <2>2. SignalInv'
    BY <1>15 DEF FirstSample, Sample, Go, Exit, Closed
  <2>3. ControlInv'
    BY <1>15 DEF FirstSample, Sample, Go, Exit, Closed
  <2>4. OutcomeInv'
    BY <1>15 DEF FirstSample, Sample, Go, Exit, Closed
  <2>5. StagingInv'
    BY <1>15 DEF FirstSample, Sample, Go, Exit, Closed
  <2>6. ReportsAreTrue'
    BY <1>15 DEF FirstSample, Sample, Go, Exit, Closed
  <2>7. RecordsSurvive'
    BY <2>1, <1>15 DEF FirstSample, Sample, Go, Exit, Closed
  <2> QED
    BY <2>1, <2>2, <2>3, <2>4, <2>5, <2>6, <2>7
<1>16. CASE NextSample
  <2>0. count' \in 0..Expected /\ file' \in 0..count'
    BY <1>16 DEF NextSample, Sample, Go, Exit, Closed
  <2>1. TypeOK'
    BY <1>16, <2>0 DEF NextSample, Sample, Go, Exit, Closed
  <2>2. SignalInv'
    BY <1>16 DEF NextSample, Sample, Go, Exit, Closed
  <2>3. ControlInv'
    BY <1>16 DEF NextSample, Sample, Go, Exit, Closed
  <2>4. OutcomeInv'
    BY <1>16 DEF NextSample, Sample, Go, Exit, Closed
  <2>5. StagingInv'
    BY <1>16 DEF NextSample, Sample, Go, Exit, Closed
  <2>6. ReportsAreTrue'
    BY <1>16 DEF NextSample, Sample, Go, Exit, Closed
  <2>7. RecordsSurvive'
    BY <2>1, <1>16 DEF NextSample, Sample, Go, Exit, Closed
  <2> QED
    BY <2>1, <2>2, <2>3, <2>4, <2>5, <2>6, <2>7
<1>17. CASE LastSample
  <2>0. count' \in 0..Expected /\ file' \in 0..count'
    BY <1>17 DEF LastSample, Sample, Exit, Go, Closed
  <2>1. TypeOK'
    BY <1>17, <2>0 DEF LastSample, Sample, Exit, Go, Closed
  <2>2. SignalInv'
    BY <1>17 DEF LastSample, Sample, Exit, Go, Closed
  <2>3. ControlInv'
    BY <1>17 DEF LastSample, Sample, Exit, Go, Closed
  <2>4. OutcomeInv'
    BY <1>17 DEF LastSample, Sample, Exit, Go, Closed
  <2>5. StagingInv'
    BY <1>17 DEF LastSample, Sample, Exit, Go, Closed
  <2>6. ReportsAreTrue'
    BY <1>17 DEF LastSample, Sample, Exit, Go, Closed
  <2>7. RecordsSurvive'
    BY <2>1, <1>17 DEF LastSample, Sample, Exit, Go, Closed
  <2> QED
    BY <2>1, <2>2, <2>3, <2>4, <2>5, <2>6, <2>7
<1>18. CASE TestWait(CASE pc = "gate" -> "capture" [] pc = "full" -> "report" [] OTHER -> "save")
  <2>1. TypeOK'
    BY <1>18, ZenonT(40) DEF TestWait, Released, WaitSignals
  <2>2. SignalInv'
    BY <1>18 DEF TestWait, Released, WaitSignals
  <2>3. ControlInv'
    BY <1>18 DEF TestWait, Released, WaitSignals
  <2>4. OutcomeInv'
    BY <1>18 DEF TestWait, Released, WaitSignals
  <2>5. StagingInv'
    BY <1>18 DEF TestWait, Released, WaitSignals
  <2>6. ReportsAreTrue'
    BY <1>18 DEF TestWait, Released, WaitSignals
  <2>7. RecordsSurvive'
    BY <2>1, <1>18 DEF TestWait, Released, WaitSignals
  <2> QED
    BY <2>1, <2>2, <2>3, <2>4, <2>5, <2>6, <2>7
<1>19. CASE Packet
  <2>0. count' \in 0..Expected /\ file' \in 0..count'
    BY <1>19 DEF Packet, Go
  <2>1. TypeOK'
    BY <1>19, <2>0 DEF Packet, Go
  <2>2. SignalInv'
    BY <1>19 DEF Packet, Go
  <2>3. ControlInv'
    BY <1>19 DEF Packet, Go
  <2>4. OutcomeInv'
    BY <1>19 DEF Packet, Go
  <2>5. StagingInv'
    BY <1>19 DEF Packet, Go
  <2>6. ReportsAreTrue'
    BY <1>19 DEF Packet, Go
  <2>7. RecordsSurvive'
    BY <2>1, <1>19 DEF Packet, Go
  <2> QED
    BY <2>1, <2>2, <2>3, <2>4, <2>5, <2>6, <2>7
<1>20. CASE CaptureError
  BY <1>20 DEF CaptureError, Go
<1>21. CASE DrainOver
  BY <1>21 DEF DrainOver
<1>22. CASE Alarm
  BY <1>22, SMTT(20) DEF Alarm, SendSignal
<1>23. CASE SendBusy
  BY <1>23, SMTT(20) DEF SendBusy, SendSignal
<1>24. CASE SendStop
  BY <1>24 DEF SendStop, SendSignal
<1>25. CASE SendFlush
  BY <1>25 DEF SendFlush, SendSignal
<1>26. CASE LinkStart
  BY <1>26 DEF LinkStart
<1>27. CASE Kill
  BY <1>27 DEF Kill, Closed
<1>28. CASE RemoveStaging
  <2>1. TypeOK'
    BY <1>28 DEF RemoveStaging
  <2>2. SignalInv'
    BY <1>28 DEF RemoveStaging
  <2>3. ControlInv'
    BY <1>28 DEF RemoveStaging
  <2>4. OutcomeInv'
    BY <1>28 DEF RemoveStaging
  <2>5. StagingInv'
    BY <1>28 DEF RemoveStaging
  <2>6. ReportsAreTrue'
    BY <1>28 DEF RemoveStaging
  <2>7. RecordsSurvive'
    BY <2>1, <1>28 DEF RemoveStaging
  <2> QED
    BY <2>1, <2>2, <2>3, <2>4, <2>5, <2>6, <2>7
<1>29. CASE \E s \in Signals : Handle(s)
  <2> PICK s \in Signals : Handle(s)
    BY <1>29
  <2>1. TypeOK'
    <3>1. {armed, stop, flush, busy, errors, staging, start}' \subseteq BOOLEAN
      BY DEF Handle
    <3>2. pending' \subseteq Signals /\ blocked' \subseteq Signals
      BY DEF Handle, WaitSignals
    <3>3. /\ pc' \in {pc, "killed", "capture"} /\ first' \in Signals \cup {"none"}
          /\ byte' \in {"none", "ok", "error", "eof"}
      BY DEF Handle, Closed
    <3>4. wait' \in {"none", "test", "sleep", "suspended"} /\ (wait' # "none" <=> pc' \in Waits)
      BY DEF Handle
    <3> QED
      BY <3>1, <3>2, <3>3, <3>4 DEF Handle
  <2>2. SignalInv'
    BY DEF Handle
  <2>3. ControlInv'
    BY DEF Handle, Closed
  <2>4. OutcomeInv'
    BY DEF Handle, Closed
  <2>5. StagingInv'
    BY DEF Handle
  <2>6. ReportsAreTrue'
    BY DEF Handle, Closed
  <2>7. RecordsSurvive'
    BY <2>1 DEF Handle
  <2> QED
    BY <2>1, <2>2, <2>3, <2>4, <2>5, <2>6, <2>7
<1>30. CASE UNCHANGED vars
  BY <1>30, SMTT(20) DEF vars
<1> QED
  BY <1>1, <1>2, <1>3, <1>4, <1>5, <1>6, <1>7, <1>8, <1>9, <1>10, <1>11, <1>12, <1>13, <1>14, <1>15, <1>16, <1>17, <1>18, <1>19, <1>20, <1>21, <1>22, <1>23, <1>24, <1>25, <1>26, <1>27, <1>28, <1>29, <1>30 DEF Next, Step, Supervisor

(* The inductive invariant holds.                                          *)
LEMMA FInvariant == Spec => []FInv
BY FInit, FNext, PTL DEF Spec

-----------------------------------------------------------------------------
(* Exit status 0 and a good completion byte are true of every sender,      *)
(* receiver and sampler, for a flow of any length (ReportsAreTrue).        *)
THEOREM Reports == Spec => []ReportsAreTrue
<1>1. FInv => ReportsAreTrue
  BY DEF FInv
<1> QED
  BY <1>1, FInvariant, PTL

(* No record of a UDP receiver or of cpu_sample is only in the memory of a *)
(* process that has ended (RecordsSurvive).                                *)
THEOREM Records == Spec => []RecordsSurvive
<1>1. FInv => RecordsSurvive
  BY DEF FInv
<1> QED
  BY <1>1, FInvariant, PTL

(* A receiver that reported success writes nothing before SIGUSR1 was sent *)
(* to it (SavedAfterRelease).                                              *)
THEOREM Barrier == Spec => []SavedAfterRelease
<1>1. FInv => SavedAfterRelease
  BY DEF FInv, TypeOK, ControlInv, OutcomeInv, SavedAfterRelease, Receivers
<1> QED
  BY <1>1, FInvariant, PTL
=============================================================================
