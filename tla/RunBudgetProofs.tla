--------------------------- MODULE RunBudgetProofs --------------------------
(***************************************************************************)
(* The loads of a run outlast it, for every configuration that             *)
(* read_run_config accepts and however long the waits take (LoadsOutlive). *)
(* The invariant behind it: a load that runs has run no longer than the    *)
(* limits of the steps since its start allow, and the limits of the other  *)
(* end bound how late a frame can be.                                      *)
(***************************************************************************)
EXTENDS RunBudget, TLAPS

(* Zenon writes a number as so many successors of 0: the SMT solver alone. *)
USE SMTT(60)

-----------------------------------------------------------------------------
(* The longest a step may take, and the steps' order.                      *)

sending == c.duration_ms + c.start_delay_ms
CalTime == If(calibrating, ready + Poll)
TailTime == If(tracking, 150)
ClockTime == If(tracking, stop + Poll)

RxNext(l) ==
  CASE l = "previous" -> "restore"
    [] l = "restore" -> "begin"
    [] l = "begin" -> "prepare"
    [] l = "prepare" -> "track"
    [] l = "track" -> "scheduler"
    [] l = "scheduler" -> "monitor"
    [] l = "monitor" -> "rx_ready"
    [] l = "rx_ready" -> "tx_ready"
    [] l = "tx_ready" -> "warmup"
    [] l = "warmup" -> "calibrate"
    [] l = "calibrate" -> "gate"
    [] l = "gate" -> "start"
    [] l = "start" -> "started"
    [] l = "started" -> "stop"
    [] l = "stop" -> "settle"
    [] l = "settle" -> "completions"
    [] l = "completions" -> "flush1"
    [] l = "flush1" -> "flush2"
    [] l = "flush2" -> "flush3"
    [] l = "flush3" -> "tail"
    [] l = "tail" -> "clock"
    [] l = "clock" -> "after"
    [] l = "after" -> "done"
    [] l = "done" -> "ack"
    [] l = "ack" -> "stop_monitor"
    [] l = "stop_monitor" -> "end"

(* What a receiver has used up when it comes to a step, counted from where *)
(* clock tracking starts.                                                  *)
RxMid == 5 * ready + 3 * Poll + c.warmup_ms
RxRun == RxMid + CalTime + WriteTime + 3 * ready + sending + c.settle_ms
RxLast == RxRun + 4 * stop + 3 * Poll

RxDue ==
  [l \in RxSteps |->
     CASE l = "track" -> 0
       [] l = "scheduler" -> ready + Poll
       [] l = "monitor" -> 2 * ready + 2 * Poll
       [] l = "rx_ready" -> 3 * ready + 3 * Poll
       [] l = "tx_ready" -> 4 * ready + 3 * Poll
       [] l = "warmup" -> 5 * ready + 3 * Poll
       [] l = "calibrate" -> RxMid
       [] l = "gate" -> RxMid + CalTime
       [] l = "start" -> RxMid + CalTime + WriteTime
       [] l = "started" -> RxMid + CalTime + WriteTime + ready
       [] l = "stop" -> RxMid + CalTime + WriteTime + 2 * ready
       [] l = "settle" -> RxRun - c.settle_ms
       [] l = "completions" -> RxRun
       [] l = "flush1" -> RxRun + stop
       [] l = "flush2" -> RxRun + 2 * stop + Poll
       [] l = "flush3" -> RxRun + 3 * stop + 2 * Poll
       [] l = "tail" -> RxLast
       [] l = "clock" -> RxLast + TailTime
       [] l = "after" -> RxLast + TailTime + ClockTime
       [] l = "done" -> RxLast + TailTime + ClockTime + CalTime
       [] l = "ack" -> RxLast + TailTime + ClockTime + CalTime + stop
       [] l = "stop_monitor" -> RxLast + TailTime + ClockTime + CalTime + 2 * stop
       [] OTHER -> 0]

TxNext(l) ==
  CASE l = "begin" -> "prepare"
    [] l = "prepare" -> "rx_ready"
    [] l = "rx_ready" -> "state"
    [] l = "state" -> "senders"
    [] l = "senders" -> "network"
    [] l = "network" -> "tx_ready"
    [] l = "tx_ready" -> "start"
    [] l = "start" -> "publish"
    [] l = "publish" -> "started"
    [] l = "started" -> "sending"
    [] l = "sending" -> "stop"
    [] l = "stop" -> "done"
    [] l = "done" -> "flush1"
    [] l = "flush1" -> "flush2"
    [] l = "flush2" -> "flush3"
    [] l = "flush3" -> "stop_network"
    [] l = "stop_network" -> "after"
    [] l = "after" -> "write"
    [] l = "write" -> "ack"
    [] l = "ack" -> "end"

(* The same for a sender, from where the network load starts.              *)
TxRun == 100 + 2 * ready + c.warmup_ms + WriteTime
TxLast == TxRun + 2 * ready + sending + 4 * stop + c.settle_ms + c.drain_ms

TxDue ==
  [l \in TxSteps |->
     CASE l = "network" -> 0
       [] l = "tx_ready" -> 100
       [] l = "start" -> 100 + ready
       [] l = "publish" -> TxRun - WriteTime
       [] l = "started" -> TxRun
       [] l = "sending" -> TxRun + ready
       [] l = "stop" -> TxRun + 2 * ready + sending
       [] l = "done" -> TxRun + 2 * ready + sending + stop
       [] l = "flush1" -> TxLast
       [] l = "flush2" -> TxLast + stop + Poll
       [] l = "flush3" -> TxLast + 2 * (stop + Poll)
       [] l = "stop_network" -> TxLast + 3 * (stop + Poll)
       [] OTHER -> 0]

NextStep(s, l) == IF s = "rx" THEN RxNext(l) ELSE TxNext(l)
Due(s) == IF s = "rx" THEN RxDue ELSE TxDue
Steps(s) == IF s = "rx" THEN RxSteps ELSE TxSteps

(* The steps during which a load runs.                                     *)
Loads == {"monitor", "network", "track"}
LiveSteps(k) ==
  CASE k = "network" -> {"network", "tx_ready", "start", "publish", "started",
                         "sending", "stop", "done", "flush1", "flush2", "flush3",
                         "stop_network"}
    [] k = "track" -> {"track", "scheduler", "monitor", "rx_ready", "tx_ready",
                       "warmup", "calibrate", "gate", "start", "started", "stop",
                       "settle", "completions", "flush1", "flush2", "flush3",
                       "tail", "clock"}
    [] OTHER -> {"monitor", "rx_ready", "tx_ready", "warmup", "calibrate", "gate",
                 "start", "started", "stop", "settle", "completions", "flush1",
                 "flush2", "flush3", "tail", "clock", "after", "done", "ack",
                 "stop_monitor"}

(* A load that runs has run no longer than the steps since its start may   *)
(* take.                                                                   *)
Within(k) ==
  since[k] # Never =>
    /\ Uses(k)
    /\ pc[Owner(k)] \in LiveSteps(k) \cup {"end", "failed"}
    /\ pc[Owner(k)] \in LiveSteps(k) =>
         t[Owner(k)] + Due(Owner(k))[StartStep(k)]
           <= since[k] + Due(Owner(k))[pc[Owner(k)]]

(* The inductive invariant.                                                *)
BInv ==
  /\ TypeOK
  /\ pc["rx"] \in RxSteps \cup {"end", "failed"}
  /\ pc["tx"] \in TxSteps \cup {"end", "failed"}
  /\ LoadsOutlive
  /\ \A k \in Loads : Within(k)

-----------------------------------------------------------------------------
(* Arithmetic.                                                             *)

(* The times of an accepted configuration.                                 *)
LEMMA ConfigTimes ==
  ASSUME TypeOK
  PROVE  /\ c.duration_ms \in Nat /\ c.warmup_ms \in Nat /\ c.start_delay_ms \in Nat
         /\ c.drain_ms \in Nat /\ c.settle_ms \in Nat
         /\ ready \in Nat /\ ready >= 100 /\ stop \in Nat /\ stop >= 100
         /\ Poll = 10 /\ WriteTime \in Nat /\ WriteTime <= 4000 /\ Never = -1
<1>1. TimesInRange(c)
  BY DEF TypeOK, Accepted
<1> QED
  BY <1>1, WriteAssumption DEF TimesInRange, number, ready, stop, Poll, Never

(* A second rounded up.                                                    *)
LEMMA Ceil ==
  ASSUME NEW ms \in Nat
  PROVE  CeilSeconds(ms) \in Nat /\ 1000 * CeilSeconds(ms) >= ms
BY DEF CeilSeconds

(* The lifetime in milliseconds.                                           *)
LEMMA LifetimeIs ==
  ASSUME TypeOK, NEW k \in Loads
  PROVE  /\ Lifetime(k) \in Nat
         /\ Lifetime(k) >= sending + c.warmup_ms + c.settle_ms + c.drain_ms
                           + 8 * ready + 8 * stop + 5000
<1> DEFINE ms == c.duration_ms + c.warmup_ms + c.start_delay_ms + c.settle_ms
                 + c.drain_ms + 8 * c.ready_ms + 8 * c.stop_ms
<1>1. ms \in Nat /\ ms = sending + c.warmup_ms + c.settle_ms + c.drain_ms + 8 * ready + 8 * stop
  BY ConfigTimes DEF ready, stop, sending
<1>2. CeilSeconds(ms) \in Nat /\ 1000 * CeilSeconds(ms) >= ms
  BY <1>1, Ceil
<1>3. Lifetime(k) = 1000 * (CeilSeconds(ms) + 5)
  BY DEF Lifetime, Loads, load_lifetime_seconds
<1> HIDE DEF ms
<1> QED
  BY <1>1, <1>2, <1>3

(* The terms that depend on how clocks are compared.                       *)
LEMMA Terms ==
  ASSUME TypeOK
  PROVE  /\ CalTime \in Nat /\ TailTime \in Nat /\ ClockTime \in Nat
         /\ 2 * CalTime + TailTime + ClockTime <= 2 * ready + stop + 200
         /\ TailTime <= 150
         /\ tracking => CalTime = 0
         /\ sending \in Nat
BY ConfigTimes DEF CalTime, TailTime, ClockTime, If, calibrating, tracking, sending

LEMMA Marks ==
  ASSUME TypeOK
  PROVE  /\ RxMid \in Nat /\ RxRun \in Nat /\ RxLast \in Nat /\ RxRun >= c.settle_ms
         /\ TxRun \in Nat /\ TxLast \in Nat /\ TxRun >= WriteTime
BY ConfigTimes, Terms DEF RxMid, RxRun, RxLast, TxRun, TxLast

-----------------------------------------------------------------------------
(* The steps of a script come one after the other.                         *)

LEMMA NextSteps ==
  /\ \A l \in RxSteps : RxNext(l) \in RxSteps \cup {"end"}
  /\ \A l \in TxSteps : TxNext(l) \in TxSteps \cup {"end"}
BY DEF RxSteps, TxSteps, RxNext, TxNext

(* What the sums are.                                                      *)
LEMMA RxSums ==
  /\ RxDue["track"] = 0
  /\ RxDue["scheduler"] = ready + Poll
  /\ RxDue["monitor"] = 2 * ready + 2 * Poll
  /\ RxDue["rx_ready"] = 3 * ready + 3 * Poll
  /\ RxDue["tx_ready"] = 4 * ready + 3 * Poll
  /\ RxDue["warmup"] = 5 * ready + 3 * Poll
  /\ RxDue["calibrate"] = RxMid
  /\ RxDue["gate"] = RxMid + CalTime
  /\ RxDue["start"] = RxMid + CalTime + WriteTime
  /\ RxDue["started"] = RxMid + CalTime + WriteTime + ready
  /\ RxDue["stop"] = RxMid + CalTime + WriteTime + 2 * ready
  /\ RxDue["settle"] = RxRun - c.settle_ms
  /\ RxDue["completions"] = RxRun
  /\ RxDue["flush1"] = RxRun + stop
  /\ RxDue["flush2"] = RxRun + 2 * stop + Poll
  /\ RxDue["flush3"] = RxRun + 3 * stop + 2 * Poll
  /\ RxDue["tail"] = RxLast
  /\ RxDue["clock"] = RxLast + TailTime
  /\ RxDue["after"] = RxLast + TailTime + ClockTime
  /\ RxDue["done"] = RxLast + TailTime + ClockTime + CalTime
  /\ RxDue["ack"] = RxLast + TailTime + ClockTime + CalTime + stop
  /\ RxDue["stop_monitor"] = RxLast + TailTime + ClockTime + CalTime + 2 * stop
<1>1. RxDue["track"] = 0
  BY DEF RxDue, RxSteps
<1>2. RxDue["scheduler"] = ready + Poll
  BY DEF RxDue, RxSteps
<1>3. RxDue["monitor"] = 2 * ready + 2 * Poll
  BY DEF RxDue, RxSteps
<1>4. RxDue["rx_ready"] = 3 * ready + 3 * Poll
  BY DEF RxDue, RxSteps
<1>5. RxDue["tx_ready"] = 4 * ready + 3 * Poll
  BY DEF RxDue, RxSteps
<1>6. RxDue["warmup"] = 5 * ready + 3 * Poll
  BY DEF RxDue, RxSteps
<1>7. RxDue["calibrate"] = RxMid
  BY DEF RxDue, RxSteps
<1>8. RxDue["gate"] = RxMid + CalTime
  BY DEF RxDue, RxSteps
<1>9. RxDue["start"] = RxMid + CalTime + WriteTime
  BY DEF RxDue, RxSteps
<1>10. RxDue["started"] = RxMid + CalTime + WriteTime + ready
  BY DEF RxDue, RxSteps
<1>11. RxDue["stop"] = RxMid + CalTime + WriteTime + 2 * ready
  BY DEF RxDue, RxSteps
<1>12. RxDue["settle"] = RxRun - c.settle_ms
  BY DEF RxDue, RxSteps
<1>13. RxDue["completions"] = RxRun
  BY DEF RxDue, RxSteps
<1>14. RxDue["flush1"] = RxRun + stop
  BY DEF RxDue, RxSteps
<1>15. RxDue["flush2"] = RxRun + 2 * stop + Poll
  BY DEF RxDue, RxSteps
<1>16. RxDue["flush3"] = RxRun + 3 * stop + 2 * Poll
  BY DEF RxDue, RxSteps
<1>17. RxDue["tail"] = RxLast
  BY DEF RxDue, RxSteps
<1>18. RxDue["clock"] = RxLast + TailTime
  BY DEF RxDue, RxSteps
<1>19. RxDue["after"] = RxLast + TailTime + ClockTime
  BY DEF RxDue, RxSteps
<1>20. RxDue["done"] = RxLast + TailTime + ClockTime + CalTime
  BY DEF RxDue, RxSteps
<1>21. RxDue["ack"] = RxLast + TailTime + ClockTime + CalTime + stop
  BY DEF RxDue, RxSteps
<1>22. RxDue["stop_monitor"] = RxLast + TailTime + ClockTime + CalTime + 2 * stop
  BY DEF RxDue, RxSteps
<1> QED
  BY <1>1, <1>2, <1>3, <1>4, <1>5, <1>6, <1>7, <1>8, <1>9, <1>10, <1>11, <1>12,
     <1>13, <1>14, <1>15, <1>16, <1>17, <1>18, <1>19, <1>20, <1>21, <1>22

LEMMA TxSums ==
  /\ TxDue["network"] = 0
  /\ TxDue["tx_ready"] = 100
  /\ TxDue["start"] = 100 + ready
  /\ TxDue["publish"] = TxRun - WriteTime
  /\ TxDue["started"] = TxRun
  /\ TxDue["sending"] = TxRun + ready
  /\ TxDue["stop"] = TxRun + 2 * ready + sending
  /\ TxDue["done"] = TxRun + 2 * ready + sending + stop
  /\ TxDue["flush1"] = TxLast
  /\ TxDue["flush2"] = TxLast + stop + Poll
  /\ TxDue["flush3"] = TxLast + 2 * (stop + Poll)
  /\ TxDue["stop_network"] = TxLast + 3 * (stop + Poll)
<1>1. TxDue["network"] = 0
  BY DEF TxDue, TxSteps
<1>2. TxDue["tx_ready"] = 100
  BY DEF TxDue, TxSteps
<1>3. TxDue["start"] = 100 + ready
  BY DEF TxDue, TxSteps
<1>4. TxDue["publish"] = TxRun - WriteTime
  BY DEF TxDue, TxSteps
<1>5. TxDue["started"] = TxRun
  BY DEF TxDue, TxSteps
<1>6. TxDue["sending"] = TxRun + ready
  BY DEF TxDue, TxSteps
<1>7. TxDue["stop"] = TxRun + 2 * ready + sending
  BY DEF TxDue, TxSteps
<1>8. TxDue["done"] = TxRun + 2 * ready + sending + stop
  BY DEF TxDue, TxSteps
<1>9. TxDue["flush1"] = TxLast
  BY DEF TxDue, TxSteps
<1>10. TxDue["flush2"] = TxLast + stop + Poll
  BY DEF TxDue, TxSteps
<1>11. TxDue["flush3"] = TxLast + 2 * (stop + Poll)
  BY DEF TxDue, TxSteps
<1>12. TxDue["stop_network"] = TxLast + 3 * (stop + Poll)
  BY DEF TxDue, TxSteps
<1> QED
  BY <1>1, <1>2, <1>3, <1>4, <1>5, <1>6, <1>7, <1>8, <1>9, <1>10, <1>11, <1>12

(* One step follows another.                                               *)
Follows(s, from, to) == from \in Steps(s) /\ to = NextStep(s, from)

LEMMA RxOrder ==
  /\ Follows("rx", "previous", "restore")
  /\ Follows("rx", "restore", "begin")
  /\ Follows("rx", "begin", "prepare")
  /\ Follows("rx", "prepare", "track")
  /\ Follows("rx", "track", "scheduler")
  /\ Follows("rx", "scheduler", "monitor")
  /\ Follows("rx", "monitor", "rx_ready")
  /\ Follows("rx", "rx_ready", "tx_ready")
  /\ Follows("rx", "tx_ready", "warmup")
  /\ Follows("rx", "warmup", "calibrate")
  /\ Follows("rx", "calibrate", "gate")
  /\ Follows("rx", "gate", "start")
  /\ Follows("rx", "start", "started")
  /\ Follows("rx", "started", "stop")
  /\ Follows("rx", "stop", "settle")
  /\ Follows("rx", "settle", "completions")
  /\ Follows("rx", "completions", "flush1")
  /\ Follows("rx", "flush1", "flush2")
  /\ Follows("rx", "flush2", "flush3")
  /\ Follows("rx", "flush3", "tail")
  /\ Follows("rx", "tail", "clock")
  /\ Follows("rx", "clock", "after")
  /\ Follows("rx", "after", "done")
  /\ Follows("rx", "done", "ack")
  /\ Follows("rx", "ack", "stop_monitor")
  /\ Follows("rx", "stop_monitor", "end")
<1>1. Follows("rx", "previous", "restore")
  BY DEF Follows, Steps, NextStep, RxSteps, RxNext
<1>2. Follows("rx", "restore", "begin")
  BY DEF Follows, Steps, NextStep, RxSteps, RxNext
<1>3. Follows("rx", "begin", "prepare")
  BY DEF Follows, Steps, NextStep, RxSteps, RxNext
<1>4. Follows("rx", "prepare", "track")
  BY DEF Follows, Steps, NextStep, RxSteps, RxNext
<1>5. Follows("rx", "track", "scheduler")
  BY DEF Follows, Steps, NextStep, RxSteps, RxNext
<1>6. Follows("rx", "scheduler", "monitor")
  BY DEF Follows, Steps, NextStep, RxSteps, RxNext
<1>7. Follows("rx", "monitor", "rx_ready")
  BY DEF Follows, Steps, NextStep, RxSteps, RxNext
<1>8. Follows("rx", "rx_ready", "tx_ready")
  BY DEF Follows, Steps, NextStep, RxSteps, RxNext
<1>9. Follows("rx", "tx_ready", "warmup")
  BY DEF Follows, Steps, NextStep, RxSteps, RxNext
<1>10. Follows("rx", "warmup", "calibrate")
  BY DEF Follows, Steps, NextStep, RxSteps, RxNext
<1>11. Follows("rx", "calibrate", "gate")
  BY DEF Follows, Steps, NextStep, RxSteps, RxNext
<1>12. Follows("rx", "gate", "start")
  BY DEF Follows, Steps, NextStep, RxSteps, RxNext
<1>13. Follows("rx", "start", "started")
  BY DEF Follows, Steps, NextStep, RxSteps, RxNext
<1>14. Follows("rx", "started", "stop")
  BY DEF Follows, Steps, NextStep, RxSteps, RxNext
<1>15. Follows("rx", "stop", "settle")
  BY DEF Follows, Steps, NextStep, RxSteps, RxNext
<1>16. Follows("rx", "settle", "completions")
  BY DEF Follows, Steps, NextStep, RxSteps, RxNext
<1>17. Follows("rx", "completions", "flush1")
  BY DEF Follows, Steps, NextStep, RxSteps, RxNext
<1>18. Follows("rx", "flush1", "flush2")
  BY DEF Follows, Steps, NextStep, RxSteps, RxNext
<1>19. Follows("rx", "flush2", "flush3")
  BY DEF Follows, Steps, NextStep, RxSteps, RxNext
<1>20. Follows("rx", "flush3", "tail")
  BY DEF Follows, Steps, NextStep, RxSteps, RxNext
<1>21. Follows("rx", "tail", "clock")
  BY DEF Follows, Steps, NextStep, RxSteps, RxNext
<1>22. Follows("rx", "clock", "after")
  BY DEF Follows, Steps, NextStep, RxSteps, RxNext
<1>23. Follows("rx", "after", "done")
  BY DEF Follows, Steps, NextStep, RxSteps, RxNext
<1>24. Follows("rx", "done", "ack")
  BY DEF Follows, Steps, NextStep, RxSteps, RxNext
<1>25. Follows("rx", "ack", "stop_monitor")
  BY DEF Follows, Steps, NextStep, RxSteps, RxNext
<1>26. Follows("rx", "stop_monitor", "end")
  BY DEF Follows, Steps, NextStep, RxSteps, RxNext
<1> QED
  BY <1>1, <1>2, <1>3, <1>4, <1>5, <1>6, <1>7, <1>8, <1>9, <1>10, <1>11, <1>12, <1>13,
     <1>14, <1>15, <1>16, <1>17, <1>18, <1>19, <1>20, <1>21, <1>22, <1>23, <1>24, <1>25, <1>26

LEMMA TxOrder ==
  /\ Follows("tx", "begin", "prepare")
  /\ Follows("tx", "prepare", "rx_ready")
  /\ Follows("tx", "rx_ready", "state")
  /\ Follows("tx", "state", "senders")
  /\ Follows("tx", "senders", "network")
  /\ Follows("tx", "network", "tx_ready")
  /\ Follows("tx", "tx_ready", "start")
  /\ Follows("tx", "start", "publish")
  /\ Follows("tx", "publish", "started")
  /\ Follows("tx", "started", "sending")
  /\ Follows("tx", "sending", "stop")
  /\ Follows("tx", "stop", "done")
  /\ Follows("tx", "done", "flush1")
  /\ Follows("tx", "flush1", "flush2")
  /\ Follows("tx", "flush2", "flush3")
  /\ Follows("tx", "flush3", "stop_network")
  /\ Follows("tx", "stop_network", "after")
  /\ Follows("tx", "after", "write")
  /\ Follows("tx", "write", "ack")
  /\ Follows("tx", "ack", "end")
<1>1. Follows("tx", "begin", "prepare")
  BY DEF Follows, Steps, NextStep, TxSteps, TxNext
<1>2. Follows("tx", "prepare", "rx_ready")
  BY DEF Follows, Steps, NextStep, TxSteps, TxNext
<1>3. Follows("tx", "rx_ready", "state")
  BY DEF Follows, Steps, NextStep, TxSteps, TxNext
<1>4. Follows("tx", "state", "senders")
  BY DEF Follows, Steps, NextStep, TxSteps, TxNext
<1>5. Follows("tx", "senders", "network")
  BY DEF Follows, Steps, NextStep, TxSteps, TxNext
<1>6. Follows("tx", "network", "tx_ready")
  BY DEF Follows, Steps, NextStep, TxSteps, TxNext
<1>7. Follows("tx", "tx_ready", "start")
  BY DEF Follows, Steps, NextStep, TxSteps, TxNext
<1>8. Follows("tx", "start", "publish")
  BY DEF Follows, Steps, NextStep, TxSteps, TxNext
<1>9. Follows("tx", "publish", "started")
  BY DEF Follows, Steps, NextStep, TxSteps, TxNext
<1>10. Follows("tx", "started", "sending")
  BY DEF Follows, Steps, NextStep, TxSteps, TxNext
<1>11. Follows("tx", "sending", "stop")
  BY DEF Follows, Steps, NextStep, TxSteps, TxNext
<1>12. Follows("tx", "stop", "done")
  BY DEF Follows, Steps, NextStep, TxSteps, TxNext
<1>13. Follows("tx", "done", "flush1")
  BY DEF Follows, Steps, NextStep, TxSteps, TxNext
<1>14. Follows("tx", "flush1", "flush2")
  BY DEF Follows, Steps, NextStep, TxSteps, TxNext
<1>15. Follows("tx", "flush2", "flush3")
  BY DEF Follows, Steps, NextStep, TxSteps, TxNext
<1>16. Follows("tx", "flush3", "stop_network")
  BY DEF Follows, Steps, NextStep, TxSteps, TxNext
<1>17. Follows("tx", "stop_network", "after")
  BY DEF Follows, Steps, NextStep, TxSteps, TxNext
<1>18. Follows("tx", "after", "write")
  BY DEF Follows, Steps, NextStep, TxSteps, TxNext
<1>19. Follows("tx", "write", "ack")
  BY DEF Follows, Steps, NextStep, TxSteps, TxNext
<1>20. Follows("tx", "ack", "end")
  BY DEF Follows, Steps, NextStep, TxSteps, TxNext
<1> QED
  BY <1>1, <1>2, <1>3, <1>4, <1>5, <1>6, <1>7, <1>8, <1>9, <1>10, <1>11, <1>12, <1>13,
     <1>14, <1>15, <1>16, <1>17, <1>18, <1>19, <1>20

(* While a load runs, the next step is one of those with the load.         *)
LEMMA LiveNext ==
  ASSUME NEW k \in Loads, NEW l \in Steps(Owner(k)),
         LET next == NextStep(Owner(k), l) IN
           \/ l \in LiveSteps(k) \ {StopStep(k)} /\ next \notin LiveSteps(k)
           \/ l \notin LiveSteps(k) /\ next \in LiveSteps(k) /\ next # StartStep(k)
           \/ l = StopStep(k) /\ next \in LiveSteps(k)
  PROVE  FALSE
<1>1. CASE k = "monitor"
  BY <1>1, RxOrder DEF LiveSteps, Owner, Steps, StartStep, StopStep, RxSteps, Follows
<1>2. CASE k = "track"
  BY <1>2, RxOrder DEF LiveSteps, Owner, Steps, StartStep, StopStep, RxSteps, Follows
<1>3. CASE k = "network"
  BY <1>3, TxOrder DEF LiveSteps, Owner, Steps, StartStep, StopStep, TxSteps, Follows
<1> QED
  BY <1>1, <1>2, <1>3 DEF Loads

(* The sums are numbers.                                                   *)
LEMMA DueType ==
  ASSUME TypeOK, NEW k \in Loads, NEW l \in LiveSteps(k)
  PROVE  Due(Owner(k))[l] \in Nat /\ Due(Owner(k))[l] <= Due(Owner(k))[StopStep(k)]
<1>1. CalTime \in Nat /\ TailTime \in Nat /\ ClockTime \in Nat /\ sending \in Nat
  BY Terms
<1>2. CASE k = "network"
  BY <1>1, <1>2, TxSums, ConfigTimes, Marks DEF TxRun, TxLast, Due, Owner, LiveSteps, StopStep
<1>3. CASE k = "monitor"
  BY <1>1, <1>3, RxSums, ConfigTimes, Marks DEF RxMid, RxRun, RxLast, Due, Owner, LiveSteps, StopStep
<1>4. CASE k = "track"
  BY <1>1, <1>4, RxSums, ConfigTimes, Marks DEF RxMid, RxRun, RxLast, Due, Owner, LiveSteps, StopStep
<1> QED
  BY <1>2, <1>3, <1>4 DEF Loads

(* They grow.                                                              *)
LEMMA DueGrows ==
  ASSUME TypeOK, NEW k \in Loads, NEW l \in LiveSteps(k) \ {StopStep(k)}
  PROVE  Due(Owner(k))[l] + 0 <= Due(Owner(k))[NextStep(Owner(k), l)]
<1>1. CalTime \in Nat /\ TailTime \in Nat /\ ClockTime \in Nat /\ sending \in Nat
  BY Terms
<1>2. CASE k = "network"
  BY <1>1, <1>2, TxSums, TxOrder, ConfigTimes, Marks DEF TxRun, TxLast, Due, Owner, LiveSteps, StopStep, Follows
<1>3. CASE k = "monitor"
  BY <1>1, <1>3, RxSums, RxOrder, ConfigTimes, Marks
  DEF RxMid, RxRun, RxLast, Due, Owner, LiveSteps, StopStep, Follows
<1>4. CASE k = "track"
  BY <1>1, <1>4, RxSums, RxOrder, ConfigTimes, Marks
  DEF RxMid, RxRun, RxLast, Due, Owner, LiveSteps, StopStep, Follows
<1> QED
  BY <1>2, <1>3, <1>4 DEF Loads

(* All the steps with a load together are shorter than its lifetime.       *)
LEMMA DueFits ==
  ASSUME TypeOK, NEW k \in Loads, Uses(k)
  PROVE  Due(Owner(k))[StopStep(k)] < Due(Owner(k))[StartStep(k)] + Lifetime(k)
<1>1. /\ CalTime \in Nat /\ TailTime \in Nat /\ ClockTime \in Nat /\ sending \in Nat
      /\ 2 * CalTime + TailTime + ClockTime <= 2 * ready + stop + 200
      /\ tracking => CalTime = 0
  BY Terms
<1>2. CASE k = "network"
  BY <1>1, <1>2, TxSums, ConfigTimes, Marks, LifetimeIs DEF TxRun, TxLast, Due, Owner, StartStep, StopStep
<1>3. CASE k = "monitor"
  <2>1. /\ RxDue["monitor"] = 2 * ready + 2 * Poll
        /\ RxDue["stop_monitor"] = 8 * ready + 6 * Poll + c.warmup_ms + CalTime + WriteTime
             + sending + c.settle_ms + 6 * stop + TailTime + ClockTime + CalTime
    BY <1>1, RxSums, ConfigTimes, Marks DEF RxMid, RxRun, RxLast
  <2> QED
    BY <1>1, <1>3, <2>1, ConfigTimes, LifetimeIs DEF Due, Owner, StartStep, StopStep
<1>4. CASE k = "track"
  <2>1. /\ RxDue["track"] = 0
        /\ RxDue["clock"] = 8 * ready + 6 * Poll + c.warmup_ms + CalTime + WriteTime
             + sending + c.settle_ms + 4 * stop + TailTime
    BY <1>1, RxSums, ConfigTimes, Marks DEF RxMid, RxRun, RxLast
  <2>2. CalTime = 0
    BY <1>1, <1>4 DEF Uses
  <2>3. RxDue["clock"] < RxDue["track"] + Lifetime(k)
    BY <1>1, <2>1, <2>2, Terms, ConfigTimes, LifetimeIs
  <2> QED
    BY <1>4, <2>3 DEF Due, Owner, StartStep, StopStep
<1> QED
  BY <1>2, <1>3, <1>4 DEF Loads
-----------------------------------------------------------------------------
(* What every step does.                                                   *)

(* An end moves to the next step, or fails, within a limit.                *)
Moves(s, from, to, limit) ==
  /\ pc[s] = from
  /\ \E instant \in Nat : \E go \in {to, "failed"} :
       /\ t[s] <= instant /\ instant <= t[s] + limit
       /\ Goto(s, from, go, instant)

LEMMA PauseMoves ==
  ASSUME TypeOK, NEW s \in Ends, NEW from, NEW to, NEW ms \in Nat,
         Pause(s, from, to, ms)
  PROVE  Moves(s, from, to, ms)
<1>1. t[s] \in Nat
  BY DEF TypeOK
<1> DEFINE instant == t[s] + ms
<1>2. instant \in Nat /\ t[s] <= instant /\ instant <= t[s] + ms
  BY <1>1
<1>3. pc[s] = from /\ Goto(s, from, to, instant)
  BY DEF Pause
<1> HIDE DEF instant
<1> QED
  BY <1>2, <1>3 DEF Moves

LEMMA WaitMoves ==
  ASSUME TypeOK, NEW s \in Ends, NEW from, NEW to, NEW n \in Nat, NEW limit \in Nat,
         NEW nominal \in Nat, Wait(s, from, to, n, limit, nominal)
  PROVE  Moves(s, from, to, n * limit)
<1>1. t[s] \in Nat /\ n * limit \in Nat
  BY DEF TypeOK
<1>2. CASE n = 0
  <2>1. Moves(s, from, to, 0)
    BY <1>2, PauseMoves DEF Wait
  <2>2. n * limit = 0
    BY <1>2
  <2> QED
    BY <2>1, <2>2
<1>3. CASE n # 0
  <2>0. PICK d \in Times(c) : \E took \in {d, nominal + d} :
          IF took <= limit
            THEN Goto(s, from, to, t[s] + n * took)
            ELSE Goto(s, from, "failed", t[s] + n * limit)
    BY <1>3 DEF Wait
  <2>1. PICK took \in {d, nominal + d} :
          IF took <= limit
            THEN Goto(s, from, to, t[s] + n * took)
            ELSE Goto(s, from, "failed", t[s] + n * limit)
    BY <2>0
  <2>2. d \in Nat /\ took \in Nat
    BY TimesAssumption DEF TypeOK
  <2>3. pc[s] = from
    BY <1>3 DEF Wait
  <2>4. CASE took <= limit
    <3>1. n * took \in Nat /\ n * took <= n * limit
      BY <2>2, <2>4
    <3> DEFINE instant == t[s] + n * took
    <3>2. instant \in Nat /\ t[s] <= instant /\ instant <= t[s] + n * limit
      BY <3>1, <1>1
    <3>3. Goto(s, from, to, instant)
      BY <2>1, <2>4
    <3> HIDE DEF instant
    <3> QED
      BY <2>3, <3>2, <3>3 DEF Moves
  <2>5. CASE ~(took <= limit)
    <3> DEFINE instant == t[s] + n * limit
    <3>2. instant \in Nat /\ t[s] <= instant /\ instant <= t[s] + n * limit
      BY <1>1
    <3>3. Goto(s, from, "failed", instant)
      BY <2>1, <2>5
    <3> HIDE DEF instant
    <3> QED
      BY <2>3, <3>2, <3>3 DEF Moves
  <2> QED
    BY <2>4, <2>5
<1> QED
  BY <1>2, <1>3

LEMMA WriteMoves ==
  ASSUME TypeOK, NEW s \in Ends, NEW from, NEW to, Write(s, from, to)
  PROVE  Moves(s, from, to, WriteTime)
<1>1. PICK d \in Times(c) : d <= WriteTime /\ Goto(s, from, to, t[s] + d)
  BY DEF Write
<1>2. t[s] \in Nat /\ d \in Nat /\ WriteTime \in Nat
  BY TimesAssumption, WriteAssumption DEF TypeOK
<1> DEFINE instant == t[s] + d
<1>3. instant \in Nat /\ t[s] <= instant /\ instant <= t[s] + WriteTime
  BY <1>1, <1>2
<1>4. pc[s] = from /\ Goto(s, from, to, instant)
  BY <1>1 DEF Write
<1> HIDE DEF instant
<1> QED
  BY <1>3, <1>4 DEF Moves
LEMMA SendMoves ==
  ASSUME TypeOK, NEW s \in Ends, NEW from, NEW to, NEW type \in Frames,
         NEW limit \in Nat, Send(s, from, to, type, limit)
  PROVE  Moves(s, from, to, limit) /\ at' \in [Frames -> Nat \cup {Never}]
<1>1. PICK d \in Times(c) :
        IF d <= limit
          THEN Goto(s, from, to, t[s] + d) /\ at' = [at EXCEPT ![type] = t[s] + d]
          ELSE Goto(s, from, "failed", t[s] + limit) /\ UNCHANGED at
  BY DEF Send
<1>2. t[s] \in Nat /\ d \in Nat /\ pc[s] = from /\ at \in [Frames -> Nat \cup {Never}]
  BY TimesAssumption DEF TypeOK, Send
<1>3. \E instant \in Nat : \E go \in {to, "failed"} :
        t[s] <= instant /\ instant <= t[s] + limit /\ Goto(s, from, go, instant)
  <2>1. CASE d <= limit
    <3> DEFINE instant == t[s] + d
    <3>1. instant \in Nat /\ t[s] <= instant /\ instant <= t[s] + limit
      BY <1>2, <2>1
    <3>2. Goto(s, from, to, instant)
      BY <1>1, <2>1
    <3> HIDE DEF instant
    <3> QED
      BY <3>1, <3>2
  <2>2. CASE ~(d <= limit)
    <3> DEFINE instant == t[s] + limit
    <3>1. instant \in Nat /\ t[s] <= instant /\ instant <= t[s] + limit
      BY <1>2
    <3>2. Goto(s, from, "failed", instant)
      BY <1>1, <2>2
    <3> HIDE DEF instant
    <3> QED
      BY <3>1, <3>2
  <2> QED
    BY <2>1, <2>2
<1>4. at' \in [Frames -> Nat \cup {Never}]
  <2>1. t[s] + d \in Nat
    BY <1>2
  <2>2. at' = at \/ at' = [at EXCEPT ![type] = t[s] + d]
    BY <1>1
  <2> QED
    BY <1>2, <2>1, <2>2
<1> QED
  BY <1>2, <1>3, <1>4 DEF Moves

LEMMA ReceiveMoves ==
  ASSUME TypeOK, NEW s \in Ends, NEW from, NEW to, NEW type \in Frames,
         NEW limit \in Nat, Receive(s, from, to, type, limit)
  PROVE  Moves(s, from, to, limit) /\ at' \in [Frames -> Nat \cup {Never}]
<1>1. /\ t[s] \in Nat /\ t[Peer(s)] \in Nat /\ pc[s] = from
      /\ at \in [Frames -> Nat \cup {Never}] /\ at[type] \in Nat \cup {Never}
  BY DEF TypeOK, Receive, Peer, Ends
<1>2. \E instant \in Nat : \E go \in {to, "failed"} :
        t[s] <= instant /\ instant <= t[s] + limit /\ Goto(s, from, go, instant)
  <2>1. CASE /\ at[type] # Never /\ at[type] <= t[s] + limit
             /\ Goto(s, from, to, Later(t[s], at[type]))
    <3> DEFINE instant == Later(t[s], at[type])
    <3>1. instant \in Nat /\ t[s] <= instant /\ instant <= t[s] + limit
      BY <1>1, <2>1 DEF Later
    <3>2. Goto(s, from, to, instant)
      BY <2>1
    <3> HIDE DEF instant
    <3> QED
      BY <3>1, <3>2
  <2>2. CASE Goto(s, from, "failed", t[s] + limit)
    <3> DEFINE instant == t[s] + limit
    <3>1. instant \in Nat /\ t[s] <= instant /\ instant <= t[s] + limit
      BY <1>1
    <3>2. Goto(s, from, "failed", instant)
      BY <2>2
    <3> HIDE DEF instant
    <3> QED
      BY <3>1, <3>2
  <2>3. CASE Goto(s, from, "failed", IF t[Peer(s)] > t[s] + limit THEN t[s] + limit
                                     ELSE Later(t[s], t[Peer(s)]))
    <3> DEFINE instant == IF t[Peer(s)] > t[s] + limit THEN t[s] + limit
                          ELSE Later(t[s], t[Peer(s)])
    <3>1. instant \in Nat /\ t[s] <= instant /\ instant <= t[s] + limit
      BY <1>1 DEF Later
    <3>2. Goto(s, from, "failed", instant)
      BY <2>3
    <3> HIDE DEF instant
    <3> QED
      BY <3>1, <3>2
  <2> QED
    BY <2>1, <2>2, <2>3 DEF Receive
<1>3. at' \in [Frames -> Nat \cup {Never}]
  BY <1>1 DEF Receive
<1> QED
  BY <1>1, <1>2, <1>3 DEF Moves

-----------------------------------------------------------------------------
(* A move keeps the invariant when it takes no longer than it may.         *)

(* What the limits and the loads depend on stays as it is.                 *)
LEMMA SameConfig ==
  ASSUME c' = c, mode' = mode, NEW k, NEW s
  PROVE  Uses(k)' = Uses(k) /\ Due(s)' = Due(s)
<1>1. smoke' = smoke /\ tracking' = tracking /\ calibrating' = calibrating
  BY DEF smoke, tracking, calibrating
<1>2. Uses(k)' = Uses(k)
  BY <1>1 DEF Uses
<1>3. ready' = ready /\ stop' = stop /\ sending' = sending
  BY DEF ready, stop, sending
<1>4. RxDue' = RxDue /\ TxDue' = TxDue
  BY <1>1, <1>3 DEF RxDue, RxSteps, TxDue, TxSteps, RxMid, RxRun, RxLast, TxRun, TxLast, CalTime, TailTime, ClockTime, If
<1> QED
  BY <1>2, <1>4 DEF Due

(* A move takes no longer than the budget has for it.                      *)
Affordable(s, from, limit) ==
  \A k \in Loads :
    s = Owner(k) /\ from \in LiveSteps(k) \ {StopStep(k)} =>
      Due(s)[from] + limit <= Due(s)[NextStep(s, from)]

LEMMA GotoKeeps ==
  ASSUME BInv, NEW s \in Ends, NEW from \in Steps(s),
         NEW to \in {NextStep(s, from), "failed"},
         NEW instant \in Nat, NEW limit \in Nat, pc[s] = from,
         t[s] <= instant, instant <= t[s] + limit,
         Goto(s, from, to, instant), Affordable(s, from, limit),
         NEW k \in Loads
  PROVE  k \notin Ended(s, from, instant) /\ Within(k)'
<1>1. /\ t[s] \in Nat /\ t \in [Ends -> Nat] /\ since[k] \in Nat \cup {Never}
      /\ Never = -1 /\ from \notin {"end", "failed"} /\ TypeOK
      /\ since \in [Timed -> Nat \cup {Never}] /\ k \in Timed /\ Within(k)
      /\ Owner(k) \in Ends
  <2>1. TypeOK /\ Within(k)
    BY DEF BInv
  <2>2. k \in Timed /\ Owner(k) \in Ends
    BY DEF Loads, Timed, Owner, Ends
  <2>3. t \in [Ends -> Nat] /\ since \in [Timed -> Nat \cup {Never}] /\ Never = -1
    BY <2>1 DEF TypeOK, Never
  <2>4. from \notin {"end", "failed"}
    BY DEF Steps, RxSteps, TxSteps
  <2> QED
    BY <2>1, <2>2, <2>3, <2>4
<1>2. /\ pc' = [pc EXCEPT ![s] = IF Ended(s, from, instant) = {} THEN to ELSE "failed"]
      /\ t' = [t EXCEPT ![s] = instant]
      /\ since'[k] = IF s = Owner(k) /\ to = StartStep(k) /\ Uses(k) THEN instant
                     ELSE IF s = Owner(k) /\ from = StopStep(k) THEN Never
                     ELSE since[k]
      /\ c' = c /\ mode' = mode
  BY <1>1 DEF Goto
<1>3. Uses(k)' = Uses(k) /\ Due(Owner(k))' = Due(Owner(k))
  BY <1>2, SameConfig
<1>4. pc \in [Ends -> RxSteps \cup TxSteps \cup {"end", "failed"}]
  BY <1>1 DEF TypeOK
<1>5. CASE s # Owner(k)
  <2>1. k \notin Ended(s, from, instant)
    BY <1>5 DEF Ended
  <2>2. pc'[Owner(k)] = pc[Owner(k)] /\ t'[Owner(k)] = t[Owner(k)] /\ since'[k] = since[k]
    BY <1>1, <1>2, <1>4, <1>5
  <2> QED
    BY <1>1, <1>3, <2>1, <2>2 DEF Within
<1>6. CASE s = Owner(k)
  <2>1. since[k] # Never => from \in LiveSteps(k) /\ Uses(k)
                             /\ t[s] + Due(s)[StartStep(k)] <= since[k] + Due(s)[from]
    BY <1>1, <1>6 DEF Within
  <2> DEFINE next == NextStep(s, from)
  <2>2. from \in LiveSteps(k) /\ from # StopStep(k) =>
          /\ next \in LiveSteps(k)
          /\ Due(s)[from] + limit <= Due(s)[next]
    BY <1>6, LiveNext DEF Affordable
  <2>3. StartStep(k) \in LiveSteps(k) /\ StopStep(k) \in LiveSteps(k) /\ "failed" \notin LiveSteps(k)
    BY DEF StartStep, StopStep, LiveSteps, Loads
  <2>4. \A l \in LiveSteps(k) : Due(s)[l] \in Nat /\ Due(s)[l] <= Due(s)[StopStep(k)]
    BY <1>1, <1>6, DueType
  <2>5. Uses(k) => /\ Lifetime(k) \in Nat
                   /\ Due(s)[StopStep(k)] < Due(s)[StartStep(k)] + Lifetime(k)
    BY <1>1, <1>6, DueFits, LifetimeIs
  <2> HIDE DEF next
  <2>6. ASSUME k \in Ended(s, from, instant)
        PROVE  FALSE
    <3>1. since[k] # Never /\ from # StopStep(k) /\ instant >= since[k] + Lifetime(k)
      BY <2>6 DEF Ended
    <3>2. /\ from \in LiveSteps(k) /\ next \in LiveSteps(k) /\ Uses(k) /\ since[k] \in Nat
          /\ t[s] + Due(s)[StartStep(k)] <= since[k] + Due(s)[from]
          /\ Due(s)[from] + limit <= Due(s)[next]
      BY <1>1, <2>1, <2>2, <3>1
    <3>3. /\ Due(s)[StartStep(k)] \in Nat /\ Due(s)[from] \in Nat /\ Due(s)[next] \in Nat
          /\ Due(s)[StopStep(k)] \in Nat /\ Due(s)[next] <= Due(s)[StopStep(k)]
      BY <2>3, <2>4, <3>2
    <3> QED
      BY <1>1, <2>5, <3>1, <3>2, <3>3
  <2>7. pc'[s] \in {next, "failed"} /\ t'[s] = instant
    BY <1>1, <1>2, <1>4 DEF next
  <2>8. ASSUME since'[k] # Never
        PROVE  /\ Uses(k) /\ pc'[s] \in LiveSteps(k) \cup {"failed"}
               /\ pc'[s] \in LiveSteps(k) =>
                    instant + Due(s)[StartStep(k)] <= since'[k] + Due(s)[pc'[s]]
    <3>1. CASE to = StartStep(k) /\ Uses(k)
      <4>1. pc'[s] \in {StartStep(k), "failed"} /\ since'[k] = instant
        BY <1>1, <1>2, <1>4, <1>6, <3>1
      <4> QED
        BY <2>3, <2>4, <3>1, <4>1
    <3>2. CASE ~(to = StartStep(k) /\ Uses(k))
      <4>1. from # StopStep(k) /\ since'[k] = since[k]
        BY <1>2, <1>6, <2>8, <3>2
      <4>2. /\ from \in LiveSteps(k) /\ next \in LiveSteps(k) /\ Uses(k) /\ since[k] \in Nat
            /\ t[s] + Due(s)[StartStep(k)] <= since[k] + Due(s)[from]
            /\ Due(s)[from] + limit <= Due(s)[next]
        BY <1>1, <2>1, <2>2, <2>8, <4>1
      <4>3. Due(s)[StartStep(k)] \in Nat /\ Due(s)[from] \in Nat /\ Due(s)[next] \in Nat
        BY <2>3, <2>4, <4>2
      <4>4. instant + Due(s)[StartStep(k)] <= since[k] + Due(s)[next]
        BY <1>1, <4>2, <4>3
      <4> QED
        BY <2>3, <2>7, <4>1, <4>2, <4>4
    <3> QED
      BY <3>1, <3>2
  <2> QED
    BY <1>3, <1>6, <2>6, <2>7, <2>8 DEF Within
<1> QED
  BY <1>5, <1>6

LEMMA MovesKeep ==
  ASSUME BInv, NEW s \in Ends, NEW from \in Steps(s), NEW limit \in Nat,
         Moves(s, from, NextStep(s, from), limit), Affordable(s, from, limit),
         at' \in [Frames -> Nat \cup {Never}], disturbed' \in BOOLEAN
  PROVE  BInv'
<1>1. PICK instant \in Nat : \E go \in {NextStep(s, from), "failed"} :
        t[s] <= instant /\ instant <= t[s] + limit /\ Goto(s, from, go, instant)
  BY DEF Moves
<1>2. PICK to \in {NextStep(s, from), "failed"} :
        t[s] <= instant /\ instant <= t[s] + limit /\ Goto(s, from, to, instant)
  BY <1>1
<1>3. pc[s] = from
  BY DEF Moves
<1>4. \A k \in Loads : k \notin Ended(s, from, instant) /\ Within(k)'
  BY <1>2, <1>3, GotoKeeps
<1>5. LoadsOutlive'
  <2>1. expired' = expired \cup Ended(s, from, instant) /\ Ended(s, from, instant) \subseteq Timed
    BY <1>2 DEF Goto, Ended
  <2>2. Ended(s, from, instant) \subseteq {"busy"}
    BY <1>4, <2>1 DEF Loads, Timed
  <2>3. expired \subseteq {"busy"}
    BY DEF BInv, LoadsOutlive
  <2>4. expired' \subseteq {"busy"}
    BY <2>1, <2>2, <2>3, ZenonT(10)
  <2> QED
    BY <2>4 DEF LoadsOutlive
<1>6. /\ pc \in [Ends -> RxSteps \cup TxSteps \cup {"end", "failed"}]
      /\ pc["rx"] \in RxSteps \cup {"end", "failed"}
      /\ pc["tx"] \in TxSteps \cup {"end", "failed"}
      /\ t \in [Ends -> Nat] /\ since \in [Timed -> Nat \cup {Never}] /\ expired \subseteq Timed
      /\ c \in Configs /\ Accepted(c) /\ \E i \in 1..Len(c.modes) : mode = c.modes[i]
  BY DEF BInv, TypeOK
<1>7. /\ pc' \in [Ends -> RxSteps \cup TxSteps \cup {"end", "failed"}]
      /\ pc'["rx"] \in RxSteps \cup {"end", "failed"}
      /\ pc'["tx"] \in TxSteps \cup {"end", "failed"}
  <2> DEFINE go == IF Ended(s, from, instant) = {} THEN to ELSE "failed"
  <2>1. pc' = [pc EXCEPT ![s] = go] /\ go \in {NextStep(s, from), "failed"}
    BY <1>2 DEF Goto
  <2> HIDE DEF go
  <2>2. CASE s = "rx"
    <3>1. go \in RxSteps \cup {"end", "failed"}
      BY <2>1, <2>2, NextSteps DEF NextStep, Steps
    <3> QED
      BY <1>6, <2>1, <2>2, <3>1 DEF Ends
  <2>3. CASE s = "tx"
    <3>1. go \in TxSteps \cup {"end", "failed"}
      BY <2>1, <2>3, NextSteps DEF NextStep, Steps
    <3> QED
      BY <1>6, <2>1, <2>3, <3>1 DEF Ends
  <2> QED
    BY <2>2, <2>3 DEF Ends
<1>8. t' \in [Ends -> Nat] /\ c' = c /\ mode' = mode
  BY <1>2, <1>6 DEF Goto
<1>9. since' \in [Timed -> Nat \cup {Never}]
  BY <1>2, <1>6 DEF Goto
<1>10. expired' \subseteq Timed
  BY <1>2, <1>6 DEF Goto, Ended
<1>11. TypeOK'
  BY <1>6, <1>7, <1>8, <1>9, <1>10 DEF TypeOK
<1> QED
  BY <1>4, <1>5, <1>7, <1>11 DEF BInv

(* Something failing at once keeps it too.                                 *)
LEMMA FailKeeps ==
  ASSUME BInv, NEW s \in Ends, Fail(s)
  PROVE  BInv'
<1>1. pc[s] \in Steps(s) /\ t[s] \in Nat /\ TypeOK
  BY DEF BInv, TypeOK, Fail, Steps, Ends
<1>2. Moves(s, pc[s], NextStep(s, pc[s]), 0)
  <2>1. t[s] <= t[s] /\ t[s] <= t[s] + 0
    BY <1>1
  <2> QED
    BY <1>1, <2>1 DEF Fail, Moves
<1>3. Affordable(s, pc[s], 0)
  BY <1>1, DueGrows DEF Affordable
<1>4. at' \in [Frames -> Nat \cup {Never}] /\ disturbed' \in BOOLEAN
  BY <1>1 DEF Fail, TypeOK
<1> QED
  BY <1>1, <1>2, <1>3, <1>4, MovesKeep

-----------------------------------------------------------------------------
(* The receiver's steps.                                                   *)

(* Outside the steps with a load anything is affordable.                   *)
LEMMA FreeSteps ==
  ASSUME NEW s \in Ends, NEW l, NEW limit,
         s = "rx" => l \in {"previous", "restore", "begin", "prepare", "stop_monitor"},
         s = "tx" => l \in {"begin", "prepare", "rx_ready", "state", "senders",
                            "stop_network", "after", "write", "ack"}
  PROVE  Affordable(s, l, limit)
BY DEF Affordable, Loads, LiveSteps, StopStep, Owner, Ends

(* The sums allow for the limit of every step with a load.                 *)
LEMMA RxAffordable ==
  ASSUME TypeOK
  PROVE  /\ Affordable("rx", "track", If(tracking, 1) * (ready + Poll))
         /\ Affordable("rx", "scheduler", 1 * (ready + Poll))
         /\ Affordable("rx", "monitor", If(Uses("monitor"), 1) * (ready + Poll))
         /\ Affordable("rx", "rx_ready", ready)
         /\ Affordable("rx", "tx_ready", ready)
         /\ Affordable("rx", "warmup", c.warmup_ms)
         /\ Affordable("rx", "calibrate", If(calibrating, 1) * (ready + Poll))
         /\ Affordable("rx", "gate", WriteTime)
         /\ Affordable("rx", "start", ready)
         /\ Affordable("rx", "started", ready)
         /\ Affordable("rx", "stop", c.duration_ms + c.start_delay_ms + ready)
         /\ Affordable("rx", "settle", c.settle_ms)
         /\ Affordable("rx", "completions", 1 * stop)
         /\ Affordable("rx", "flush1", Enabled(0) * (stop + Poll))
         /\ Affordable("rx", "flush2", Enabled(1) * (stop + Poll))
         /\ Affordable("rx", "flush3", Enabled(2) * (stop + Poll))
         /\ Affordable("rx", "tail", If(tracking, 150))
         /\ Affordable("rx", "clock", If(tracking, 1) * (stop + Poll))
         /\ Affordable("rx", "after", If(calibrating, 1) * (ready + Poll))
         /\ Affordable("rx", "done", stop)
         /\ Affordable("rx", "ack", stop)
<1>1. CalTime \in Nat /\ TailTime \in Nat /\ ClockTime \in Nat /\ sending \in Nat
  BY Terms
<1>2. If(calibrating, 1) * (ready + Poll) = CalTime /\ If(tracking, 1) * (stop + Poll) = ClockTime
  BY ConfigTimes DEF If, CalTime, ClockTime
<1>4. /\ If(tracking, 1) * (ready + Poll) \in {0, ready + Poll}
      /\ If(Uses("monitor"), 1) * (ready + Poll) \in {0, ready + Poll}
  BY ConfigTimes DEF If
<1>5. \A i \in FlowIndex : Enabled(i) * (stop + Poll) \in {0, stop + Poll}
  BY ConfigTimes DEF If, Enabled
<1>3. ASSUME NEW l, NEW to, NEW limit, Follows("rx", l, to), RxDue[l] + limit <= RxDue[to]
      PROVE  Affordable("rx", l, limit)
  BY <1>3 DEF Affordable, Due, Follows
<1>6. Affordable("rx", "track", If(tracking, 1) * (ready + Poll))
  <2>1. RxDue["track"] + If(tracking, 1) * (ready + Poll) <= RxDue["scheduler"]
    BY <1>1, <1>2, <1>4, <1>5, RxSums, ConfigTimes, Marks
  <2> QED
    BY <2>1, <1>3, RxOrder
<1>7. Affordable("rx", "scheduler", 1 * (ready + Poll))
  <2>1. RxDue["scheduler"] + 1 * (ready + Poll) <= RxDue["monitor"]
    BY <1>1, <1>2, <1>4, <1>5, RxSums, ConfigTimes, Marks
  <2> QED
    BY <2>1, <1>3, RxOrder
<1>8. Affordable("rx", "monitor", If(Uses("monitor"), 1) * (ready + Poll))
  <2>1. RxDue["monitor"] + If(Uses("monitor"), 1) * (ready + Poll) <= RxDue["rx_ready"]
    BY <1>1, <1>2, <1>4, <1>5, RxSums, ConfigTimes, Marks
  <2> QED
    BY <2>1, <1>3, RxOrder
<1>9. Affordable("rx", "rx_ready", ready)
  <2>1. RxDue["rx_ready"] + ready <= RxDue["tx_ready"]
    BY <1>1, <1>2, <1>4, <1>5, RxSums, ConfigTimes, Marks
  <2> QED
    BY <2>1, <1>3, RxOrder
<1>10. Affordable("rx", "tx_ready", ready)
  <2>1. RxDue["tx_ready"] + ready <= RxDue["warmup"]
    BY <1>1, <1>2, <1>4, <1>5, RxSums, ConfigTimes, Marks
  <2> QED
    BY <2>1, <1>3, RxOrder
<1>11. Affordable("rx", "warmup", c.warmup_ms)
  <2>1. RxDue["warmup"] + c.warmup_ms <= RxDue["calibrate"]
    BY <1>1, <1>2, <1>4, <1>5, RxSums, ConfigTimes, Marks DEF RxMid
  <2> QED
    BY <2>1, <1>3, RxOrder
<1>12. Affordable("rx", "calibrate", If(calibrating, 1) * (ready + Poll))
  <2>1. RxDue["calibrate"] + If(calibrating, 1) * (ready + Poll) <= RxDue["gate"]
    BY <1>1, <1>2, <1>4, <1>5, RxSums, ConfigTimes, Marks
  <2> QED
    BY <2>1, <1>3, RxOrder
<1>13. Affordable("rx", "gate", WriteTime)
  <2>1. RxDue["gate"] + WriteTime <= RxDue["start"]
    BY <1>1, <1>2, <1>4, <1>5, RxSums, ConfigTimes, Marks
  <2> QED
    BY <2>1, <1>3, RxOrder
<1>14. Affordable("rx", "start", ready)
  <2>1. RxDue["start"] + ready <= RxDue["started"]
    BY <1>1, <1>2, <1>4, <1>5, RxSums, ConfigTimes, Marks
  <2> QED
    BY <2>1, <1>3, RxOrder
<1>15. Affordable("rx", "started", ready)
  <2>1. RxDue["started"] + ready <= RxDue["stop"]
    BY <1>1, <1>2, <1>4, <1>5, RxSums, ConfigTimes, Marks
  <2> QED
    BY <2>1, <1>3, RxOrder
<1>16. Affordable("rx", "stop", c.duration_ms + c.start_delay_ms + ready)
  <2>1. RxDue["stop"] + (c.duration_ms + c.start_delay_ms + ready) <= RxDue["settle"]
    BY <1>1, <1>2, <1>4, <1>5, RxSums, ConfigTimes, Marks DEF sending, RxRun
  <2> QED
    BY <2>1, <1>3, RxOrder
<1>17. Affordable("rx", "settle", c.settle_ms)
  <2>1. RxDue["settle"] + c.settle_ms <= RxDue["completions"]
    BY <1>1, <1>2, <1>4, <1>5, RxSums, ConfigTimes, Marks DEF RxRun
  <2> QED
    BY <2>1, <1>3, RxOrder
<1>18. Affordable("rx", "completions", 1 * stop)
  <2>1. RxDue["completions"] + 1 * stop <= RxDue["flush1"]
    BY <1>1, <1>2, <1>4, <1>5, RxSums, ConfigTimes, Marks
  <2> QED
    BY <2>1, <1>3, RxOrder
<1>19. Affordable("rx", "flush1", Enabled(0) * (stop + Poll))
  <2>1. RxDue["flush1"] + Enabled(0) * (stop + Poll) <= RxDue["flush2"]
    BY <1>1, <1>2, <1>4, <1>5, RxSums, ConfigTimes, Marks DEF FlowIndex
  <2> QED
    BY <2>1, <1>3, RxOrder
<1>20. Affordable("rx", "flush2", Enabled(1) * (stop + Poll))
  <2>1. RxDue["flush2"] + Enabled(1) * (stop + Poll) <= RxDue["flush3"]
    BY <1>1, <1>2, <1>4, <1>5, RxSums, ConfigTimes, Marks DEF FlowIndex
  <2> QED
    BY <2>1, <1>3, RxOrder
<1>21. Affordable("rx", "flush3", Enabled(2) * (stop + Poll))
  <2>1. RxDue["flush3"] + Enabled(2) * (stop + Poll) <= RxDue["tail"]
    BY <1>1, <1>2, <1>4, <1>5, RxSums, ConfigTimes, Marks DEF FlowIndex, RxLast
  <2> QED
    BY <2>1, <1>3, RxOrder
<1>22. Affordable("rx", "tail", If(tracking, 150))
  <2>1. RxDue["tail"] + If(tracking, 150) <= RxDue["clock"]
    BY <1>1, <1>2, <1>4, <1>5, RxSums, ConfigTimes, Marks DEF TailTime
  <2> QED
    BY <2>1, <1>3, RxOrder
<1>23. Affordable("rx", "clock", If(tracking, 1) * (stop + Poll))
  <2>1. RxDue["clock"] + If(tracking, 1) * (stop + Poll) <= RxDue["after"]
    BY <1>1, <1>2, <1>4, <1>5, RxSums, ConfigTimes, Marks
  <2> QED
    BY <2>1, <1>3, RxOrder
<1>24. Affordable("rx", "after", If(calibrating, 1) * (ready + Poll))
  <2>1. RxDue["after"] + If(calibrating, 1) * (ready + Poll) <= RxDue["done"]
    BY <1>1, <1>2, <1>4, <1>5, RxSums, ConfigTimes, Marks
  <2> QED
    BY <2>1, <1>3, RxOrder
<1>25. Affordable("rx", "done", stop)
  <2>1. RxDue["done"] + stop <= RxDue["ack"]
    BY <1>1, <1>2, <1>4, <1>5, RxSums, ConfigTimes, Marks
  <2> QED
    BY <2>1, <1>3, RxOrder
<1>26. Affordable("rx", "ack", stop)
  <2>1. RxDue["ack"] + stop <= RxDue["stop_monitor"]
    BY <1>1, <1>2, <1>4, <1>5, RxSums, ConfigTimes, Marks
  <2> QED
    BY <2>1, <1>3, RxOrder
<1> QED
  BY <1>6, <1>7, <1>8, <1>9, <1>10, <1>11, <1>12, <1>13, <1>14, <1>15,
     <1>16, <1>17, <1>18, <1>19, <1>20, <1>21, <1>22, <1>23, <1>24, <1>25,
     <1>26

LEMMA TxAffordable ==
  ASSUME TypeOK
  PROVE  /\ Affordable("tx", "network", If(c.network, 100))
         /\ Affordable("tx", "tx_ready", ready)
         /\ Affordable("tx", "start", ready + c.warmup_ms)
         /\ Affordable("tx", "publish", WriteTime)
         /\ Affordable("tx", "started", ready)
         /\ Affordable("tx", "sending", 1 * (c.duration_ms + c.start_delay_ms + ready))
         /\ Affordable("tx", "stop", stop)
         /\ Affordable("tx", "done", 3 * stop + c.settle_ms + c.drain_ms)
         /\ Affordable("tx", "flush1", Enabled(0) * (stop + Poll))
         /\ Affordable("tx", "flush2", Enabled(1) * (stop + Poll))
         /\ Affordable("tx", "flush3", Enabled(2) * (stop + Poll))
<1>1. sending \in Nat /\ If(c.network, 100) \in {0, 100}
  BY Terms DEF If
<1>2. \A i \in FlowIndex : Enabled(i) * (stop + Poll) \in {0, stop + Poll}
  BY ConfigTimes DEF If, Enabled
<1>3. ASSUME NEW l, NEW to, NEW limit, Follows("tx", l, to), TxDue[l] + limit <= TxDue[to]
      PROVE  Affordable("tx", l, limit)
  BY <1>3 DEF Affordable, Due, Follows
<1>4. Affordable("tx", "network", If(c.network, 100))
  <2>1. TxDue["network"] + If(c.network, 100) <= TxDue["tx_ready"]
    BY <1>1, <1>2, TxSums, ConfigTimes, Marks
  <2> QED
    BY <2>1, <1>3, TxOrder
<1>5. Affordable("tx", "tx_ready", ready)
  <2>1. TxDue["tx_ready"] + ready <= TxDue["start"]
    BY <1>1, <1>2, TxSums, ConfigTimes, Marks
  <2> QED
    BY <2>1, <1>3, TxOrder
<1>6. Affordable("tx", "start", ready + c.warmup_ms)
  <2>1. TxDue["start"] + (ready + c.warmup_ms) <= TxDue["publish"]
    BY <1>1, <1>2, TxSums, ConfigTimes, Marks DEF TxRun
  <2> QED
    BY <2>1, <1>3, TxOrder
<1>7. Affordable("tx", "publish", WriteTime)
  <2>1. TxDue["publish"] + WriteTime <= TxDue["started"]
    BY <1>1, <1>2, TxSums, ConfigTimes, Marks
  <2> QED
    BY <2>1, <1>3, TxOrder
<1>8. Affordable("tx", "started", ready)
  <2>1. TxDue["started"] + ready <= TxDue["sending"]
    BY <1>1, <1>2, TxSums, ConfigTimes, Marks
  <2> QED
    BY <2>1, <1>3, TxOrder
<1>9. Affordable("tx", "sending", 1 * (c.duration_ms + c.start_delay_ms + ready))
  <2>1. TxDue["sending"] + 1 * (c.duration_ms + c.start_delay_ms + ready) <= TxDue["stop"]
    BY <1>1, <1>2, TxSums, ConfigTimes, Marks DEF sending
  <2> QED
    BY <2>1, <1>3, TxOrder
<1>10. Affordable("tx", "stop", stop)
  <2>1. TxDue["stop"] + stop <= TxDue["done"]
    BY <1>1, <1>2, TxSums, ConfigTimes, Marks DEF sending
  <2> QED
    BY <2>1, <1>3, TxOrder
<1>11. Affordable("tx", "done", 3 * stop + c.settle_ms + c.drain_ms)
  <2>1. TxDue["done"] + (3 * stop + c.settle_ms + c.drain_ms) <= TxDue["flush1"]
    BY <1>1, <1>2, TxSums, ConfigTimes, Marks DEF TxLast
  <2> QED
    BY <2>1, <1>3, TxOrder
<1>12. Affordable("tx", "flush1", Enabled(0) * (stop + Poll))
  <2>1. TxDue["flush1"] + Enabled(0) * (stop + Poll) <= TxDue["flush2"]
    BY <1>1, <1>2, TxSums, ConfigTimes, Marks DEF FlowIndex
  <2> QED
    BY <2>1, <1>3, TxOrder
<1>13. Affordable("tx", "flush2", Enabled(1) * (stop + Poll))
  <2>1. TxDue["flush2"] + Enabled(1) * (stop + Poll) <= TxDue["flush3"]
    BY <1>1, <1>2, TxSums, ConfigTimes, Marks DEF FlowIndex
  <2> QED
    BY <2>1, <1>3, TxOrder
<1>14. Affordable("tx", "flush3", Enabled(2) * (stop + Poll))
  <2>1. TxDue["flush3"] + Enabled(2) * (stop + Poll) <= TxDue["stop_network"]
    BY <1>1, <1>2, TxSums, ConfigTimes, Marks DEF FlowIndex
  <2> QED
    BY <2>1, <1>3, TxOrder
<1> QED
  BY <1>4, <1>5, <1>6, <1>7, <1>8, <1>9, <1>10, <1>11, <1>12, <1>13, <1>14

(* The forms keep the invariant.                                           *)

LEMMA PauseKeeps ==
  ASSUME BInv, NEW s \in Ends, NEW from, NEW to, Follows(s, from, to), NEW ms \in Nat,
         Pause(s, from, to, ms), Affordable(s, from, ms)
  PROVE  BInv'
<1>1. TypeOK
  BY DEF BInv
<1>2. Moves(s, from, to, ms)
  BY <1>1, PauseMoves
<1>3. at' \in [Frames -> Nat \cup {Never}] /\ disturbed' \in BOOLEAN
  BY <1>1 DEF Pause, TypeOK
<1> QED
  BY <1>2, <1>3, MovesKeep DEF Follows

LEMMA WaitKeeps ==
  ASSUME BInv, NEW s \in Ends, NEW from, NEW to, Follows(s, from, to), NEW n \in Nat, NEW limit \in Nat,
         NEW nominal \in Nat, Wait(s, from, to, n, limit, nominal),
         Affordable(s, from, n * limit)
  PROVE  BInv'
<1>1. TypeOK
  BY DEF BInv
<1>2. Moves(s, from, to, n * limit)
  BY <1>1, WaitMoves
<1>3. at' \in [Frames -> Nat \cup {Never}]
  BY <1>1 DEF Wait, Pause, TypeOK
<1>4. disturbed' \in BOOLEAN
  <2>1. disturbed' = disturbed \/ \E d \in Times(c) : disturbed' = (disturbed \/ d > Prompt)
    BY DEF Wait, Pause
  <2> QED
    BY <1>1, <2>1, ZenonT(10) DEF TypeOK
<1>5. n * limit \in Nat
  OBVIOUS
<1> QED
  BY <1>2, <1>3, <1>4, <1>5, MovesKeep DEF Follows

LEMMA WriteKeeps ==
  ASSUME BInv, NEW s \in Ends, NEW from, NEW to, Follows(s, from, to),
         Write(s, from, to), Affordable(s, from, WriteTime)
  PROVE  BInv'
<1>1. TypeOK
  BY DEF BInv
<1>2. Moves(s, from, to, WriteTime)
  BY <1>1, WriteMoves
<1>3. at' \in [Frames -> Nat \cup {Never}]
  BY <1>1 DEF Write, TypeOK
<1>4. disturbed' \in BOOLEAN
  <2>1. \E d \in Times(c) : disturbed' = (disturbed \/ d > Prompt)
    BY DEF Write
  <2> QED
    BY <2>1, ZenonT(10)
<1> QED
  BY <1>2, <1>3, <1>4, MovesKeep, WriteAssumption DEF Follows

LEMMA FrameKeeps ==
  ASSUME BInv, NEW s \in Ends, NEW from, NEW to, Follows(s, from, to), NEW type \in Frames,
         NEW limit \in Nat, Affordable(s, from, limit),
         \/ Send(s, from, to, type, limit)
         \/ Receive(s, from, to, type, limit)
  PROVE  BInv'
<1>1. TypeOK
  BY DEF BInv
<1>2. Moves(s, from, to, limit) /\ at' \in [Frames -> Nat \cup {Never}]
  BY <1>1, SendMoves, ReceiveMoves
<1>3. disturbed' \in BOOLEAN
  <2>1. disturbed' = disturbed \/ \E d \in Times(c) : disturbed' = (disturbed \/ d > Prompt)
    BY DEF Send, Receive
  <2> QED
    BY <1>1, <2>1, ZenonT(10) DEF TypeOK
<1> QED
  BY <1>2, <1>3, MovesKeep DEF Follows

LEMMA ReceiverKeeps ==
  ASSUME BInv, ReceiverRun
  PROVE  BInv'
<1>1. /\ TypeOK /\ "rx" \in Ends
      /\ Enabled(0) \in Nat /\ Enabled(1) \in Nat /\ Enabled(2) \in Nat
  BY DEF BInv, Ends, Enabled, If
<1>2. PrepareWaits \in Nat
  BY <1>1 DEF PrepareWaits, If
<1>3. /\ If(tracking, 1) \in Nat /\ If(tracking, 150) \in Nat /\ If(calibrating, 1) \in Nat
      /\ If(Uses("monitor"), 1) \in Nat
  BY DEF If
<1>4. /\ ready \in Nat /\ stop \in Nat /\ ready + Poll \in Nat /\ stop + Poll \in Nat
      /\ c.warmup_ms \in Nat /\ c.settle_ms \in Nat /\ c.drain_ms \in Nat
      /\ c.duration_ms + c.start_delay_ms + ready \in Nat
      /\ c.start_delay_ms + c.duration_ms \in Nat
      /\ ready + c.warmup_ms \in Nat /\ 3 * stop + c.settle_ms + c.drain_ms \in Nat
  BY <1>1, ConfigTimes
<1>5. CASE Wait("rx", "previous", "restore", 3, stop + Poll, 0)
  BY <1>5, <1>1, <1>2, <1>3, <1>4, WaitKeeps, FreeSteps, RxOrder
<1>6. CASE Wait("rx", "restore", "begin", 2, ready + Poll, 0)
  BY <1>6, <1>1, <1>2, <1>3, <1>4, WaitKeeps, FreeSteps, RxOrder
<1>7. CASE Wait("rx", "begin", "prepare", 10, 10000, 0)
  BY <1>7, <1>1, <1>2, <1>3, <1>4, WaitKeeps, FreeSteps, RxOrder
<1>8. CASE Wait("rx", "prepare", "track", PrepareWaits, ready + Poll, 0)
  BY <1>8, <1>1, <1>2, <1>3, <1>4, WaitKeeps, FreeSteps, RxOrder
<1>9. CASE Wait("rx", "track", "scheduler", If(tracking, 1), ready + Poll, 0)
  BY <1>9, <1>1, <1>2, <1>3, <1>4, WaitKeeps, RxAffordable, RxOrder
<1>10. CASE Wait("rx", "scheduler", "monitor", 1, ready + Poll, 0)
  BY <1>10, <1>1, <1>2, <1>3, <1>4, WaitKeeps, RxAffordable, RxOrder
<1>11. CASE Wait("rx", "monitor", "rx_ready", If(Uses("monitor"), 1), ready + Poll, 0)
  BY <1>11, <1>1, <1>2, <1>3, <1>4, WaitKeeps, RxAffordable, RxOrder
<1>12. CASE Send("rx", "rx_ready", "tx_ready", "RX_READY", ready)
  BY <1>12, <1>1, <1>2, <1>3, <1>4, FrameKeeps, RxAffordable, RxOrder DEF Frames
<1>13. CASE Receive("rx", "tx_ready", "warmup", "TX_READY", ready)
  BY <1>13, <1>1, <1>2, <1>3, <1>4, FrameKeeps, RxAffordable, RxOrder DEF Frames
<1>14. CASE Pause("rx", "warmup", "calibrate", c.warmup_ms)
  BY <1>14, <1>1, <1>2, <1>3, <1>4, PauseKeeps, RxAffordable, RxOrder
<1>15. CASE Wait("rx", "calibrate", "gate", If(calibrating, 1), ready + Poll, 0)
  BY <1>15, <1>1, <1>2, <1>3, <1>4, WaitKeeps, RxAffordable, RxOrder
<1>16. CASE Write("rx", "gate", "start")
  BY <1>16, <1>1, <1>2, <1>3, <1>4, WriteKeeps, RxAffordable, RxOrder
<1>17. CASE Send("rx", "start", "started", "START", ready)
  BY <1>17, <1>1, <1>2, <1>3, <1>4, FrameKeeps, RxAffordable, RxOrder DEF Frames
<1>18. CASE Receive("rx", "started", "stop", "STARTED", ready)
  BY <1>18, <1>1, <1>2, <1>3, <1>4, FrameKeeps, RxAffordable, RxOrder DEF Frames
<1>19. CASE Receive("rx", "stop", "settle", "STOP", c.duration_ms + c.start_delay_ms + ready)
  BY <1>19, <1>1, <1>2, <1>3, <1>4, FrameKeeps, RxAffordable, RxOrder DEF Frames
<1>20. CASE Pause("rx", "settle", "completions", c.settle_ms)
  BY <1>20, <1>1, <1>2, <1>3, <1>4, PauseKeeps, RxAffordable, RxOrder
<1>21. CASE Wait("rx", "completions", "flush1", 1, stop, c.drain_ms)
  BY <1>21, <1>1, <1>2, <1>3, <1>4, WaitKeeps, RxAffordable, RxOrder
<1>22. CASE Wait("rx", "flush1", "flush2", Enabled(0), stop + Poll, 0)
  BY <1>22, <1>1, <1>2, <1>3, <1>4, WaitKeeps, RxAffordable, RxOrder
<1>23. CASE Wait("rx", "flush2", "flush3", Enabled(1), stop + Poll, 0)
  BY <1>23, <1>1, <1>2, <1>3, <1>4, WaitKeeps, RxAffordable, RxOrder
<1>24. CASE Wait("rx", "flush3", "tail", Enabled(2), stop + Poll, 0)
  BY <1>24, <1>1, <1>2, <1>3, <1>4, WaitKeeps, RxAffordable, RxOrder
<1>25. CASE Pause("rx", "tail", "clock", If(tracking, 150))
  BY <1>25, <1>1, <1>2, <1>3, <1>4, PauseKeeps, RxAffordable, RxOrder
<1>26. CASE Wait("rx", "clock", "after", If(tracking, 1), stop + Poll, 0)
  BY <1>26, <1>1, <1>2, <1>3, <1>4, WaitKeeps, RxAffordable, RxOrder
<1>27. CASE Wait("rx", "after", "done", If(calibrating, 1), ready + Poll, 0)
  BY <1>27, <1>1, <1>2, <1>3, <1>4, WaitKeeps, RxAffordable, RxOrder
<1>28. CASE Send("rx", "done", "ack", "DONE", stop)
  BY <1>28, <1>1, <1>2, <1>3, <1>4, FrameKeeps, RxAffordable, RxOrder DEF Frames
<1>29. CASE Receive("rx", "ack", "stop_monitor", "ACK", stop)
  BY <1>29, <1>1, <1>2, <1>3, <1>4, FrameKeeps, RxAffordable, RxOrder DEF Frames
<1>30. CASE Pause("rx", "stop_monitor", "end", 0)
  BY <1>30, <1>1, <1>2, <1>3, <1>4, PauseKeeps, FreeSteps, RxOrder
<1> QED
  BY <1>5, <1>6, <1>7, <1>8, <1>9, <1>10, <1>11, <1>12, <1>13, <1>14, <1>15,
     <1>16, <1>17, <1>18, <1>19, <1>20, <1>21, <1>22, <1>23, <1>24, <1>25,
     <1>26, <1>27, <1>28, <1>29, <1>30
  DEF ReceiverRun

LEMMA SenderKeeps ==
  ASSUME BInv, SenderRun
  PROVE  BInv'
<1>1. /\ TypeOK /\ "tx" \in Ends
      /\ Enabled(0) \in Nat /\ Enabled(1) \in Nat /\ Enabled(2) \in Nat
  BY DEF BInv, Ends, Enabled, If
<1>2. If(~smoke, 1) \in Nat /\ If(c.network, 1) \in Nat /\ If(c.network, 100) \in Nat
  BY DEF If
<1>3. Enabled(0) + Enabled(1) + Enabled(2) \in Nat
  BY <1>1
<1>4. /\ ready \in Nat /\ stop \in Nat /\ ready + Poll \in Nat /\ stop + Poll \in Nat
      /\ c.warmup_ms \in Nat /\ c.settle_ms \in Nat /\ c.drain_ms \in Nat
      /\ c.duration_ms + c.start_delay_ms + ready \in Nat
      /\ c.start_delay_ms + c.duration_ms \in Nat
      /\ ready + c.warmup_ms \in Nat /\ 3 * stop + c.settle_ms + c.drain_ms \in Nat
  BY <1>1, ConfigTimes
<1>5. CASE Wait("tx", "begin", "prepare", 10, 10000, 0)
  BY <1>5, <1>1, <1>2, <1>3, <1>4, WaitKeeps, FreeSteps, TxOrder
<1>6. CASE Wait("tx", "prepare", "rx_ready", If(~smoke, 1), ready + Poll, 0)
  BY <1>6, <1>1, <1>2, <1>3, <1>4, WaitKeeps, FreeSteps, TxOrder
<1>7. CASE Receive("tx", "rx_ready", "state", "RX_READY", ready)
  BY <1>7, <1>1, <1>2, <1>3, <1>4, FrameKeeps, FreeSteps, TxOrder DEF Frames
<1>8. CASE Wait("tx", "state", "senders", 1, ready + Poll, 0)
  BY <1>8, <1>1, <1>2, <1>3, <1>4, WaitKeeps, FreeSteps, TxOrder
<1>9. CASE Wait("tx", "senders", "network", Enabled(0) + Enabled(1) + Enabled(2), ready + Poll, 0)
  BY <1>9, <1>1, <1>2, <1>3, <1>4, WaitKeeps, FreeSteps, TxOrder
<1>10. CASE Pause("tx", "network", "tx_ready", If(c.network, 100))
  BY <1>10, <1>1, <1>2, <1>3, <1>4, PauseKeeps, TxAffordable, TxOrder
<1>11. CASE Send("tx", "tx_ready", "start", "TX_READY", ready)
  BY <1>11, <1>1, <1>2, <1>3, <1>4, FrameKeeps, TxAffordable, TxOrder DEF Frames
<1>12. CASE Receive("tx", "start", "publish", "START", ready + c.warmup_ms)
  BY <1>12, <1>1, <1>2, <1>3, <1>4, FrameKeeps, TxAffordable, TxOrder DEF Frames
<1>13. CASE Write("tx", "publish", "started")
  BY <1>13, <1>1, <1>2, <1>3, <1>4, WriteKeeps, TxAffordable, TxOrder
<1>14. CASE Send("tx", "started", "sending", "STARTED", ready)
  BY <1>14, <1>1, <1>2, <1>3, <1>4, FrameKeeps, TxAffordable, TxOrder DEF Frames
<1>15. CASE Wait("tx", "sending", "stop", 1, c.duration_ms + c.start_delay_ms + ready,
                c.start_delay_ms + c.duration_ms)
  BY <1>15, <1>1, <1>2, <1>3, <1>4, WaitKeeps, TxAffordable, TxOrder
<1>16. CASE Send("tx", "stop", "done", "STOP", stop)
  BY <1>16, <1>1, <1>2, <1>3, <1>4, FrameKeeps, TxAffordable, TxOrder DEF Frames
<1>17. CASE Receive("tx", "done", "flush1", "DONE", 3 * stop + c.settle_ms + c.drain_ms)
  BY <1>17, <1>1, <1>2, <1>3, <1>4, FrameKeeps, TxAffordable, TxOrder DEF Frames
<1>18. CASE Wait("tx", "flush1", "flush2", Enabled(0), stop + Poll, 0)
  BY <1>18, <1>1, <1>2, <1>3, <1>4, WaitKeeps, TxAffordable, TxOrder
<1>19. CASE Wait("tx", "flush2", "flush3", Enabled(1), stop + Poll, 0)
  BY <1>19, <1>1, <1>2, <1>3, <1>4, WaitKeeps, TxAffordable, TxOrder
<1>20. CASE Wait("tx", "flush3", "stop_network", Enabled(2), stop + Poll, 0)
  BY <1>20, <1>1, <1>2, <1>3, <1>4, WaitKeeps, TxAffordable, TxOrder
<1>21. CASE Wait("tx", "stop_network", "after", If(c.network, 1), stop + Poll, 0)
  BY <1>21, <1>1, <1>2, <1>3, <1>4, WaitKeeps, FreeSteps, TxOrder
<1>22. CASE Wait("tx", "after", "write", 1, ready + Poll, 0)
  BY <1>22, <1>1, <1>2, <1>3, <1>4, WaitKeeps, FreeSteps, TxOrder
<1>23. CASE Write("tx", "write", "ack")
  BY <1>23, <1>1, <1>2, <1>3, <1>4, WriteKeeps, FreeSteps, TxOrder
<1>24. CASE Send("tx", "ack", "end", "ACK", stop)
  BY <1>24, <1>1, <1>2, <1>3, <1>4, FrameKeeps, FreeSteps, TxOrder DEF Frames
<1> QED
  BY <1>5, <1>6, <1>7, <1>8, <1>9, <1>10, <1>11, <1>12, <1>13, <1>14, <1>15,
     <1>16, <1>17, <1>18, <1>19, <1>20, <1>21, <1>22, <1>23, <1>24
  DEF SenderRun

-----------------------------------------------------------------------------
(* The theorem.                                                            *)

LEMMA BudgetInit ==
  ASSUME Init
  PROVE  BInv
<1>1. /\ pc \in [Ends -> RxSteps \cup TxSteps \cup {"end", "failed"}]
      /\ pc["rx"] \in RxSteps \cup {"end", "failed"}
      /\ pc["tx"] \in TxSteps \cup {"end", "failed"}
  BY DEF Init, Ends, RxSteps, TxSteps
<1>2. TypeOK
  <2>1. t \in [Ends -> Nat] /\ at \in [Frames -> Nat \cup {Never}]
        /\ since \in [Timed -> Nat \cup {Never}] /\ expired \subseteq Timed
    BY DEF Init
  <2>2. disturbed \in BOOLEAN
    BY ZenonT(10) DEF Init
  <2>3. c \in Configs /\ Accepted(c) /\ \E i \in 1..Len(c.modes) : mode = c.modes[i]
    BY DEF Init
  <2> QED
    BY <1>1, <2>1, <2>2, <2>3 DEF TypeOK
<1>3. \A k \in Loads : Within(k)
  BY DEF Init, Within, Loads, Timed
<1> QED
  BY <1>1, <1>2, <1>3 DEF BInv, Init, LoadsOutlive

LEMMA BudgetNext ==
  ASSUME BInv, [Next]_vars
  PROVE  BInv'
<1>1. CASE ReceiverRun
  BY <1>1, ReceiverKeeps
<1>2. CASE SenderRun
  BY <1>2, SenderKeeps
<1>3. CASE Fail("rx") \/ Fail("tx")
  BY <1>3, FailKeeps DEF Ends
<1>4. CASE UNCHANGED vars
  <2>1. c' = c /\ mode' = mode /\ pc' = pc /\ t' = t /\ at' = at /\ since' = since
        /\ expired' = expired /\ disturbed' = disturbed
    BY <1>4 DEF vars
  <2>2. TypeOK'
    BY <2>1 DEF BInv, TypeOK
  <2>3. ASSUME NEW k \in Loads
        PROVE  Within(k)'
    <3>1. Uses(k)' = Uses(k) /\ Due(Owner(k))' = Due(Owner(k))
      BY <2>1, SameConfig
    <3> QED
      BY <2>1, <3>1 DEF BInv, Within
  <2> QED
    BY <2>1, <2>2, <2>3 DEF BInv, LoadsOutlive
<1> QED
  BY <1>1, <1>2, <1>3, <1>4 DEF Next

(* For every configuration that read_run_config accepts, however long each *)
(* wait takes and whatever fails, the CPU and network loads and the clock  *)
(* tracking never end before receiver_run or sender_run asks them to: the  *)
(* lifetime that load_lifetime_seconds gives them covers every wait in     *)
(* between.                                                                *)
THEOREM LoadLifetime == Spec => []LoadsOutlive
<1>1. Init => BInv
  BY BudgetInit
<1>2. BInv /\ [Next]_vars => BInv'
  BY BudgetNext
<1>3. BInv => LoadsOutlive
  BY DEF BInv
<1> QED
  BY <1>1, <1>2, <1>3, PTL DEF Spec
=============================================================================
