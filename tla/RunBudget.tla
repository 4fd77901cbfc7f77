------------------------------ MODULE RunBudget -----------------------------
(***************************************************************************)
(* The time limits of one run (experiment/ace-run.c, receiver_run and      *)
(* sender_run).  Every wait of a supervisor has a limit of its own; the    *)
(* waits of the two ends must fit into each other, and the children that   *)
(* end by themselves after a time (the loads, the PHC tracker, a busy      *)
(* AF_XDP receiver) must outlast the waits of the supervisor that is going *)
(* to stop them.                                                           *)
(*                                                                         *)
(* Each end is a script whose steps take time; t is the instant, in        *)
(* milliseconds of a common clock, at which an end began its present step. *)
(* Nothing but frames passes between the ends, so they are simulated one   *)
(* at a time: the receiver goes as far as it can, then the sender.         *)
(* RunProtocol has the same scripts without time, with every child and     *)
(* fault; here a wait takes one of Times, or something fails.  That a      *)
(* supervisor notices the other's failure in the middle of a step is left  *)
(* out: it would only fail earlier.                                        *)
(***************************************************************************)
EXTENDS RunConfig

CONSTANTS
  Configs,    \* configurations to choose from
  Times(_),   \* how long a wait may take under a configuration
  Prompt,     \* what counts as prompt
  WriteTime   \* the longest time a small file takes to reach the disk

ASSUME TimesAssumption == \A k \in Configs : Times(k) \subseteq Nat
ASSUME PromptAssumption == Prompt \in Nat
ASSUME WriteAssumption == WriteTime \in Nat /\ WriteTime <= 4000

VARIABLES
  c,         \* the configuration
  mode,      \* the mode of this run
  pc,        \* the step an end is at
  t,         \* when that step began
  at,        \* when a frame arrives, Never before it is sent and once it
             \* was received
  since,     \* when a child with a time limit was started; Never before
             \* that, and once it was asked to stop
  expired,   \* the children that ended by themselves
  disturbed  \* some wait took more than Prompt, or something failed

vars == <<c, mode, pc, t, at, since, expired, disturbed>>

Ends == {"rx", "tx"}
Frames == {"RX_READY", "TX_READY", "START", "STARTED", "STOP", "DONE", "ACK"}
Timed == {"monitor", "network", "track", "busy"}
Never == -1

RxSteps == {"previous", "restore", "begin", "prepare", "track", "scheduler",
            "monitor", "rx_ready", "tx_ready", "warmup", "calibrate", "gate",
            "start", "started", "stop", "settle", "completions", "flush1",
            "flush2", "flush3", "tail", "clock", "after", "done", "ack",
            "stop_monitor"}
TxSteps == {"begin", "prepare", "rx_ready", "state", "senders", "network",
            "tx_ready", "start", "publish", "started", "sending", "stop",
            "done", "flush1", "flush2", "flush3", "stop_network", "after",
            "write", "ack"}

(* Every variable has its type.                                            *)
TypeOK ==
  /\ c \in Configs /\ Accepted(c)
  /\ \E i \in 1..Len(c.modes) : mode = c.modes[i]
  /\ pc \in [Ends -> RxSteps \cup TxSteps \cup {"end", "failed"}]
  /\ t \in [Ends -> Nat]
  /\ at \in [Frames -> Nat \cup {Never}]
  /\ since \in [Timed -> Nat \cup {Never}]
  /\ expired \subseteq Timed
  /\ disturbed \in BOOLEAN

(* The receiver may still be ending the previous run.                      *)
Init ==
  /\ c \in Configs /\ Accepted(c)
  /\ \E i \in 1..Len(c.modes) : mode = c.modes[i]
  /\ pc = [e \in Ends |-> IF e = "rx" THEN "previous" ELSE "begin"]
  /\ t = [e \in Ends |-> 0]
  /\ at = [f \in Frames |-> Never]
  /\ since = [k \in Timed |-> Never]
  /\ expired = {}
  /\ disturbed = FALSE

-----------------------------------------------------------------------------
(* Children with a time limit.                                             *)

smoke == mode = "socket-only"
tracking == ~smoke /\ c.phc_tracking
calibrating == ~smoke /\ ~c.phc_tracking

If(condition, n) == IF condition THEN n ELSE 0
Enabled(i) == If(c.flows[i].enabled, 1)

Uses(k) ==
  CASE k = "monitor" -> c.observed \/ c.cpu_percent > 0 \/ c.network
    [] k = "network" -> c.network
    [] k = "track" -> tracking
    [] k = "busy" -> c.xsk_busy /\ c.flows[2].enabled /\ run_flow_path(mode, 2) = "xsk"

Lifetime(k) ==
  IF k = "busy" THEN 1000 * busy_limit(c) ELSE 1000 * load_lifetime_seconds(c)

Owner(k) == IF k = "network" THEN "tx" ELSE "rx"

(* The steps that begin with starting it (a busy receiver: releasing it),  *)
(* and with asking it to stop.                                             *)
StartStep(k) == CASE k = "monitor" -> "monitor" [] k = "network" -> "network"
                  [] k = "track" -> "track" [] k = "busy" -> "gate"
StopStep(k) == CASE k = "monitor" -> "stop_monitor" [] k = "network" -> "stop_network"
                 [] k = "track" -> "clock" [] k = "busy" -> "completions"

(* The children whose time is over before the end s, in a step, comes to   *)
(* an instant.                                                             *)
Ended(s, from, instant) ==
  {k \in Timed : /\ s = Owner(k) /\ since[k] # Never /\ from # StopStep(k)
                 /\ instant >= since[k] + Lifetime(k)}

-----------------------------------------------------------------------------
(* Steps of a script.                                                      *)

(* The end s comes from one step to the next at an instant.  Every wait    *)
(* includes reap, which fails when a child has ended by itself.            *)
Goto(s, from, to, instant) ==
  /\ pc' = [pc EXCEPT ![s] = IF Ended(s, from, instant) = {} THEN to ELSE "failed"]
  /\ t' = [t EXCEPT ![s] = instant]
  /\ since' = [k \in Timed |->
       IF s = Owner(k) /\ to = StartStep(k) /\ Uses(k) THEN instant
       ELSE IF s = Owner(k) /\ from = StopStep(k) THEN Never
       ELSE since[k]]
  /\ expired' = expired \cup Ended(s, from, instant)
  /\ UNCHANGED <<c, mode>>

(* pause_ms                                                                *)
Pause(s, from, to, ms) ==
  /\ pc[s] = from
  /\ Goto(s, from, to, t[s] + ms)
  /\ UNCHANGED <<at, disturbed>>

(* n waits one after the other, each for at most limit: wait_child,        *)
(* ready_child, stop_child, wait_completions.  What is waited for takes up *)
(* to nominal by its nature, and d more.                                   *)
Wait(s, from, to, n, limit, nominal) ==
  IF n = 0
    THEN Pause(s, from, to, 0)
    ELSE /\ pc[s] = from
         /\ \E d \in Times(c) : \E took \in {d, nominal + d} :
              /\ IF took <= limit
                   THEN Goto(s, from, to, t[s] + n * took)
                   ELSE Goto(s, from, "failed", t[s] + n * limit)
              /\ disturbed' = (disturbed \/ d > Prompt)
         /\ UNCHANGED at

(* write_run: nothing limits it but the disk.                              *)
Write(s, from, to) ==
  /\ pc[s] = from
  /\ \E d \in Times(c) : /\ d <= WriteTime
                      /\ Goto(s, from, to, t[s] + d)
                      /\ disturbed' = (disturbed \/ d > Prompt)
  /\ UNCHANGED at

(* Something fails at once.                                                *)
Fail(s) ==
  /\ pc[s] \notin {"end", "failed"}
  /\ Goto(s, pc[s], "failed", t[s])
  /\ disturbed' = TRUE
  /\ UNCHANGED at

(* message(x, type, 1, limit): the frame arrives when the call ends.       *)
Send(s, from, to, type, limit) ==
  /\ pc[s] = from
  /\ \E d \in Times(c) :
       /\ IF d <= limit
            THEN Goto(s, from, to, t[s] + d) /\ at' = [at EXCEPT ![type] = t[s] + d]
            ELSE Goto(s, from, "failed", t[s] + limit) /\ UNCHANGED at
       /\ disturbed' = (disturbed \/ d > Prompt)

Later(a, b) == IF a < b THEN b ELSE a
Peer(s) == IF s = "rx" THEN "tx" ELSE "rx"

(* Wrong: the failure of the other end goes unnoticed.                     *)
ReceiveForever(s, from, to, type, limit) ==
  /\ pc[s] = from
  /\ at[type] # Never
  /\ IF at[type] <= t[s] + limit
       THEN Goto(s, from, to, Later(t[s], at[type]))
       ELSE Goto(s, from, "failed", t[s] + limit)
  /\ at' = [at EXCEPT ![type] = Never]
  /\ UNCHANGED disturbed

(* message(x, type, 0, limit): the frame arrives in time; or it does not,  *)
(* and the wait ends at its limit, or before that when the other end has   *)
(* failed.                                                                 *)
Receive(s, from, to, type, limit) ==
  /\ pc[s] = from
  /\ \/ /\ at[type] # Never /\ at[type] <= t[s] + limit
        /\ Goto(s, from, to, Later(t[s], at[type]))
     \/ /\ at[type] > t[s] + limit
        /\ Goto(s, from, "failed", t[s] + limit)
     \/ /\ at[type] = Never /\ pc[Peer(s)] = "failed"
        /\ Goto(s, from, "failed",
                IF t[Peer(s)] > t[s] + limit THEN t[s] + limit
                ELSE Later(t[s], t[Peer(s)]))
  /\ at' = [at EXCEPT ![type] = Never]
  /\ UNCHANGED disturbed

-----------------------------------------------------------------------------
(* The two scripts.  A child is looked at every 10 ms.                     *)

Poll == 10
ready == c.ready_ms
stop == c.stop_ms

(* State, environment, loader, CPU check and reservation, coalescing saved *)
(* and applied, receivers.                                                 *)
PrepareWaits ==
  1 + If(~smoke, 2 + If(c.shared # {}, 1) + If(run_cpumap_active(c, mode), 1)
                   + If(c.coalesce, 2))
    + Enabled(0) + Enabled(1) + Enabled(2)

(* begin_run starts ten commands for the manifest, each with ten seconds.  *)
ReceiverRun ==
  \/ Wait("rx", "previous", "restore", 3, stop + Poll, 0)
  \/ Wait("rx", "restore", "begin", 2, ready + Poll, 0)
  \/ Wait("rx", "begin", "prepare", 10, 10000, 0)
  \/ Wait("rx", "prepare", "track", PrepareWaits, ready + Poll, 0)
  \/ Wait("rx", "track", "scheduler", If(tracking, 1), ready + Poll, 0)
  \/ Wait("rx", "scheduler", "monitor", 1, ready + Poll, 0)
  \/ Wait("rx", "monitor", "rx_ready", If(Uses("monitor"), 1), ready + Poll, 0)
  \/ Send("rx", "rx_ready", "tx_ready", "RX_READY", ready)
  \/ Receive("rx", "tx_ready", "warmup", "TX_READY", ready)
  \/ Pause("rx", "warmup", "calibrate", c.warmup_ms)
  \/ Wait("rx", "calibrate", "gate", If(calibrating, 1), ready + Poll, 0)
  \/ Write("rx", "gate", "start")
  \/ Send("rx", "start", "started", "START", ready)
  \/ Receive("rx", "started", "stop", "STARTED", ready)
  \/ Receive("rx", "stop", "settle", "STOP", c.duration_ms + c.start_delay_ms + ready)
  \/ Pause("rx", "settle", "completions", c.settle_ms)
  \/ Wait("rx", "completions", "flush1", 1, stop, c.drain_ms)
  \/ Wait("rx", "flush1", "flush2", Enabled(0), stop + Poll, 0)
  \/ Wait("rx", "flush2", "flush3", Enabled(1), stop + Poll, 0)
  \/ Wait("rx", "flush3", "tail", Enabled(2), stop + Poll, 0)
  \/ Pause("rx", "tail", "clock", If(tracking, 150))
  \/ Wait("rx", "clock", "after", If(tracking, 1), stop + Poll, 0)
  \/ Wait("rx", "after", "done", If(calibrating, 1), ready + Poll, 0)
  \/ Send("rx", "done", "ack", "DONE", stop)
  \/ Receive("rx", "ack", "stop_monitor", "ACK", stop)
  \/ Pause("rx", "stop_monitor", "end", 0)

(* The senders end by start_delay and duration after the start file.       *)
SenderRun ==
  \/ Wait("tx", "begin", "prepare", 10, 10000, 0)
  \/ Wait("tx", "prepare", "rx_ready", If(~smoke, 1), ready + Poll, 0)
  \/ Receive("tx", "rx_ready", "state", "RX_READY", ready)
  \/ Wait("tx", "state", "senders", 1, ready + Poll, 0)
  \/ Wait("tx", "senders", "network", Enabled(0) + Enabled(1) + Enabled(2), ready + Poll, 0)
  \/ Pause("tx", "network", "tx_ready", If(c.network, 100))
  \/ Send("tx", "tx_ready", "start", "TX_READY", ready)
  \/ Receive("tx", "start", "publish", "START", ready + c.warmup_ms)
  \/ Write("tx", "publish", "started")
  \/ Send("tx", "started", "sending", "STARTED", ready)
  \/ Wait("tx", "sending", "stop", 1, c.duration_ms + c.start_delay_ms + ready,
          c.start_delay_ms + c.duration_ms)
  \/ Send("tx", "stop", "done", "STOP", stop)
  \/ Receive("tx", "done", "flush1", "DONE", 3 * stop + c.settle_ms + c.drain_ms)
  \/ Wait("tx", "flush1", "flush2", Enabled(0), stop + Poll, 0)
  \/ Wait("tx", "flush2", "flush3", Enabled(1), stop + Poll, 0)
  \/ Wait("tx", "flush3", "stop_network", Enabled(2), stop + Poll, 0)
  \/ Wait("tx", "stop_network", "after", If(c.network, 1), stop + Poll, 0)
  \/ Wait("tx", "after", "write", 1, ready + Poll, 0)
  \/ Write("tx", "write", "ack")
  \/ Send("tx", "ack", "end", "ACK", stop)

(* The receiver can go no further before the sender does.                  *)
SendersTurn ==
  \/ pc["rx"] \in {"end", "failed"}
  \/ pc["rx"] = "tx_ready" /\ at["TX_READY"] = Never
  \/ pc["rx"] = "started" /\ at["STARTED"] = Never
  \/ pc["rx"] = "stop" /\ at["STOP"] = Never
  \/ pc["rx"] = "ack" /\ at["ACK"] = Never

Next ==
  \/ ReceiverRun \/ Fail("rx")
  \/ SendersTurn /\ (SenderRun \/ Fail("tx"))

Spec == Init /\ [][Next]_vars

(* A supervisor never rests: each of its waits ends by its limit.  Nothing *)
(* has to fail.                                                            *)
FairSpec == Spec /\ WF_vars(ReceiverRun \/ (SendersTurn /\ SenderRun))

-----------------------------------------------------------------------------
(* Properties.                                                             *)

(* The loads and the clock tracking never end before their supervisor asks *)
(* them to, however long each of its waits takes: "the runner keeps load   *)
(* alive through settle/drain, calibration, receiver flush and the peer's  *)
(* final ACK" (load_lifetime_seconds).                                     *)
LoadsOutlive == expired \subseteq {"busy"}

(* The limits are wide enough for waits that are all prompt.               *)
Fits ==
  /\ 29 * Prompt <= ready /\ 16 * Prompt + 100 <= ready
  /\ Prompt <= 100 /\ 7 * Prompt <= stop /\ 6 * Prompt + 150 <= 3 * stop
  /\ Uses("busy") => c.settle_ms + 6 * Prompt < stop

(* When every wait is prompt no limit is exceeded: those of the two ends   *)
(* (message, wait_child, wait_completions, which must leave the receivers  *)
(* their drain time), and the alarm of a busy AF_XDP receiver, which must  *)
(* leave it the settling time.                                             *)
PromptRunsSucceed ==
  ~disturbed /\ Fits => expired = {} /\ \A s \in Ends : pc[s] # "failed"

(* Both ends come to an end, whatever fails and whenever.                  *)
Termination == <>(\A s \in Ends : pc[s] \in {"end", "failed"})
=============================================================================
