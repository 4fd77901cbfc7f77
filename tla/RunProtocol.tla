---------------------------- MODULE RunProtocol -----------------------------
(***************************************************************************)
(* The two supervisors of an experiment (experiment/ace-run.c): "rx", run  *)
(* as ace-run receiver, and "tx", run as ace-run sender.  They take a      *)
(* series of runs through the same phases over one TCP connection; each    *)
(* spawns the children of its side, watches them, and leaves a verdict in  *)
(* the run directory.                                                      *)
(*                                                                         *)
(* A frame is its type and run index: magic, digest, run_id and nonce are  *)
(* the same on both sides for the whole connection.  Time is abstracted:   *)
(* every wait of the code is bounded, so every wait may time out.          *)
(***************************************************************************)
EXTENDS Naturals, Sequences, FiniteSets

CONSTANTS Flows,   \* the enabled flows; each has a sender and a receiver
          Runs,    \* number of runs (repeats times modes)
          MaxFaults \* bound on the failures of children, disks, deadlines

ASSUME RunProtocolAssumption ==
  /\ IsFiniteSet(Flows) /\ Flows # {}
  /\ Flows \cap {"loader", "monitor", "network"} = {}
  /\ Runs \in Nat \ {0}
  /\ MaxFaults \in Nat

VARIABLES
  pc,       \* control point of each supervisor
  index,    \* x->index: the run each supervisor is in
  net,      \* frames in flight to each supervisor
  open,     \* whether its socket is still open
  child,    \* side -> child -> its state
  asked,    \* side -> children with c->stopping set
  reported, \* side -> flows whose completion byte is in the pipe
  done,     \* side -> flows with c->measurement_done set
  released, \* side -> flows that were sent SIGUSR1
  started,  \* whether start.ns of the sender's current run exists
  owns,     \* x->owns_run
  stopping, \* the flag signal_stop sets
  states,   \* side -> run -> the states written to run.json so far
  marks,    \* side -> run -> marker files in its directory
  missed,   \* runs in which a packet was sent that nobody captured
  faults    \* failures outside the protocol so far

vars == <<pc, index, net, open, child, asked, reported, done, released, started,
          owns, stopping, states, marks, missed, faults>>

Sides == {"rx", "tx"}
Peer(s) == IF s = "rx" THEN "tx" ELSE "rx"
RunIds == 1..Runs

Children(s) == Flows \cup (IF s = "rx" THEN {"loader", "monitor"} ELSE {"network"})

(* A flow's child is "up" once ready, "sending" (senders only), "complete" *)
(* when it has reported and waits for SIGUSR1; "ok" and "bad" are ends.    *)
ChildStates == {"none", "up", "sending", "complete", "ok", "bad"}
Alive(s, c) == child[s][c] \in {"up", "sending", "complete"}

FrameTypes == {"HELLO", "RX_READY", "TX_READY", "START", "STARTED", "STOP",
               "DONE", "ACK", "FAIL"}
Frames == [type : FrameTypes, index : 0..Runs]

RxLabels == {"hello", "hello_reply", "begin", "prepare", "loader", "receivers",
             "monitor", "rx_ready", "tx_ready", "warmup", "start", "started",
             "stop", "settle", "completions", "flush", "wait_flows",
             "calibrate", "done", "ack", "stop_monitor", "wait_monitor",
             "stop_loader", "wait_loader", "restore", "mark"}
TxLabels == {"hello", "hello_reply", "begin", "prepare", "rx_ready", "senders",
             "network", "tx_ready", "start", "release", "started",
             "completions", "stop", "done", "flush", "wait_flows",
             "stop_network", "wait_network", "completed", "ack", "mark"}
FailLabels == {"fail", "cleanup", "cleanup_wait", "cleanup_loader",
               "cleanup_loader_wait", "mark_failed", "exit"}

(* Every variable has its type.                                            *)
TypeOK ==
  /\ pc["rx"] \in RxLabels \cup FailLabels
  /\ pc["tx"] \in TxLabels \cup FailLabels
  /\ index \in [Sides -> 0..Runs]
  /\ \A s \in Sides : /\ net[s] \in Seq(Frames)
                      /\ child[s] \in [Children(s) -> ChildStates]
                      /\ asked[s] \subseteq Children(s)
                      /\ reported[s] \subseteq Flows
                      /\ done[s] \subseteq Flows
                      /\ released[s] \subseteq Flows
  /\ open \in [Sides -> BOOLEAN]
  /\ started \in BOOLEAN
  /\ owns \in [Sides -> BOOLEAN]
  /\ stopping \in [Sides -> BOOLEAN]
  /\ states \in [Sides -> [RunIds -> SUBSET {"preparing", "running",
                                             "completed", "failed"}]]
  /\ marks \in [Sides -> [RunIds -> SUBSET {"complete", "failed"}]]
  /\ missed \subseteq RunIds
  /\ faults \in 0..MaxFaults

NoChildren(s) == [c \in Children(s) |-> "none"]

(* connect_peer has just connected; nothing has been exchanged.            *)
Init ==
  /\ pc = [s \in Sides |-> "hello"]
  /\ index = [s \in Sides |-> 0]
  /\ net = [s \in Sides |-> <<>>]
  /\ open = [s \in Sides |-> TRUE]
  /\ child = [s \in Sides |-> NoChildren(s)]
  /\ asked = [s \in Sides |-> {}]
  /\ reported = [s \in Sides |-> {}]
  /\ done = [s \in Sides |-> {}]
  /\ released = [s \in Sides |-> {}]
  /\ started = FALSE
  /\ owns = [s \in Sides |-> FALSE]
  /\ stopping = [s \in Sides |-> FALSE]
  /\ states = [s \in Sides |-> [i \in RunIds |-> {}]]
  /\ marks = [s \in Sides |-> [i \in RunIds |-> {}]]
  /\ missed = {}
  /\ faults = 0

childVars == <<child, asked, reported, done, released, started>>
diskVars  == <<owns, states, marks>>
envVars   == <<stopping, missed, faults>>
procVars  == <<index, open, childVars, diskVars, envVars>>

Goto(s, label) == pc' = [pc EXCEPT ![s] = label]

(* Something outside the protocol goes wrong.                              *)
Fault == faults < MaxFaults /\ faults' = faults + 1

-----------------------------------------------------------------------------
(* Wrong: a sender that ends well counts as a failure too.                 *)
ReapFailsOnSenders(s) ==
  \E c \in Children(s) \ asked[s] : child[s][c] \in {"ok", "bad"}

(* Wrong: a persistent child may end with status 0.                        *)
ReapFailsOnStatusOnly(s) == \E c \in Children(s) \ asked[s] : child[s][c] = "bad"

(* reap: a child that ended unasked is a failure, unless it is a sender    *)
(* that ended well.                                                        *)
ReapFails(s) ==
  \E c \in Children(s) \ asked[s] :
    child[s][c] = "bad" \/ (child[s][c] = "ok" /\ ~(s = "tx" /\ c \in Flows))

Healthy(s) == ~stopping[s] /\ ~ReapFails(s)

(* request_stop: a child is asked unless it was seen to have ended.        *)
RequestStop(s, cs) ==
  \E ended \in SUBSET {c \in cs : child[s][c] \in {"ok", "bad"}} :
    asked' = [asked EXCEPT ![s] = @ \cup {c \in cs : Alive(s, c)} \cup ended]

-----------------------------------------------------------------------------
(* transfer and message.                                                   *)

Frame(s, type) == [type |-> type, index |-> index[s]]

(* A frame written after the peer has closed is lost.                      *)
Deliver(s, type) ==
  net' = IF open[Peer(s)] THEN [net EXCEPT ![Peer(s)] = Append(@, Frame(s, type))]
                          ELSE net

Send(s, from, type, to) ==
  /\ pc[s] = from
  /\ Healthy(s)
  /\ Deliver(s, type)
  /\ Goto(s, to)
  /\ UNCHANGED procVars

(* Wrong: the type of the frame is not compared.                           *)
ReceiveAnyType(s, from, type, to) ==
  /\ pc[s] = from
  /\ Healthy(s)
  /\ net[s] # <<>>
  /\ net' = [net EXCEPT ![s] = Tail(@)]
  /\ Goto(s, IF Head(net[s]).index = index[s] THEN to ELSE "fail")
  /\ UNCHANGED procVars

(* Any other frame than the expected one, FAIL included, is an error.      *)
Receive(s, from, type, to) ==
  /\ pc[s] = from
  /\ Healthy(s)
  /\ net[s] # <<>>
  /\ net' = [net EXCEPT ![s] = Tail(@)]
  /\ Goto(s, IF Head(net[s]) = Frame(s, type) THEN to ELSE "fail")
  /\ UNCHANGED procVars

Sends(s) == IF s = "rx" THEN {"hello_reply", "rx_ready", "start", "done"}
                        ELSE {"hello", "tx_ready", "started", "stop", "ack"}

Receives(s) == IF s = "rx" THEN {"hello", "tx_ready", "started", "stop", "ack"}
                           ELSE {"hello_reply", "rx_ready", "start", "done"}

(* Wrong: end of file on a read is not an error.                           *)
ConnectionLostOnWrite(s) ==
  /\ ~open[Peer(s)]
  /\ pc[s] \in Sends(s)
  /\ Goto(s, "fail")
  /\ UNCHANGED <<net, procVars>>

(* The peer has closed: a write fails, or nothing is left to read.         *)
ConnectionLost(s) ==
  /\ ~open[Peer(s)]
  /\ \/ pc[s] \in Sends(s)
     \/ pc[s] \in Receives(s) \cup {"completions"} /\ net[s] = <<>>
  /\ Goto(s, "fail")
  /\ UNCHANGED <<net, procVars>>

-----------------------------------------------------------------------------
(* Steps both supervisors take.                                            *)

(* begin_run: the table of children is emptied, the run directory made.    *)
BeginRun(s) ==
  /\ pc[s] = "begin"
  /\ index' = [index EXCEPT ![s] = @ + 1]
  /\ child' = [child EXCEPT ![s] = NoChildren(s)]
  /\ asked' = [asked EXCEPT ![s] = {}]
  /\ reported' = [reported EXCEPT ![s] = {}]
  /\ done' = [done EXCEPT ![s] = {}]
  /\ released' = [released EXCEPT ![s] = {}]
  /\ started' = (s = "rx" /\ started)
  /\ \/ /\ owns' = [owns EXCEPT ![s] = TRUE]
        /\ states' = [states EXCEPT ![s][index[s] + 1] = {"preparing"}]
        /\ Goto(s, "prepare")
        /\ UNCHANGED faults
     \/ /\ Fault
        /\ \E made \in BOOLEAN :
             /\ owns' = [owns EXCEPT ![s] = made]
             /\ \/ UNCHANGED states
                \/ made /\ states' = [states EXCEPT ![s][index[s] + 1] = {"preparing"}]
        /\ Goto(s, "fail")
  /\ UNCHANGED <<net, open, stopping, marks, missed>>

(* A step that runs helpers or pauses: prepare_environment, capture_state, *)
(* calibrate, warm-up.                                                     *)
Work(s, from, to) ==
  /\ pc[s] = from
  /\ Healthy(s)
  /\ Goto(s, to)
  /\ UNCHANGED <<net, procVars>>

(* Children are spawned and reach their ready files (ready_child).         *)
SpawnChildren(s, from, cs, to) ==
  /\ pc[s] = from
  /\ Healthy(s)
  /\ child' = [child EXCEPT ![s] = [c \in Children(s) |->
                                      IF c \in cs THEN "up" ELSE child[s][c]]]
  /\ Goto(s, to)
  /\ UNCHANGED <<index, net, open, asked, reported, done, released, started,
                 diskVars, envVars>>

(* write_run                                                               *)
WriteRun(s, from, state, to) ==
  /\ pc[s] = from
  /\ states' = [states EXCEPT ![s][index[s]] = @ \cup {state}]
  /\ Goto(s, to)
  /\ UNCHANGED <<index, net, open, childVars, owns, marks, envVars>>

(* wait_completions: one completion byte is read ...                       *)
ReadCompletion(s) ==
  /\ pc[s] = "completions"
  /\ Healthy(s)
  /\ net[s] = <<>>
  /\ \E f \in reported[s] \ done[s] : done' = [done EXCEPT ![s] = @ \cup {f}]
  /\ UNCHANGED <<pc, index, net, open, child, asked, reported, released, started,
                 diskVars, envVars>>

(* ... all are there ...                                                   *)
CompletionsDone(s, to) ==
  /\ pc[s] = "completions"
  /\ Healthy(s)
  /\ done[s] = Flows
  /\ Goto(s, to)
  /\ UNCHANGED <<net, procVars>>

(* ... or the control socket is readable, or a pipe ends without a byte.   *)
CompletionsFail(s) ==
  /\ pc[s] = "completions"
  /\ done[s] # Flows
  /\ net[s] # <<>> \/ \E f \in Flows \ reported[s] : child[s][f] \in {"ok", "bad"}
  /\ Goto(s, "fail")
  /\ UNCHANGED <<net, procVars>>

(* SIGUSR1 to the flow children.                                           *)
FlushFlows(s) ==
  /\ pc[s] = "flush"
  /\ released' = [released EXCEPT ![s] = Flows]
  /\ Goto(s, "wait_flows")
  /\ UNCHANGED <<index, net, open, child, asked, reported, done, started,
                 diskVars, envVars>>

StopChild(s, from, c, to) ==
  /\ pc[s] = from
  /\ RequestStop(s, {c})
  /\ Goto(s, to)
  /\ UNCHANGED <<index, net, open, child, reported, done, released, started,
                 diskVars, envVars>>

(* wait_child of the children cs: all ended well, or one did not.  With    *)
(* cleanup set neither the stop flag nor the other children matter.        *)
WaitChildren(s, from, cs, cleanup, to) ==
  /\ pc[s] = from
  /\ \/ /\ \A c \in cs : child[s][c] = "ok"
        /\ cleanup \/ Healthy(s)
        /\ Goto(s, to)
     \/ (\E c \in cs : child[s][c] = "bad") /\ Goto(s, "fail")
  /\ UNCHANGED <<net, procVars>>

(* Its deadline passes: the child is killed.                               *)
WaitTimeout(s, from, cs) ==
  /\ Fault
  /\ pc[s] = from
  /\ \E c \in cs :
       /\ Alive(s, c)
       /\ child' = [child EXCEPT ![s][c] = "bad"]
       /\ asked' = [asked EXCEPT ![s] = @ \cup {c}]
  /\ Goto(s, "fail")
  /\ UNCHANGED <<index, net, open, reported, done, released, started, diskVars,
                 stopping, missed>>

(* marker(".complete") and the next turn of the loop in main.              *)
MarkComplete(s) ==
  /\ pc[s] = "mark"
  /\ marks' = [marks EXCEPT ![s][index[s]] = @ \cup {"complete"}]
  /\ \/ /\ Goto(s, IF index[s] < Runs THEN "begin" ELSE "exit")
        /\ open' = [open EXCEPT ![s] = index[s] < Runs]
        /\ UNCHANGED faults
     \/ /\ Fault
        /\ Goto(s, "fail")
        /\ UNCHANGED open
  /\ UNCHANGED <<index, net, childVars, owns, states, stopping, missed>>

-----------------------------------------------------------------------------
(* The failure path of main.                                               *)

(* Steps that end otherwise, or that only a child or a deadline can fail.  *)
Unfailing(s) == FailLabels \cup {"begin", "mark", "flush", "stop_monitor",
  "wait_monitor", "stop_loader", "wait_loader", "stop_network", "wait_network"}
  \cup (IF s = "rx" THEN {"wait_flows"} ELSE {})

(* A signal, a child that ended, a deadline or a system call that failed:  *)
(* the current step returns an error.                                      *)
StepFails(s) ==
  /\ pc[s] \notin Unfailing(s)
  /\ \/ ~Healthy(s) /\ UNCHANGED faults
     \/ Fault
  /\ Goto(s, "fail")
  /\ UNCHANGED <<index, net, open, childVars, diskVars, stopping, missed>>

(* The handshake fails before the loop: main returns at once.              *)
HandshakeFails(s) ==
  /\ pc[s] = "fail"
  /\ index[s] = 0
  /\ Goto(s, "exit")
  /\ open' = [open EXCEPT ![s] = FALSE]
  /\ UNCHANGED <<index, net, childVars, diskVars, envVars>>

(* FAIL is sent if the socket takes it within a second.                    *)
SendFail(s) ==
  /\ pc[s] = "fail"
  /\ index[s] > 0
  /\ Deliver(s, "FAIL") \/ UNCHANGED net
  /\ Goto(s, "cleanup")
  /\ UNCHANGED procVars

(* Wrong: the loader is stopped along with the others.                     *)
CleanupStopAll(s) ==
  /\ pc[s] = "cleanup"
  /\ RequestStop(s, Children(s))
  /\ released' = [released EXCEPT ![s] = Flows]
  /\ Goto(s, "cleanup_wait")
  /\ UNCHANGED <<index, net, open, child, reported, done, started, diskVars,
                 envVars>>

(* cleanup_children: everybody but the loader is asked to stop and the     *)
(* flush barrier is lifted, ...                                            *)
CleanupStop(s) ==
  /\ pc[s] = "cleanup"
  /\ RequestStop(s, Children(s) \ {"loader"})
  /\ released' = [released EXCEPT ![s] = Flows]
  /\ Goto(s, "cleanup_wait")
  /\ UNCHANGED <<index, net, open, child, reported, done, started, diskVars,
                 envVars>>

(* ... they end or are killed, ...                                         *)
CleanupWait(s) ==
  /\ pc[s] = "cleanup_wait"
  /\ LET waiting == {c \in Children(s) \ {"loader"} : Alive(s, c)}
     IN  /\ IF waiting = {} THEN UNCHANGED faults ELSE Fault
         /\ child' = [child EXCEPT ![s] = [c \in Children(s) |->
                        IF c \in waiting THEN "bad" ELSE child[s][c]]]
  /\ Goto(s, "cleanup_loader")
  /\ UNCHANGED <<index, net, open, asked, reported, done, released, started,
                 diskVars, stopping, missed>>

(* ... and the loader last.                                                *)
CleanupLoader(s) ==
  /\ pc[s] = "cleanup_loader"
  /\ RequestStop(s, Children(s) \cap {"loader"})
  /\ Goto(s, "cleanup_loader_wait")
  /\ UNCHANGED <<index, net, open, child, reported, done, released, started,
                 diskVars, envVars>>

CleanupLoaderWait(s) ==
  /\ pc[s] = "cleanup_loader_wait"
  /\ LET waiting == {c \in Children(s) \cap {"loader"} : Alive(s, c)}
     IN  /\ IF waiting = {} THEN UNCHANGED faults ELSE Fault
         /\ child' = [child EXCEPT ![s] = [c \in Children(s) |->
                        IF c \in waiting THEN "bad" ELSE child[s][c]]]
  /\ Goto(s, "mark_failed")
  /\ UNCHANGED <<index, net, open, asked, reported, done, released, started,
                 diskVars, stopping, missed>>

(* run.json and .failed, if the directory is ours (a write that fails is   *)
(* ignored); then main ends.  Closing a socket with unread data resets the *)
(* connection, and the peer may lose what it has not read yet.             *)
MarkFailed(s) ==
  /\ pc[s] = "mark_failed"
  /\ \/ /\ owns[s]
        /\ states' = [states EXCEPT ![s][index[s]] = @ \cup {"failed"}]
        /\ marks' = [marks EXCEPT ![s][index[s]] = @ \cup {"failed"}]
        /\ UNCHANGED faults
     \/ /\ IF owns[s] THEN Fault ELSE UNCHANGED faults
        /\ UNCHANGED <<states, marks>>
  /\ open' = [open EXCEPT ![s] = FALSE]
  /\ \/ UNCHANGED net
     \/ net[s] # <<>> /\ net' = [net EXCEPT ![Peer(s)] = <<>>]
  /\ Goto(s, "exit")
  /\ UNCHANGED <<index, childVars, owns, stopping, missed>>

-----------------------------------------------------------------------------
(* receiver_run                                                            *)

(* The receivers are asked to stop once the settle time is over.           *)
StopReceivers ==
  /\ pc["rx"] = "settle"
  /\ Healthy("rx")
  /\ RequestStop("rx", Flows)
  /\ Goto("rx", "completions")
  /\ UNCHANGED <<index, net, open, child, reported, done, released, started,
                 diskVars, envVars>>

ReceiverRun ==
  \/ Receive("rx", "hello", "HELLO", "hello_reply")
  \/ Send("rx", "hello_reply", "HELLO", "begin")
  \/ Work("rx", "prepare", "loader")
  \/ SpawnChildren("rx", "loader", {"loader"}, "receivers")
  \/ SpawnChildren("rx", "receivers", Flows, "monitor")
  \/ SpawnChildren("rx", "monitor", {"monitor"}, "rx_ready")
  \/ Send("rx", "rx_ready", "RX_READY", "tx_ready")
  \/ Receive("rx", "tx_ready", "TX_READY", "warmup")
  \/ Healthy("rx") /\ WriteRun("rx", "warmup", "running", "start")
  \/ Send("rx", "start", "START", "started")
  \/ Receive("rx", "started", "STARTED", "stop")
  \/ Receive("rx", "stop", "STOP", "settle")
  \/ StopReceivers
  \/ CompletionsDone("rx", "flush")
  \/ WaitChildren("rx", "wait_flows", Flows, TRUE, "calibrate")
  \/ Work("rx", "calibrate", "done")
  \/ Send("rx", "done", "DONE", "ack")
  \/ Receive("rx", "ack", "ACK", "stop_monitor")
  \/ StopChild("rx", "stop_monitor", "monitor", "wait_monitor")
  \/ WaitChildren("rx", "wait_monitor", {"monitor"}, TRUE, "stop_loader")
  \/ StopChild("rx", "stop_loader", "loader", "wait_loader")
  \/ WaitChildren("rx", "wait_loader", {"loader"}, TRUE, "restore")
  \/ Healthy("rx") /\ WriteRun("rx", "restore", "completed", "mark")
  \/ WaitTimeout("rx", "wait_flows", Flows)
  \/ WaitTimeout("rx", "wait_monitor", {"monitor"})
  \/ WaitTimeout("rx", "wait_loader", {"loader"})

-----------------------------------------------------------------------------
(* sender_run                                                              *)

(* run.json and then start.ns, which the senders poll for.                 *)
ReleaseSenders ==
  /\ pc["tx"] = "release"
  /\ states' = [states EXCEPT !["tx"][index["tx"]] = @ \cup {"running"}]
  /\ started' = TRUE
  /\ Goto("tx", "started")
  /\ UNCHANGED <<index, net, open, child, asked, reported, done, released, owns,
                 marks, envVars>>

SenderRun ==
  \/ Send("tx", "hello", "HELLO", "hello_reply")
  \/ Receive("tx", "hello_reply", "HELLO", "begin")
  \/ Work("tx", "prepare", "rx_ready")
  \/ Receive("tx", "rx_ready", "RX_READY", "senders")
  \/ SpawnChildren("tx", "senders", Flows, "network")
  \/ SpawnChildren("tx", "network", {"network"}, "tx_ready")
  \/ Send("tx", "tx_ready", "TX_READY", "start")
  \/ Receive("tx", "start", "START", "release")
  \/ ReleaseSenders
  \/ Send("tx", "started", "STARTED", "completions")
  \/ CompletionsDone("tx", "stop")
  \/ Send("tx", "stop", "STOP", "done")
  \/ Receive("tx", "done", "DONE", "flush")
  \/ WaitChildren("tx", "wait_flows", Flows, FALSE, "stop_network")
  \/ StopChild("tx", "stop_network", "network", "wait_network")
  \/ WaitChildren("tx", "wait_network", {"network"}, TRUE, "completed")
  \/ Healthy("tx") /\ WriteRun("tx", "completed", "completed", "ack")
  \/ Send("tx", "ack", "ACK", "mark")
  \/ WaitTimeout("tx", "wait_flows", Flows)
  \/ WaitTimeout("tx", "wait_network", {"network"})

(* One step of a supervisor.                                               *)
Supervisor(s) ==
  \/ (s = "rx" /\ ReceiverRun) \/ (s = "tx" /\ SenderRun)
  \/ BeginRun(s) \/ ReadCompletion(s) \/ CompletionsFail(s) \/ FlushFlows(s)
  \/ MarkComplete(s) \/ ConnectionLost(s) \/ StepFails(s)
  \/ HandshakeFails(s) \/ SendFail(s) \/ CleanupStop(s) \/ CleanupWait(s)
  \/ CleanupLoader(s) \/ CleanupLoaderWait(s) \/ MarkFailed(s)

-----------------------------------------------------------------------------
(* The children and the environment.                                       *)

SetChild(s, c, to) == child' = [child EXCEPT ![s][c] = to]

(* A packet sent now is captured only if its receiver is capturing and the *)
(* loader's program is attached, in the same run.                          *)
Captured(f) ==
  /\ index["rx"] = index["tx"]
  /\ child["rx"][f] = "up"
  /\ f \notin asked["rx"]
  /\ child["rx"]["loader"] = "up"

Transmit(f) == missed' = missed \cup (IF Captured(f) THEN {} ELSE {index["tx"]})

(* sender.c: the first packet leaves once the start file is there; ...     *)
SenderBegins(f) ==
  /\ child["tx"][f] = "up"
  /\ started
  /\ SetChild("tx", f, "sending")
  /\ Transmit(f)
  /\ UNCHANGED <<pc, index, net, open, asked, reported, done, released, started,
                 diskVars, stopping, faults>>

(* ... after the last one completion is reported.                          *)
SenderCompletes(f) ==
  /\ child["tx"][f] = "sending"
  /\ SetChild("tx", f, "complete")
  /\ Transmit(f)
  /\ reported' = [reported EXCEPT !["tx"] = @ \cup {f}]
  /\ UNCHANGED <<pc, index, net, open, asked, done, released, started, diskVars,
                 stopping, faults>>

(* SIGTERM ends it early: no completion is reported, but the exit status   *)
(* is 0.                                                                   *)
SenderStops(f) ==
  /\ Alive("tx", f)
  /\ f \in asked["tx"]
  /\ SetChild("tx", f, "ok")
  /\ UNCHANGED <<pc, index, net, open, asked, reported, done, released, started,
                 diskVars, envVars>>

(* receiver.c, afxdp_recv.c: asked to stop, it drains and reports.         *)
ReceiverCompletes(f) ==
  /\ child["rx"][f] = "up"
  /\ f \in asked["rx"]
  /\ SetChild("rx", f, "complete")
  /\ reported' = [reported EXCEPT !["rx"] = @ \cup {f}]
  /\ UNCHANGED <<pc, index, net, open, asked, done, released, started, diskVars,
                 envVars>>

(* SIGUSR1 lets a flow child save its records and exit.                    *)
FlowSaves(s, f) ==
  /\ child[s][f] = "complete"
  /\ f \in released[s]
  /\ SetChild(s, f, "ok")
  /\ UNCHANGED <<pc, index, net, open, asked, reported, done, released, started,
                 diskVars, envVars>>

(* The loader, the monitor and the network client end when asked.          *)
HelperStops(s, c) ==
  /\ child[s][c] = "up"
  /\ c \in asked[s]
  /\ SetChild(s, c, "ok")
  /\ UNCHANGED <<pc, index, net, open, asked, reported, done, released, started,
                 diskVars, envVars>>

(* A child fails, or a helper ends before it is asked.                     *)
ChildFails(s, c) ==
  /\ Fault
  /\ Alive(s, c)
  /\ \/ SetChild(s, c, "bad")
     \/ c \notin Flows \cup asked[s] /\ SetChild(s, c, "ok")
  /\ UNCHANGED <<pc, index, net, open, asked, reported, done, released, started,
                 diskVars, stopping, missed>>

(* SIGINT or SIGTERM to a supervisor.                                      *)
Signal(s) ==
  /\ Fault
  /\ pc[s] # "exit"
  /\ ~stopping[s]
  /\ stopping' = [stopping EXCEPT ![s] = TRUE]
  /\ UNCHANGED <<pc, index, net, open, childVars, diskVars, missed>>

ChildStep(s, c) ==
  \/ /\ c \in Flows
     /\ \/ s = "tx" /\ (SenderBegins(c) \/ SenderCompletes(c) \/ SenderStops(c))
        \/ s = "rx" /\ ReceiverCompletes(c)
        \/ FlowSaves(s, c)
  \/ c \notin Flows /\ HelperStops(s, c)

Next == \E s \in Sides :
  \/ Supervisor(s)
  \/ \E c \in Children(s) : ChildStep(s, c) \/ ChildFails(s, c)
  \/ Signal(s)

Spec == Init /\ [][Next]_vars

-----------------------------------------------------------------------------
(* Properties                                                              *)

(* A run the receiver marks .complete is one in which every packet was     *)
(* sent while its receiver captured and the program was attached, whatever *)
(* child or supervisor failed on the way: reap, the phases and the waits   *)
(* of receiver_run together let no other run through.                      *)
CompleteMeansCaptured ==
  \A i \in RunIds : "complete" \in marks["rx"][i] => i \notin missed

(* When the receiver has marked a run .complete, the sender has already    *)
(* written "completed" for the same run (ACK follows write_run).           *)
CompleteAtBothEnds ==
  /\ TypeOK
  /\ \A i \in RunIds : "complete" \in marks["rx"][i] => "completed" \in states["tx"][i]

(* The order of the shutdown.  The loader is asked to stop only when no    *)
(* receiver is left: "Receivers drain before the loader", in               *)
(* stop_receiver_pipeline as in cleanup_children.  Outside the failure     *)
(* path the sender's network client is gone too, and none of the next run  *)
(* has started: "Keep the NIC/XDP attachment ... until TX has stopped its  *)
(* background client".  And no sender writes its results before the        *)
(* receivers of that run have saved theirs (DONE releases the flush).      *)
ShutdownOrder ==
  /\ "loader" \in asked["rx"] =>
       /\ \A f \in Flows : ~Alive("rx", f)
       /\ pc["rx"] \notin FailLabels => ~Alive("tx", "network")
  /\ released["tx"] # {} /\ pc["tx"] \notin FailLabels /\ index["rx"] = index["tx"]
       => \A f \in Flows : child["rx"][f] = "ok"

(* The two scripts fit: a supervisor fails only if a child, a deadline, a  *)
(* disk or a signal did first; never because of the order of frames.       *)
OnlyFaultsFail == \A s \in Sides : pc[s] = "fail" => faults > 0

(* What happens when nothing else fails and no deadline passes.            *)
Progress == \E s \in Sides :
  \/ Supervisor(s) /\ UNCHANGED faults
  \/ \E c \in Children(s) : ChildStep(s, c)

(* Neither end waits for ever: as long as one of them has not exited there *)
(* is a step to take that needs neither a deadline nor a kill.  One end's  *)
(* failure thus ends the other (FAIL, or the closed socket, reaches every  *)
(* wait), and in the end, undisturbed, both ends have marked every run     *)
(* .complete and nothing else.                                             *)
NeverStuck ==
  \/ ENABLED Progress
  \/ /\ \A s \in Sides : pc[s] = "exit"
     /\ faults = 0 => \A s \in Sides : \A i \in RunIds : marks[s][i] = {"complete"}
=============================================================================
