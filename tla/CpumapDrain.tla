----------------------------- MODULE CpumapDrain ----------------------------
(***************************************************************************)
(* The packet path of BPF/xdp_kern.c and the loader's wait for it to run   *)
(* dry (wait_for_cpumap_records in BPF/xdp_loader.c).                      *)
(*                                                                         *)
(* xdp_dispatch, on the CPU of the NIC, counts a packet and redirects it;  *)
(* the redirect reaches the queue of the other CPU later, or is lost; its  *)
(* worker runs xdp_cpumap_measure, which stores a record and then counts.  *)
(* The loader detaches the dispatcher and polls the counters, each with a  *)
(* system call of its own, until it believes that nothing more will come.  *)
(*                                                                         *)
(* A packet is its key (flow_id and sequence).  Time is counted in polls.  *)
(***************************************************************************)
EXTENDS Integers, Sequences, FiniteSets

CONSTANTS Keys,        \* packet keys
          Modes,       \* forwarding_mode, one of these
          Capacity,    \* max_entries of both record maps
          MaxPackets,  \* bound on the packets of a behaviour
          Timeout,     \* DRAIN_TIMEOUT_MS / DRAIN_POLL_MS
          Grace,       \* DRAIN_GRACE_MS / DRAIN_POLL_MS
          Quiet,       \* LOSS_QUIET_MS / DRAIN_POLL_MS
          StablePolls, \* STABLE_POLLS
          MaxStall     \* polls within which the worker finishes a packet

ASSUME CpumapDrainAssumption ==
  /\ IsFiniteSet(Keys)
  /\ Modes \subseteq {"mixed", "all-pass", "pass-xsk"}
  /\ {Capacity, MaxPackets, Timeout, Grace, Quiet, StablePolls, MaxStall} \subseteq Nat

(* The worker is given its CPU more often than the loader's patience ends. *)
ASSUME WorkerKeepsUp == MaxStall < Quiet

VARIABLES
  stats,     \* the counters, summed over the CPUs
  ingress,   \* keys of ingress_records
  cpumap,    \* keys of cpumap_records
  mode,      \* the forwarding mode of the run
  xsk,       \* whether an AF_XDP socket is registered
  bulk,      \* packets redirected and not yet enqueued
  queue,     \* the queue of the CPUMAP worker
  counting,  \* the outcome the worker is about to count, or "none"
  lost,      \* redirected packets that were not enqueued
  phase,     \* control point of the loader
  seen,      \* the counters of the current snapshot
  previous,  \* requested and terminal of the previous snapshot
  elapsed,   \* elapsed time of the drain, in polls
  lastChange,\* last_change_ms, in polls
  stable,    \* stable_snapshots
  stall,     \* polls since the worker last finished a packet
  report,    \* report->unobserved
  file       \* keys in cpumap_records.csv

vars == <<stats, ingress, cpumap, mode, xsk, bulk, queue, counting, lost, phase, seen,
          previous, elapsed, lastChange, stable, stall, report, file>>
setupVars == <<mode, xsk>>
kernelVars == <<stats, ingress, cpumap, setupVars, bulk, queue, counting, lost>>
loaderVars == <<phase, seen, previous, elapsed, lastChange, stable, report, file>>

(* The counters read, in the order in which they are read.                 *)
Reads == <<"CPUMAP_RECORDED", "CPUMAP_DUPLICATE", "CPUMAP_UPDATE_ERROR",
           "CPUMAP_META_INVALID", "CPUMAP">>

Terminals == {"CPUMAP_RECORDED", "CPUMAP_DUPLICATE", "CPUMAP_UPDATE_ERROR",
              "CPUMAP_META_INVALID"}

StatNames == Terminals \cup
  {"TOTAL", "PASS", "EXPERIMENT_PASS", "CPUMAP", "CPUMAP_FALLBACK", "XSK",
   "XSK_FALLBACK", "INVALID", "INGRESS_RECORDED", "INGRESS_DUPLICATE",
   "INGRESS_UPDATE_ERROR"}

Phases == {"run", "drain", "drained", "kept", "exported"}

(* Every variable has its type.                                            *)
TypeOK ==
  /\ stats \in [StatNames -> Nat]
  /\ ingress \subseteq Keys
  /\ cpumap \subseteq Keys
  /\ mode \in Modes
  /\ xsk \in BOOLEAN
  /\ bulk \in Seq(Keys)
  /\ queue \in Seq(Keys)
  /\ counting \in Terminals \cup {"none"}
  /\ lost \in Nat
  /\ phase \in Phases
  /\ seen \in Seq(Nat) /\ Len(seen) <= Len(Reads)
  /\ previous \in Int \X Int
  /\ elapsed \in 0..Timeout
  /\ lastChange \in 0..Timeout
  /\ stable \in Nat
  /\ stall \in 0..MaxStall
  /\ report \in Nat
  /\ file \subseteq Keys

Init ==
  /\ stats = [n \in StatNames |-> 0]
  /\ ingress = {}
  /\ cpumap = {}
  /\ mode \in Modes
  /\ xsk \in BOOLEAN
  /\ bulk = <<>>
  /\ queue = <<>>
  /\ counting = "none"
  /\ lost = 0
  /\ phase = "run"
  /\ seen = <<>>
  /\ previous = <<-1, -1>>
  /\ elapsed = 0
  /\ lastChange = 0
  /\ stable = 0
  /\ stall = 0
  /\ report = 0
  /\ file = {}

(* count_stat, for each counter in names                                   *)
CountStats(names) ==
  stats' = [n \in StatNames |-> IF n \in names THEN stats[n] + 1 ELSE stats[n]]

-----------------------------------------------------------------------------
(* xdp_dispatch                                                            *)

Arrival == phase = "run" /\ stats["TOTAL"] < MaxPackets

(* parse_experiment_packet refuses it, or prepare_measurement_metadata has *)
(* no headroom: it is passed on.                                           *)
DispatchInvalid ==
  /\ Arrival
  /\ CountStats({"TOTAL", "INVALID", "PASS"})
  /\ UNCHANGED <<ingress, cpumap, setupVars, bulk, queue, counting, lost, stall,
                 loaderVars>>

(* record_ingress: the first observation of a key is kept.                 *)
IngressOutcome(key) ==
  IF key \in ingress THEN "INGRESS_DUPLICATE"
  ELSE IF Cardinality(ingress) < Capacity THEN "INGRESS_RECORDED"
  ELSE "INGRESS_UPDATE_ERROR"

(* ace_effective_requested_path                                            *)
EffectivePath(wanted) ==
  IF mode = "all-pass" \/ (mode = "pass-xsk" /\ wanted = "cpumap") THEN "pass"
  ELSE wanted

(* Wrong: a packet that falls back to the stack is not counted as passed.  *)
DispatchStatsFallback(path) ==
  IF path = "cpumap" THEN IF mode = "mixed" THEN {"CPUMAP"} ELSE {"CPUMAP_FALLBACK"}
  ELSE IF path = "xsk" THEN IF xsk THEN {"XSK"} ELSE {"XSK_FALLBACK"}
  ELSE {"EXPERIMENT_PASS", "PASS"}

(* dispatch_requested_path: what is counted.  CPUMAP has an entry in mixed *)
(* mode only (configure_maps), XSKMAP if a receiver is registered.         *)
DispatchStats(path) ==
  IF path = "cpumap" THEN IF mode = "mixed" THEN {"CPUMAP"}
                          ELSE {"CPUMAP_FALLBACK", "PASS"}
  ELSE IF path = "xsk" THEN IF xsk THEN {"XSK"} ELSE {"XSK_FALLBACK", "PASS"}
  ELSE {"EXPERIMENT_PASS", "PASS"}

Dispatch(key, wanted) ==
  LET counted == DispatchStats(EffectivePath(wanted))
  IN  /\ Arrival
      /\ CountStats({"TOTAL", IngressOutcome(key)} \cup counted)
      /\ ingress' = IF IngressOutcome(key) = "INGRESS_RECORDED"
                    THEN ingress \cup {key} ELSE ingress
      /\ bulk' = IF "CPUMAP" \in counted THEN Append(bulk, key) ELSE bulk
      /\ UNCHANGED <<cpumap, setupVars, queue, counting, lost, stall, loaderVars>>

(* xdp_do_flush: the frame reaches the queue of the worker, or is lost.    *)
Enqueue ==
  /\ bulk # <<>>
  /\ bulk' = Tail(bulk)
  /\ \/ queue' = Append(queue, Head(bulk)) /\ UNCHANGED lost
     \/ lost' = lost + 1 /\ UNCHANGED queue
  /\ UNCHANGED <<stats, ingress, cpumap, setupVars, counting, stall, loaderVars>>

-----------------------------------------------------------------------------
(* xdp_cpumap_measure: the record is stored, ...                           *)
Measure ==
  /\ queue # <<>>
  /\ counting = "none"
  /\ queue' = Tail(queue)
  /\ LET key == Head(queue)
     IN  \/ counting' = "CPUMAP_META_INVALID" /\ UNCHANGED cpumap
         \/ IF key \in cpumap
              THEN counting' = "CPUMAP_DUPLICATE" /\ UNCHANGED cpumap
            ELSE IF Cardinality(cpumap) < Capacity
              THEN counting' = "CPUMAP_RECORDED" /\ cpumap' = cpumap \cup {key}
            ELSE counting' = "CPUMAP_UPDATE_ERROR" /\ UNCHANGED cpumap
  /\ UNCHANGED <<stats, ingress, setupVars, bulk, lost, stall, loaderVars>>

(* ... and then counted.                                                   *)
CountMeasured ==
  /\ counting # "none"
  /\ CountStats({counting})
  /\ counting' = "none"
  /\ stall' = 0
  /\ UNCHANGED <<ingress, cpumap, setupVars, bulk, queue, lost, loaderVars>>

-----------------------------------------------------------------------------
(* The loader.                                                             *)

(* The driver lets the NIC's poll, and with it the flush, finish.          *)
Detach ==
  /\ phase = "run"
  /\ bulk = <<>>
  /\ phase' = "drain"
  /\ stall' = 0
  /\ UNCHANGED <<kernelVars, seen, previous, elapsed, lastChange, stable,
                 report, file>>

(* lookup_stat_total, the terminal outcomes first, the requests last.      *)
ReadStat ==
  /\ phase = "drain"
  /\ Len(seen) < Len(Reads)
  /\ seen' = Append(seen, stats[Reads[Len(seen) + 1]])
  /\ UNCHANGED <<kernelVars, phase, previous, elapsed, lastChange, stable,
                 report, file, stall>>

requested == seen[5]
terminal == seen[1] + seen[2] + seen[3] + seen[4]

(* stable_snapshots and last_change_ms after the snapshot just taken       *)
StableNow == IF previous = <<requested, terminal>> THEN stable + 1 ELSE 0
LastChangeNow == IF previous = <<requested, terminal>> THEN lastChange ELSE elapsed

SnapshotTaken == phase = "drain" /\ Len(seen) = Len(Reads)

Drained ==
  /\ requested = terminal
  /\ elapsed >= Grace
  /\ StableNow >= StablePolls

(* Wrong: the quiet interval is counted from the start.                    *)
QuietDeficitFromStart ==
  requested > terminal /\ elapsed >= Quiet /\ StableNow >= StablePolls

QuietDeficit ==
  /\ requested > terminal
  /\ elapsed - LastChangeNow >= Quiet
  /\ StableNow >= StablePolls

Finish(to, unobserved) ==
  /\ phase' = to
  /\ report' = unobserved
  /\ seen' = <<>>
  /\ UNCHANGED <<kernelVars, previous, elapsed, lastChange, stable, stall, file>>

DrainDone ==
  /\ SnapshotTaken
  /\ Drained
  /\ Finish("drained", 0)

(* A deficit that has not moved for long is reported as a loss.            *)
DrainLoss ==
  /\ SnapshotTaken
  /\ ~Drained
  /\ elapsed = Timeout
  /\ QuietDeficit
  /\ Finish("drained", requested - terminal)

DrainTimeout ==
  /\ SnapshotTaken
  /\ ~Drained
  /\ elapsed = Timeout
  /\ ~QuietDeficit
  /\ Finish("kept", 0)

(* A counter cannot be read.                                               *)
ReadFails ==
  /\ phase = "drain"
  /\ Len(seen) < Len(Reads)
  /\ Finish("kept", 0)

WorkPending == queue # <<>> \/ counting # "none"

(* nanosleep until the next poll                                           *)
Poll ==
  /\ SnapshotTaken
  /\ ~Drained
  /\ elapsed < Timeout
  /\ WorkPending => stall < MaxStall
  /\ stall' = IF WorkPending THEN stall + 1 ELSE 0
  /\ elapsed' = elapsed + 1
  /\ previous' = <<requested, terminal>>
  /\ stable' = StableNow
  /\ lastChange' = LastChangeNow
  /\ seen' = <<>>
  /\ UNCHANGED <<kernelVars, phase, report, file>>

(* export_measurement_files                                                *)
Export ==
  /\ phase = "drained"
  /\ file' = cpumap
  /\ phase' = "exported"
  /\ UNCHANGED <<kernelVars, seen, previous, elapsed, lastChange, stable, stall,
                 report>>

(* It fails: the maps are kept for --recover.                              *)
ExportFails ==
  /\ phase = "drained"
  /\ phase' = "kept"
  /\ UNCHANGED <<kernelVars, seen, previous, elapsed, lastChange, stable, stall,
                 report, file>>

Next ==
  \/ DispatchInvalid
  \/ \E key \in Keys, path \in {"pass", "cpumap", "xsk"} : Dispatch(key, path)
  \/ Enqueue
  \/ Measure
  \/ CountMeasured
  \/ Detach
  \/ ReadStat
  \/ DrainDone
  \/ DrainLoss
  \/ DrainTimeout
  \/ ReadFails
  \/ Poll
  \/ Export
  \/ ExportFails

Spec == Init /\ [][Next]_vars

-----------------------------------------------------------------------------
(* Once the drain is over the deficit it reports is the number of packets  *)
(* really lost on the way to the queue, none of them merely late; nothing  *)
(* is left in the queue or between a record and its counter, and no record *)
(* appears after the files were written.  (wait_for_cpumap_records reads   *)
(* its counters one after the other while they still move.)                *)
DrainIsExact ==
  /\ phase \in {"drained", "exported"} => report = lost /\ ~WorkPending
  /\ phase = "exported" => file = cpumap

(* The packets whose outcome at the worker is counted.                     *)
Terminated == stats["CPUMAP_RECORDED"] + stats["CPUMAP_DUPLICATE"]
              + stats["CPUMAP_UPDATE_ERROR"] + stats["CPUMAP_META_INVALID"]

(* Every packet is counted once at the end it met, and every experiment    *)
(* packet once for its ingress record, so that the exported counters add   *)
(* up; a redirected packet is on its way, lost, or has its outcome counted.*)
Conservation ==
  /\ TypeOK
  /\ stats["TOTAL"] = stats["PASS"] + stats["CPUMAP"] + stats["XSK"]
  /\ stats["TOTAL"] = stats["INVALID"] + stats["INGRESS_RECORDED"]
       + stats["INGRESS_DUPLICATE"] + stats["INGRESS_UPDATE_ERROR"]
  /\ stats["PASS"] = stats["INVALID"] + stats["EXPERIMENT_PASS"]
       + stats["CPUMAP_FALLBACK"] + stats["XSK_FALLBACK"]
  /\ Cardinality(ingress) = stats["INGRESS_RECORDED"]
  /\ stats["CPUMAP"] = Len(bulk) + Len(queue) + lost
    + (IF counting = "none" THEN 0 ELSE 1) + Terminated
=============================================================================
