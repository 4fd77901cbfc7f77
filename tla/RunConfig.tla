------------------------------ MODULE RunConfig -----------------------------
(***************************************************************************)
(* The configuration of a suite of runs (experiment/run_config.c): which   *)
(* values read_run_config accepts, what the supervisors derive from them   *)
(* (paths, CPU sets, the order of the modes, the time limits they hand to  *)
(* their children in experiment/ace-run.c), and what the children's own    *)
(* option parsers accept.                                                  *)
(*                                                                         *)
(* A configuration is a record of parsed values.  Times are milliseconds   *)
(* as in the code.  CPU -1 is "inherit"; a list of CPUs is a set, {} when  *)
(* the key is absent.  network: load.network_bps is not 0; coalesce:       *)
(* environment.rx_coalesce_usecs is not "keep"; observed: the monitor, or  *)
(* a memory or I/O load, is asked for.  Strings without a bearing on any   *)
(* of this (paths, addresses, scheduling policies, ports) are left out.    *)
(***************************************************************************)
EXTENDS Integers, Sequences

RUN_MAX_RECORDS == 1048576
CPU_SETSIZE == 1024
Inherit == -1
Modes == {"mixed", "all-pass", "pass-xsk", "socket-only"}
FlowIndex == 0..2

-----------------------------------------------------------------------------
(* Accepted values.                                                        *)

(* ace_parse_u64 with a range, as number() calls it.                       *)
number(value, lo, hi) == value \in Nat /\ lo <= value /\ value <= hi

(* Packets of a flow: ceil(duration / period).                             *)
flow_count(f, duration_ms) ==
  (duration_ms * 1000000 + f.period_ns - 1) \div f.period_ns

FlowRecords(c, i) ==
  IF c.flows[i].enabled THEN flow_count(c.flows[i], c.duration_ms) ELSE 0

TotalRecords(c) == FlowRecords(c, 0) + FlowRecords(c, 1) + FlowRecords(c, 2)

Cpu == {n \in Nat : n < CPU_SETSIZE}
Flow == [enabled : BOOLEAN, period_ns : Nat,
         rx_cpu : Cpu \cup {Inherit}, all_pass_rx_cpu : Cpu \cup {Inherit}]

(* The ranges number() enforces.  The upper limit of a period matters to   *)
(* nothing here.                                                           *)
TimesInRange(c) ==
  /\ number(c.duration_ms, 1, 86400000)
  /\ number(c.warmup_ms, 0, 3600000)
  /\ number(c.ready_ms, 100, 600000)
  /\ number(c.stop_ms, 100, 600000)
  /\ number(c.start_delay_ms, 10, 60000)
  /\ number(c.drain_ms, 0, 60000)
  /\ number(c.settle_ms, 0, 60000)

PeriodsInRange(c) == \A i \in FlowIndex : c.flows[i].enabled => c.flows[i].period_ns >= 1

(* Wrong: any drain time.                                                  *)
DrainFitsAlways(c) == TRUE

(* "stop_timeout_ms must exceed drain_ms by at least 100 ms"               *)
DrainFits(c) == c.stop_ms >= c.drain_ms + 100

(* receiver.shared_cpus, and what may be combined with it.                 *)
SharedFits(c) ==
  IF c.shared = {}
    THEN c.cpumap_cpu = 3 /\ c.cpu_layout = "pinned"
    ELSE /\ c.cpumap_cpu = 3 /\ c.cpumap_cpu \in c.shared
         /\ c.shared # {c.cpumap_cpu}
         /\ c.receiver_supervisor_cpu = Inherit /\ c.receiver_network_cpu = Inherit
         /\ c.rx_irq_cpu \in c.shared /\ c.rx_irq_cpu # c.cpumap_cpu
         /\ c.cpu_percent > 0 => c.cpu_cpus \subseteq c.shared /\ c.cpu_layout = "shared"
         /\ c.cpu_layout = "shared" => c.cpu_cpus = c.shared
         /\ \A i \in FlowIndex : c.flows[i].enabled =>
              c.flows[i].rx_cpu = Inherit /\ c.flows[i].all_pass_rx_cpu = Inherit

(* The modes are named once each.                                          *)
ModesFit(c) ==
  /\ Len(c.modes) \in 1..4
  /\ \A i, j \in 1..Len(c.modes) : c.modes[i] = c.modes[j] => i = j

ConfigType(c) ==
  /\ c.shared \subseteq Cpu /\ c.cpu_cpus \subseteq Nat
  /\ c.cpumap_cpu \in Cpu /\ c.rx_irq_cpu \in Cpu
  /\ c.receiver_supervisor_cpu \in Cpu \cup {Inherit}
  /\ c.receiver_network_cpu \in Cpu \cup {Inherit}
  /\ number(c.cpu_percent, 0, 100) /\ c.cpu_layout \in {"pinned", "shared"}
  /\ c.modes \in Seq(Modes)
  /\ number(c.repeats, 1, 10000)
  /\ c.flows \in [FlowIndex -> Flow]
  /\ {c.alternate_mode_order, c.xsk_busy, c.phc_tracking, c.network, c.coalesce,
      c.observed} \subseteq BOOLEAN

(* read_run_config returns 0.                                              *)
Accepted(c) ==
  /\ ConfigType(c)
  /\ TimesInRange(c)
  /\ PeriodsInRange(c)
  /\ DrainFits(c)
  /\ SharedFits(c)
  /\ c.cpu_percent > 0 => c.cpu_cpus # {}
  /\ ModesFit(c)
  /\ number(TotalRecords(c), 1, RUN_MAX_RECORDS)

-----------------------------------------------------------------------------
(* Paths and CPUs of a mode.                                               *)

run_flow_path(mode, i) ==
  CASE i = 2 /\ mode \in {"mixed", "pass-xsk"} -> "xsk"
    [] i = 1 /\ mode = "mixed" -> "cpumap"
    [] OTHER -> "pass"

run_rx_cpu(f, mode) == IF mode = "all-pass" THEN f.all_pass_rx_cpu ELSE f.rx_cpu

run_cpumap_active(c, mode) == c.shared # {} /\ mode = "mixed" /\ c.flows[1].enabled

run_general_cpu_set(c, mode) ==
  IF run_cpumap_active(c, mode) THEN c.shared \ {c.cpumap_cpu} ELSE c.shared

run_load_cpus(c, mode) ==
  IF c.cpu_layout = "shared" THEN run_general_cpu_set(c, mode) ELSE c.cpu_cpus

(* The CPUs a receiver is started on; {} leaves those of the supervisor.   *)
run_rx_cpu_set(c, i, mode) ==
  IF c.shared # {}
    THEN IF i = 1 /\ run_cpumap_active(c, mode)
           THEN {c.cpumap_cpu} ELSE run_general_cpu_set(c, mode)
    ELSE {run_rx_cpu(c.flows[i], mode)} \ {Inherit}

(* The mode at a position (from 0) of a repeat (from 1).                   *)
run_mode_index(c, repeat, position) ==
  (position + (IF c.alternate_mode_order THEN repeat - 1 ELSE 0)) % Len(c.modes)

-----------------------------------------------------------------------------
(* Time limits handed to the children.                                     *)

CeilSeconds(ms) == (ms + 999) \div 1000

(* Wrong: the waits of preparation and shutdown count once each, the       *)
(* settling time not at all.                                               *)
load_lifetime_without_waits(c) ==
  CeilSeconds(c.duration_ms + c.warmup_ms + c.start_delay_ms + c.drain_ms
              + c.ready_ms + c.stop_ms) + 5

load_lifetime_seconds(c) ==
  CeilSeconds(c.duration_ms + c.warmup_ms + c.start_delay_ms + c.settle_ms
              + c.drain_ms + 8 * c.ready_ms + 8 * c.stop_ms) + 5

(* --busy-timeout-sec of an AF_XDP receiver.                               *)
busy_limit(c) == CeilSeconds(c.duration_ms + c.start_delay_ms + c.stop_ms)

-----------------------------------------------------------------------------
(* What the programs started with these values accept.                     *)

loader_accepts(records) == number(records, 1, 1048576)

afxdp_recv_accepts(records, drain_ms, busy_timeout_sec) ==
  /\ number(records, 1, 1048576)
  /\ number(drain_ms, 0, 60000)
  /\ number(busy_timeout_sec, 1, 172800)

(* Its drain time may be any of 32 bits.                                   *)
receiver_accepts(count) == count >= 1

sender_accepts(count, period_ns) == count >= 1 /\ period_ns >= 1

phc_track_accepts(budget_ms) == number(budget_ms, 100, 172800000)

run_load_accepts(duration) == number(duration, 1, 999999999)

network_load_accepts(duration) == number(duration, 1, 999999)
=============================================================================
