----------------------------- MODULE MCRunBudget ----------------------------
(***************************************************************************)
(* RunBudget for TLC.  Tight limits, which leave prompt waits just enough  *)
(* time, and wide ones, which slow waits use up; with clock tracking and a *)
(* busy AF_XDP receiver, or with calibrations.  The wide limits come with  *)
(* loads and three flows, the tight ones with one flow.                    *)
(***************************************************************************)
EXTENDS RunBudget

MCFlow(enabled) == [enabled |-> enabled, period_ns |-> 10000000,
                    rx_cpu |-> Inherit, all_pass_rx_cpu |-> Inherit]

MCConfig(r, s, drain, settle, wide, tracked) ==
  [duration_ms |-> 870, warmup_ms |-> 50, ready_ms |-> r, stop_ms |-> s,
   start_delay_ms |-> 10, drain_ms |-> drain, settle_ms |-> settle,
   shared |-> IF tracked THEN {2, 3} ELSE {}, cpumap_cpu |-> 3, rx_irq_cpu |-> 2,
   receiver_supervisor_cpu |-> Inherit, receiver_network_cpu |-> Inherit,
   cpu_percent |-> 0, cpu_layout |-> "pinned", cpu_cpus |-> {},
   modes |-> IF tracked THEN <<"mixed">> ELSE <<"pass-xsk", "socket-only">>,
   repeats |-> 1, alternate_mode_order |-> FALSE, xsk_busy |-> tracked,
   phc_tracking |-> tracked, network |-> wide, coalesce |-> tracked, observed |-> FALSE,
   flows |-> [i \in FlowIndex |-> MCFlow(wide \/ i = 2)]]

(* The drain time of the last does not fit.                                *)
MCConfigs ==
  {MCConfig(164, 120, 20, 95, FALSE, tracked) : tracked \in BOOLEAN} \cup
  {MCConfig(10000, 10000, 9900, 60, TRUE, tracked) : tracked \in BOOLEAN} \cup
  {MCConfig(164, 120, 118, 0, FALSE, FALSE)}

MCTimes(k) == IF k.ready_ms < 10000 THEN {0, 4, 10000} ELSE {0, 10000}
=============================================================================
