--------------------------- MODULE RunConfigProofs --------------------------
(***************************************************************************)
(* What read_run_config's checks guarantee, for every configuration it     *)
(* accepts: the CPU reserved for the CPUMAP flow is shared with nothing,   *)
(* a repeat runs every mode once, and no program started with values       *)
(* derived from the configuration refuses them.                            *)
(***************************************************************************)
EXTENDS RunConfig, TLAPS

USE SMTT(30)

(* CPU placement: with CPUMAP in use its CPU belongs to the receiver of    *)
(* flow 2 alone.  The other receivers, the CPU load and the interrupts of  *)
(* the NIC run elsewhere, and the receivers have somewhere to run          *)
(* (run_rx_cpu_set, run_load_cpus, and the checks of read_run_config on    *)
(* receiver.shared_cpus, load.cpu_layout and environment.rx_irq_cpu).      *)
THEOREM CpumapReserved ==
  ASSUME NEW c, Accepted(c), NEW mode \in Modes, run_cpumap_active(c, mode)
  PROVE  /\ run_rx_cpu_set(c, 1, mode) = {c.cpumap_cpu}
         /\ \A i \in {0, 2} : /\ c.cpumap_cpu \notin run_rx_cpu_set(c, i, mode)
                              /\ run_rx_cpu_set(c, i, mode) # {}
         /\ c.cpu_percent > 0 => c.cpumap_cpu \notin run_load_cpus(c, mode)
         /\ c.rx_irq_cpu \in run_general_cpu_set(c, mode)
<1>1. /\ c.shared # {} /\ c.cpumap_cpu \in c.shared /\ c.shared # {c.cpumap_cpu}
      /\ c.rx_irq_cpu \in c.shared /\ c.rx_irq_cpu # c.cpumap_cpu
      /\ c.cpu_percent > 0 => c.cpu_layout = "shared"
  BY DEF Accepted, SharedFits, run_cpumap_active
<1>2. run_general_cpu_set(c, mode) = c.shared \ {c.cpumap_cpu}
  BY DEF run_general_cpu_set
<1>3. run_rx_cpu_set(c, 1, mode) = {c.cpumap_cpu}
  BY <1>1 DEF run_rx_cpu_set
<1>4. \A i \in {0, 2} : run_rx_cpu_set(c, i, mode) = c.shared \ {c.cpumap_cpu}
  BY <1>1, <1>2 DEF run_rx_cpu_set
<1>5. c.rx_irq_cpu \in c.shared \ {c.cpumap_cpu}
  BY <1>1
<1>6. c.cpu_percent > 0 => run_load_cpus(c, mode) = c.shared \ {c.cpumap_cpu}
  BY <1>1, <1>2 DEF run_load_cpus
<1> QED
  BY <1>2, <1>3, <1>4, <1>5, <1>6

(* The CPUs of the receivers never leave those of the configuration, and   *)
(* without CPUMAP in use every receiver shares all of them.                *)
THEOREM ReceiverCpus ==
  ASSUME NEW c, Accepted(c), NEW mode \in Modes, NEW i \in FlowIndex, c.shared # {}
  PROVE  /\ run_rx_cpu_set(c, i, mode) # {} /\ run_rx_cpu_set(c, i, mode) \subseteq c.shared
         /\ ~run_cpumap_active(c, mode) => run_rx_cpu_set(c, i, mode) = c.shared
<1>1. /\ c.cpumap_cpu \in c.shared
      /\ c.rx_irq_cpu \in c.shared /\ c.rx_irq_cpu # c.cpumap_cpu
  BY DEF Accepted, SharedFits
<1>2. CASE run_cpumap_active(c, mode)
  <2>1. run_general_cpu_set(c, mode) = c.shared \ {c.cpumap_cpu}
    BY <1>2 DEF run_general_cpu_set
  <2> QED
    BY <1>1, <1>2, <2>1 DEF run_rx_cpu_set
<1>3. CASE ~run_cpumap_active(c, mode)
  <2>1. run_general_cpu_set(c, mode) = c.shared
    BY <1>3 DEF run_general_cpu_set
  <2> QED
    BY <1>1, <1>3, <2>1 DEF run_rx_cpu_set
<1> QED
  BY <1>2, <1>3

-----------------------------------------------------------------------------
(* The order of the modes.                                                 *)

(* A rotation of at most four places is one to one and onto.               *)
LEMMA Rotation ==
  ASSUME NEW n \in {1, 2, 3, 4}, NEW k \in Nat
  PROVE  /\ \A p \in 0..(n - 1) : (p + k) % n \in 0..(n - 1)
         /\ \A p, q \in 0..(n - 1) : (p + k) % n = (q + k) % n => p = q
         /\ \A x \in 0..(n - 1) : \E p \in 0..(n - 1) : (p + k) % n = x
<1>1. ASSUME NEW p \in 0..(n - 1)
      PROVE  (p + k) % n \in 0..(n - 1)
  BY <1>1
<1>2. ASSUME NEW p \in 0..(n - 1), NEW q \in 0..(n - 1), (p + k) % n = (q + k) % n
      PROVE  p = q
  BY <1>2
<1>3. ASSUME NEW x \in 0..(n - 1)
      PROVE  \E p \in 0..(n - 1) : (p + k) % n = x
  <2> DEFINE p0 == (x + 4 * n * k - k) % n
  <2>1. p0 \in 0..(n - 1) /\ (p0 + k) % n = x
    OBVIOUS
  <2> QED
    BY <2>1
<1> QED
  BY <1>1, <1>2, <1>3

(* Every repeat of the suite runs every configured mode exactly once,      *)
(* whatever its number and with or without alternate_mode_order            *)
(* (run_mode_index over the positions, the loop of ace-run.c's main).      *)
THEOREM EveryModeOnce ==
  ASSUME NEW c, Accepted(c), NEW repeat \in Nat \ {0}
  PROVE  /\ \A p, q \in 0..(Len(c.modes) - 1) :
              run_mode_index(c, repeat, p) = run_mode_index(c, repeat, q) => p = q
         /\ \A x \in 0..(Len(c.modes) - 1) :
              \E p \in 0..(Len(c.modes) - 1) : run_mode_index(c, repeat, p) = x
<1> DEFINE n == Len(c.modes)
           k == IF c.alternate_mode_order THEN repeat - 1 ELSE 0
<1>1. n \in {1, 2, 3, 4}
  BY DEF Accepted, ModesFit
<1>2. k \in Nat
  OBVIOUS
<1>3. \A p : run_mode_index(c, repeat, p) = (p + k) % n
  BY DEF run_mode_index
<1> HIDE DEF n, k
<1>4. /\ \A p, q \in 0..(n - 1) : (p + k) % n = (q + k) % n => p = q
      /\ \A x \in 0..(n - 1) : \E p \in 0..(n - 1) : (p + k) % n = x
  BY <1>1, <1>2, Rotation, ZenonT(10)
<1> QED
  BY <1>3, <1>4 DEF n
-----------------------------------------------------------------------------
(* The programs the supervisors start.                                     *)

(* A flow that is enabled sends at least one packet.                       *)
LEMMA SomePackets ==
  ASSUME NEW d \in Nat, d >= 1, NEW p \in Nat, p >= 1
  PROVE  (d * 1000000 + p - 1) \div p \in Nat /\ (d * 1000000 + p - 1) \div p >= 1
<1> DEFINE a == d * 1000000 + p - 1
           q == a \div p
           r == a % p
<1>1. a \in Nat /\ a >= p
  OBVIOUS
<1>2. q \in Int /\ r \in Nat /\ r < p /\ a = p * q + r
  BY <1>1
<1> HIDE DEF a, q, r
<1>3. q >= 1
  <2>1. ~(q <= 0)
    <3>1. ASSUME q <= 0
          PROVE  p * q <= 0
      BY <1>2, <3>1
    <3> QED
      BY <1>1, <1>2, <3>1
  <2> QED
    BY <1>2, <2>1
<1> QED
  BY <1>2, <1>3 DEF a, q

(* ... and no flow more than the records of a run.                         *)
LEMMA Counts ==
  ASSUME NEW c, Accepted(c)
  PROVE  \A i \in FlowIndex :
           /\ number(FlowRecords(c, i), 0, RUN_MAX_RECORDS)
           /\ c.flows[i].enabled => FlowRecords(c, i) >= 1
<1>1. ASSUME NEW i \in FlowIndex
      PROVE  /\ FlowRecords(c, i) \in Nat
             /\ c.flows[i].enabled => FlowRecords(c, i) >= 1
  <2>1. c.flows[i] \in Flow /\ c.flows[i].period_ns \in Nat
    BY DEF Accepted, ConfigType, Flow
  <2>2. c.flows[i].enabled => c.flows[i].period_ns >= 1
    BY DEF Accepted, PeriodsInRange
  <2>3. c.duration_ms \in Nat /\ c.duration_ms >= 1
    BY DEF Accepted, TimesInRange, number
  <2> QED
    BY <2>1, <2>2, <2>3, SomePackets DEF FlowRecords, flow_count
<1>2. TotalRecords(c) <= RUN_MAX_RECORDS
  BY DEF Accepted, number
<1>3. FlowRecords(c, 0) \in Nat /\ FlowRecords(c, 1) \in Nat /\ FlowRecords(c, 2) \in Nat
  BY <1>1 DEF FlowIndex
<1>4. \A i \in FlowIndex : FlowRecords(c, i) <= RUN_MAX_RECORDS
  BY <1>2, <1>3 DEF TotalRecords, FlowIndex, RUN_MAX_RECORDS
<1> QED
  BY <1>1, <1>4 DEF number, RUN_MAX_RECORDS

(* Seconds are rounded up.                                                 *)
LEMMA Seconds ==
  ASSUME NEW ms \in Nat
  PROVE  CeilSeconds(ms) \in Nat /\ 1000 * CeilSeconds(ms) >= ms
         /\ 1000 * CeilSeconds(ms) <= ms + 999
BY DEF CeilSeconds

(* No program a supervisor starts with values derived from an accepted     *)
(* configuration refuses them: what ace-run.c passes to the loader, the    *)
(* receivers, the senders, the clock tracking and the two load scripts is  *)
(* in the range their own option parsers check, which differ from those of *)
(* read_run_config.                                                        *)
THEOREM ArgumentsAccepted ==
  ASSUME NEW c, Accepted(c)
  PROVE  /\ loader_accepts(TotalRecords(c))
         /\ \A i \in FlowIndex : c.flows[i].enabled =>
              /\ afxdp_recv_accepts(FlowRecords(c, i), c.drain_ms, busy_limit(c))
              /\ receiver_accepts(FlowRecords(c, i))
              /\ sender_accepts(FlowRecords(c, i), c.flows[i].period_ns)
         /\ phc_track_accepts(1000 * load_lifetime_seconds(c))
         /\ run_load_accepts(load_lifetime_seconds(c))
         /\ network_load_accepts(load_lifetime_seconds(c))
<1> DEFINE busy == c.duration_ms + c.start_delay_ms + c.stop_ms
           load == c.duration_ms + c.warmup_ms + c.start_delay_ms + c.settle_ms
                   + c.drain_ms + 8 * c.ready_ms + 8 * c.stop_ms
<1>1. /\ busy \in Nat /\ 1 <= busy /\ busy <= 87060000
      /\ load \in Nat /\ 1 <= load /\ load <= 99780000
      /\ number(c.drain_ms, 0, 60000)
  BY DEF Accepted, TimesInRange, number
<1>2. /\ busy_limit(c) = CeilSeconds(busy)
      /\ load_lifetime_seconds(c) = CeilSeconds(load) + 5
  BY DEF busy_limit, load_lifetime_seconds
<1> HIDE DEF busy, load
<1>3. /\ CeilSeconds(busy) \in Nat /\ 1000 * CeilSeconds(busy) >= busy
      /\ 1000 * CeilSeconds(busy) <= busy + 999
      /\ CeilSeconds(load) \in Nat /\ 1000 * CeilSeconds(load) >= load
      /\ 1000 * CeilSeconds(load) <= load + 999
  BY <1>1, Seconds
<1>4. number(busy_limit(c), 1, 172800) /\ number(load_lifetime_seconds(c), 1, 99999)
  BY <1>1, <1>2, <1>3 DEF number
<1>5. \A i \in FlowIndex : c.flows[i].enabled => c.flows[i].period_ns >= 1
  BY DEF Accepted, PeriodsInRange
<1>6. number(TotalRecords(c), 1, 1048576)
  BY DEF Accepted, RUN_MAX_RECORDS
<1>7. \A i \in FlowIndex : c.flows[i].enabled => number(FlowRecords(c, i), 1, 1048576)
  BY Counts DEF number, RUN_MAX_RECORDS
<1>8. /\ phc_track_accepts(1000 * load_lifetime_seconds(c))
      /\ run_load_accepts(load_lifetime_seconds(c))
      /\ network_load_accepts(load_lifetime_seconds(c))
  BY <1>4 DEF phc_track_accepts, run_load_accepts, network_load_accepts, number
<1> QED
  BY <1>1, <1>4, <1>5, <1>6, <1>7, <1>8
  DEF loader_accepts, afxdp_recv_accepts, receiver_accepts, sender_accepts, number
=============================================================================
