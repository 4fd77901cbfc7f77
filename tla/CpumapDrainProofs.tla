-------------------------- MODULE CpumapDrainProofs -------------------------
(***************************************************************************)
(* The drain of the CPUMAP is exact and the counters balance, for any      *)
(* number of packets and keys, any capacity of the record maps and any     *)
(* lengths of the drain's intervals (DrainIsExact and Conservation of      *)
(* CpumapDrain), provided that the worker is never kept from its CPU for   *)
(* as long as the loader's quiet interval (WorkerKeepsUp).                 *)
(***************************************************************************)
EXTENDS CpumapDrain, FiniteSetTheorems, TLAPS

-----------------------------------------------------------------------------
(* The inductive invariant.                                                *)

(* The sum of the snapshot under way if nothing more were counted.         *)
Part(j) == IF j <= Len(seen) THEN seen[j] ELSE stats[Reads[j]]
Projected == Part(1) + Part(2) + Part(3) + Part(4)

(* A snapshot shows no more than there is; requests no longer change.      *)
SnapshotInv ==
  /\ phase # "run" => bulk = <<>>
  /\ phase # "drain" => seen = <<>>
  /\ phase = "run" => previous = <<-1, -1>> /\ elapsed = 0 /\ lastChange = 0
  /\ \A j \in 1..4 : j <= Len(seen) => seen[j] <= stats[Reads[j]]
  /\ Len(seen) = 5 => seen[5] = stats["CPUMAP"]
  /\ previous[2] <= Projected
  /\ lastChange <= elapsed

(* While nothing was counted since the last change that a snapshot showed, *)
(* and work is pending, the worker has been waiting as long.  Something    *)
(* counted after its counter was read was still pending at the last poll.  *)
QuietInv ==
  phase = "drain" =>
    /\ WorkPending /\ previous[2] = Terminated => elapsed - lastChange <= stall
    /\ previous[2] = Projected /\ (WorkPending \/ Projected < Terminated)
         => elapsed - lastChange <= MaxStall

DInv == TypeOK /\ Conservation /\ SnapshotInv /\ QuietInv /\ DrainIsExact

-----------------------------------------------------------------------------
(* The counters are read in this order.                                    *)
LEMMA ReadOrder ==
  /\ Len(Reads) = 5
  /\ Reads[1] = "CPUMAP_RECORDED" /\ Reads[2] = "CPUMAP_DUPLICATE"
  /\ Reads[3] = "CPUMAP_UPDATE_ERROR" /\ Reads[4] = "CPUMAP_META_INVALID"
  /\ Reads[5] = "CPUMAP"
BY DEF Reads

(* count_stat adds one to each counter it is called for.                   *)
LEMMA Counted ==
  ASSUME stats \in [StatNames -> Nat], NEW names, CountStats(names)
  PROVE  /\ stats' \in [StatNames -> Nat]
         /\ \A n \in StatNames :
              stats'[n] = IF n \in names THEN stats[n] + 1 ELSE stats[n]
BY DEF CountStats

(* A set of ingress keys that grows by a new one has one more member.      *)
LEMMA OneMore ==
  ASSUME NEW S \in SUBSET Keys, NEW k \in Keys
  PROVE  /\ Cardinality(S) \in Nat
         /\ k \notin S => Cardinality(S \cup {k}) = Cardinality(S) + 1
<1>1. IsFiniteSet(S)
  BY FS_Subset, CpumapDrainAssumption
<1> QED
  BY <1>1, FS_AddElement, FS_CardinalityType

(* A packet is counted for exactly one end: on one of five paths.          *)
LEMMA Paths ==
  ASSUME NEW path \in {"pass", "cpumap", "xsk"}
  PROVE  DispatchStats(EffectivePath(path)) \in
           {{"CPUMAP"}, {"CPUMAP_FALLBACK", "PASS"}, {"XSK"},
            {"XSK_FALLBACK", "PASS"}, {"EXPERIMENT_PASS", "PASS"}}
BY DEF DispatchStats, EffectivePath

(* A complete snapshot has five values, four of them summed.               *)
LEMMA Snapshot ==
  ASSUME TypeOK, SnapshotTaken
  PROVE  /\ Len(seen) = 5 /\ requested \in Nat /\ terminal \in Nat
         /\ Projected = terminal
<1>0. seen \in Seq(Nat)
  BY DEF TypeOK
<1>1. Len(seen) = 5
  BY ReadOrder DEF SnapshotTaken
<1>2. ASSUME NEW j \in 1..Len(seen) PROVE seen[j] \in Nat
  BY <1>0
<1>3. /\ seen[1] \in Nat /\ seen[2] \in Nat /\ seen[3] \in Nat
      /\ seen[4] \in Nat /\ seen[5] \in Nat
  BY <1>1, <1>2
<1>4. Projected = terminal
  BY <1>1 DEF Projected, Part, terminal
<1> QED
  BY <1>1, <1>3, <1>4 DEF requested, terminal

(* The sum of a snapshot is never ahead of the counters.                   *)
LEMMA Bounds ==
  ASSUME TypeOK, SnapshotInv
  PROVE  /\ Terminated \in Nat /\ Projected \in Nat /\ previous[2] \in Int
         /\ previous[2] <= Projected /\ Projected <= Terminated
<1>1. /\ stats["CPUMAP_RECORDED"] \in Nat /\ stats["CPUMAP_DUPLICATE"] \in Nat
      /\ stats["CPUMAP_UPDATE_ERROR"] \in Nat /\ stats["CPUMAP_META_INVALID"] \in Nat
  BY DEF TypeOK, StatNames, Terminals
<1>2. ASSUME NEW j \in 1..4
      PROVE  Part(j) \in Nat /\ Part(j) <= stats[Reads[j]]
  <2>1. stats[Reads[j]] \in Nat
    BY <1>1, ReadOrder
  <2>2. j <= Len(seen) => seen[j] \in Nat
    <3>1. seen \in Seq(Nat)
      BY DEF TypeOK
    <3> QED
      BY <3>1
  <2>3. j <= Len(seen) => seen[j] <= stats[Reads[j]]
    BY DEF SnapshotInv
  <2> QED
    BY <2>1, <2>2, <2>3 DEF Part
<1>3. /\ Part(1) \in Nat /\ Part(1) <= stats["CPUMAP_RECORDED"]
      /\ Part(2) \in Nat /\ Part(2) <= stats["CPUMAP_DUPLICATE"]
      /\ Part(3) \in Nat /\ Part(3) <= stats["CPUMAP_UPDATE_ERROR"]
      /\ Part(4) \in Nat /\ Part(4) <= stats["CPUMAP_META_INVALID"]
  BY <1>2, ReadOrder
<1>4. previous[2] \in Int /\ previous[2] <= Projected
  BY DEF TypeOK, SnapshotInv
<1>5. Terminated \in Nat /\ Projected \in Nat /\ Projected <= Terminated
  BY <1>1, <1>3 DEF Terminated, Projected
<1> QED
  BY <1>4, <1>5

-----------------------------------------------------------------------------
(* The invariant holds initially ...                                       *)
LEMMA DInit == Init => DInv
<1> SUFFICES ASSUME Init PROVE DInv
  OBVIOUS
<1>1. TypeOK
  BY CpumapDrainAssumption, ReadOrder DEF Init, TypeOK, StatNames, Terminals, Phases
<1>2. Conservation
  BY <1>1, FS_EmptySet DEF Init, Conservation, Terminated, StatNames, Terminals
<1>3. SnapshotInv
  BY <1>1, ReadOrder DEF Init, SnapshotInv, Projected, Part, StatNames, Terminals
<1> QED
  BY <1>1, <1>2, <1>3 DEF DInv, Init, QuietInv, DrainIsExact

(* ... every step keeps the types, ...                                     *)
LEMMA DType == TypeOK /\ [Next]_vars => TypeOK'
<1> SUFFICES ASSUME TypeOK, [Next]_vars PROVE TypeOK'
  OBVIOUS
<1> USE DEF setupVars, kernelVars, loaderVars
<1>1. CASE DispatchInvalid
  <2>1. stats' \in [StatNames -> Nat]
    BY <1>1, Counted DEF DispatchInvalid, TypeOK
  <2> QED
    BY <1>1, <2>1 DEF DispatchInvalid, TypeOK
<1>2. ASSUME NEW key \in Keys, NEW path \in {"pass", "cpumap", "xsk"}, Dispatch(key, path)
      PROVE  TypeOK'
  <2>1. stats' \in [StatNames -> Nat]
    BY <1>2, Counted DEF Dispatch, TypeOK
  <2>2. ingress' \subseteq Keys /\ bulk' \in Seq(Keys)
    BY <1>2 DEF Dispatch, TypeOK
  <2> QED
    BY <1>2, <2>1, <2>2 DEF Dispatch, TypeOK
<1>3. CASE Enqueue
  <2>1. Head(bulk) \in Keys /\ Tail(bulk) \in Seq(Keys)
    BY <1>3 DEF Enqueue, TypeOK
  <2>2. Append(queue, Head(bulk)) \in Seq(Keys) /\ lost + 1 \in Nat
    BY <2>1 DEF TypeOK
  <2>3. bulk' \in Seq(Keys) /\ queue' \in Seq(Keys) /\ lost' \in Nat
    BY <1>3, <2>1, <2>2 DEF Enqueue, TypeOK
  <2> QED
    BY <1>3, <2>3 DEF Enqueue, TypeOK
<1>4. CASE Measure
  <2>1. queue' \in Seq(Keys) /\ Head(queue) \in Keys
    BY <1>4 DEF Measure, TypeOK
  <2>2. counting' \in Terminals \cup {"none"} /\ cpumap' \subseteq Keys
    BY <1>4, <2>1 DEF Measure, TypeOK, Terminals
  <2> QED
    BY <1>4, <2>1, <2>2 DEF Measure, TypeOK
<1>5. CASE CountMeasured
  <2>1. stats' \in [StatNames -> Nat]
    BY <1>5, Counted DEF CountMeasured, TypeOK
  <2>2. counting' \in Terminals \cup {"none"} /\ stall' \in 0..MaxStall
    BY <1>5, CpumapDrainAssumption DEF CountMeasured
  <2> QED
    BY <1>5, <2>1, <2>2 DEF CountMeasured, TypeOK
<1>6. CASE Detach
  <2>1. phase' \in Phases /\ stall' \in 0..MaxStall
    BY <1>6, CpumapDrainAssumption DEF Detach, Phases
  <2> QED
    BY <1>6, <2>1 DEF Detach, TypeOK
<1>7. CASE ReadStat
  <2>1. Len(seen) \in Nat /\ Len(seen) < 5
    BY <1>7, ReadOrder DEF ReadStat, TypeOK
  <2>2. Reads[Len(seen) + 1] \in StatNames
    BY <2>1, ReadOrder DEF StatNames, Terminals
  <2>3. seen' \in Seq(Nat) /\ Len(seen') <= Len(Reads)
    BY <1>7, <2>1, <2>2, ReadOrder DEF ReadStat, TypeOK
  <2> QED
    BY <1>7, <2>3 DEF ReadStat, TypeOK
<1>8. ASSUME NEW to \in Phases, NEW n \in Nat, Finish(to, n)
      PROVE  TypeOK'
  <2>1. seen' \in Seq(Nat) /\ Len(seen') <= Len(Reads)
    BY <1>8, ReadOrder DEF Finish
  <2> QED
    BY <1>8, <2>1 DEF Finish, TypeOK
<1>9. CASE DrainDone
  BY <1>8, <1>9 DEF DrainDone, Phases
<1>10. CASE DrainLoss
  <2>1. requested - terminal \in Nat
    <3>1. requested \in Nat /\ terminal \in Nat
      BY <1>10, Snapshot DEF DrainLoss
    <3> QED
      BY <1>10, <3>1 DEF DrainLoss, QuietDeficit
  <2> QED
    BY <1>8, <1>10, <2>1 DEF DrainLoss, Phases
<1>11. CASE DrainTimeout
  BY <1>8, <1>11 DEF DrainTimeout, Phases
<1>12. CASE ReadFails
  BY <1>8, <1>12 DEF ReadFails, Phases
<1>13. CASE Poll
  <2>2. requested \in Nat /\ terminal \in Nat
    BY <1>13, Snapshot DEF Poll
  <2>3. previous' \in Int \X Int /\ stable' \in Nat
    BY <1>13, <2>2 DEF Poll, StableNow, TypeOK
  <2>4. elapsed' \in 0..Timeout /\ lastChange' \in 0..Timeout
    <3>1. /\ elapsed \in 0..Timeout /\ lastChange \in 0..Timeout /\ elapsed < Timeout
          /\ elapsed' = elapsed + 1 /\ lastChange' \in {elapsed, lastChange}
      BY <1>13 DEF Poll, LastChangeNow, TypeOK
    <3>2. Timeout \in Nat
      BY CpumapDrainAssumption
    <3> QED
      BY <3>1, <3>2
  <2>5. stall' \in 0..MaxStall
    <3>1. /\ stall \in 0..MaxStall
          /\ stall' = 0 \/ (stall < MaxStall /\ stall' = stall + 1)
      BY <1>13 DEF Poll, TypeOK
    <3>2. MaxStall \in Nat
      BY CpumapDrainAssumption
    <3> QED
      BY <3>1, <3>2
  <2>6. seen' \in Seq(Nat) /\ Len(seen') <= Len(Reads)
    BY <1>13, ReadOrder DEF Poll
  <2> QED
    BY <1>13, <2>3, <2>4, <2>5, <2>6 DEF Poll, TypeOK
<1>14. CASE Export
  BY <1>14 DEF Export, TypeOK, Phases
<1>15. CASE ExportFails
  BY <1>15 DEF ExportFails, TypeOK, Phases
<1>16. CASE UNCHANGED vars
  BY <1>16 DEF vars, TypeOK
<1> QED
  BY <1>1, <1>2, <1>3, <1>4, <1>5, <1>6, <1>7, <1>9, <1>10, <1>11, <1>12, <1>13,
     <1>14, <1>15, <1>16 DEF Next

(* ... and the balance of the counters: a packet is counted once for its   *)
(* end and once for its record, and moves from one place to the next.      *)
LEMMA DBalance ==
  ASSUME TypeOK, TypeOK', Conservation, [Next]_vars
  PROVE  Conservation'
<1> USE DEF setupVars, kernelVars, loaderVars
<1>t. /\ stats \in [StatNames -> Nat] /\ bulk \in Seq(Keys) /\ queue \in Seq(Keys)
      /\ lost \in Nat /\ ingress \in SUBSET Keys /\ counting \in Terminals \cup {"none"}
  BY DEF TypeOK
<1>l. Len(bulk) \in Nat /\ Len(queue) \in Nat /\ lost \in Nat
  BY <1>t
<1>n. \A n \in StatNames : stats[n] \in Nat
  BY <1>t
<1>e. /\ stats["TOTAL"] = stats["PASS"] + stats["CPUMAP"] + stats["XSK"]
      /\ stats["PASS"] = stats["INVALID"] + stats["EXPERIMENT_PASS"]
           + stats["CPUMAP_FALLBACK"] + stats["XSK_FALLBACK"]
  BY DEF Conservation
<1>i. /\ stats["TOTAL"] = stats["INVALID"] + stats["INGRESS_RECORDED"]
           + stats["INGRESS_DUPLICATE"] + stats["INGRESS_UPDATE_ERROR"]
      /\ Cardinality(ingress) = stats["INGRESS_RECORDED"]
  BY DEF Conservation
<1>r. stats["CPUMAP"] = Len(bulk) + Len(queue) + lost
        + (IF counting = "none" THEN 0 ELSE 1) + Terminated
  BY DEF Conservation
<1>s. stats["CPUMAP"] \in Nat /\ Terminated \in Nat
  BY <1>n DEF Terminated, StatNames, Terminals
<1>c. \A names : CountStats(names) =>
        \A n \in StatNames : stats'[n] = IF n \in names THEN stats[n] + 1 ELSE stats[n]
  BY <1>t, Counted
<1>1. CASE DispatchInvalid
  <2>1. \A n \in StatNames : stats'[n] = IF n \in {"TOTAL", "INVALID", "PASS"}
                                         THEN stats[n] + 1 ELSE stats[n]
    BY <1>1, <1>c DEF DispatchInvalid
  <2>2. UNCHANGED <<ingress, bulk, queue, counting, lost>>
    BY <1>1 DEF DispatchInvalid
  <2>3. /\ stats'["TOTAL"] = stats'["PASS"] + stats'["CPUMAP"] + stats'["XSK"]
        /\ stats'["PASS"] = stats'["INVALID"] + stats'["EXPERIMENT_PASS"]
             + stats'["CPUMAP_FALLBACK"] + stats'["XSK_FALLBACK"]
    BY <1>n, <1>e, <2>1 DEF StatNames
  <2>4. /\ stats'["TOTAL"] = stats'["INVALID"] + stats'["INGRESS_RECORDED"]
             + stats'["INGRESS_DUPLICATE"] + stats'["INGRESS_UPDATE_ERROR"]
        /\ Cardinality(ingress') = stats'["INGRESS_RECORDED"]
    BY <1>n, <1>i, <2>1, <2>2 DEF StatNames
  <2>5. \A n \in Terminals \cup {"CPUMAP"} : stats'[n] = stats[n]
    BY <2>1 DEF StatNames, Terminals
  <2>6. stats'["CPUMAP"] = stats["CPUMAP"] /\ Terminated' = Terminated
    BY <2>5 DEF Terminals, Terminated
  <2> QED
    BY <1>r, <2>2, <2>3, <2>4, <2>6 DEF Conservation
<1>2. ASSUME NEW key \in Keys, NEW path \in {"pass", "cpumap", "xsk"}, Dispatch(key, path)
      PROVE  Conservation'
  <2> DEFINE counted == DispatchStats(EffectivePath(path))
             outcome == IngressOutcome(key)
             names == {"TOTAL", outcome} \cup counted
  <2>1. \A n \in StatNames : stats'[n] = IF n \in names THEN stats[n] + 1 ELSE stats[n]
    BY <1>2, <1>c DEF Dispatch
  <2>2. counted \in {{"CPUMAP"}, {"CPUMAP_FALLBACK", "PASS"}, {"XSK"},
                     {"XSK_FALLBACK", "PASS"}, {"EXPERIMENT_PASS", "PASS"}}
    BY Paths
  <2>3. outcome \in {"INGRESS_DUPLICATE", "INGRESS_RECORDED", "INGRESS_UPDATE_ERROR"}
    BY DEF IngressOutcome
  <2>4. Cardinality(ingress') = Cardinality(ingress)
                               + (IF outcome = "INGRESS_RECORDED" THEN 1 ELSE 0)
    <3>1. outcome = "INGRESS_RECORDED" => key \notin ingress
      BY DEF IngressOutcome
    <3>2. ingress' = IF outcome = "INGRESS_RECORDED" THEN ingress \cup {key} ELSE ingress
      BY <1>2 DEF Dispatch
    <3> HIDE DEF outcome
    <3>3. /\ Cardinality(ingress) \in Nat
          /\ key \notin ingress => Cardinality(ingress \cup {key}) = Cardinality(ingress) + 1
      BY <1>t, OneMore
    <3> QED
      BY <3>1, <3>2, <3>3
  <2>5. Len(bulk') = Len(bulk) + (IF "CPUMAP" \in counted THEN 1 ELSE 0)
    <3>1. bulk' = IF "CPUMAP" \in counted THEN Append(bulk, key) ELSE bulk
      BY <1>2 DEF Dispatch
    <3> HIDE DEF counted
    <3> QED
      BY <3>1, <1>t, <1>l
  <2>6. UNCHANGED <<queue, counting, lost>>
    BY <1>2 DEF Dispatch
  <2> HIDE DEF counted, outcome
  <2>7. /\ stats'["TOTAL"] = stats["TOTAL"] + 1
        /\ stats'["INVALID"] = stats["INVALID"]
    BY <2>1, <2>2, <2>3 DEF StatNames
  <2>8. \A n \in Terminals : stats'[n] = stats[n]
    BY <2>1, <2>2, <2>3 DEF StatNames, Terminals
  <2>9. \A n \in {"INGRESS_DUPLICATE", "INGRESS_RECORDED", "INGRESS_UPDATE_ERROR"} :
          stats'[n] = IF n = outcome THEN stats[n] + 1 ELSE stats[n]
    BY <2>1, <2>2 DEF StatNames
  <2>10. \A n \in {"PASS", "CPUMAP", "XSK", "EXPERIMENT_PASS", "CPUMAP_FALLBACK",
                   "XSK_FALLBACK"} :
           stats'[n] = IF n \in counted THEN stats[n] + 1 ELSE stats[n]
    BY <2>1, <2>3 DEF StatNames
  <2> HIDE DEF names
  <2>11. /\ stats'["TOTAL"] = stats'["PASS"] + stats'["CPUMAP"] + stats'["XSK"]
         /\ stats'["PASS"] = stats'["INVALID"] + stats'["EXPERIMENT_PASS"]
              + stats'["CPUMAP_FALLBACK"] + stats'["XSK_FALLBACK"]
    BY <1>n, <1>e, <2>2, <2>7, <2>10 DEF StatNames
  <2>12. /\ stats'["TOTAL"] = stats'["INVALID"] + stats'["INGRESS_RECORDED"]
              + stats'["INGRESS_DUPLICATE"] + stats'["INGRESS_UPDATE_ERROR"]
         /\ Cardinality(ingress') = stats'["INGRESS_RECORDED"]
    BY <1>n, <1>i, <2>3, <2>4, <2>7, <2>9 DEF StatNames
  <2>13. stats'["CPUMAP"] = Len(bulk') + Len(queue') + lost'
           + (IF counting' = "none" THEN 0 ELSE 1) + Terminated'
    <3>1. stats'["CPUMAP"] = stats["CPUMAP"] + (IF "CPUMAP" \in counted THEN 1 ELSE 0)
      BY <1>s, <2>10
    <3>2. Terminated' = Terminated
      BY <2>8 DEF Terminals, Terminated
    <3>3. PICK busy \in Nat : busy = IF counting = "none" THEN 0 ELSE 1
      OBVIOUS
    <3>4. stats["CPUMAP"] = Len(bulk) + Len(queue) + lost + busy + Terminated
      BY <1>r, <3>3
    <3>5. stats'["CPUMAP"] = Len(bulk') + Len(queue) + lost + busy + Terminated
      <4>1. CASE "CPUMAP" \in counted
        BY <1>l, <1>s, <2>5, <3>1, <3>4, <4>1
      <4>2. CASE "CPUMAP" \notin counted
        BY <1>l, <1>s, <2>5, <3>1, <3>4, <4>2
      <4> QED
        BY <4>1, <4>2
    <3> QED
      BY <2>6, <3>2, <3>3, <3>5
  <2> QED
    BY <2>11, <2>12, <2>13 DEF Conservation
<1>3. CASE Enqueue
  <2>1. Len(bulk') = Len(bulk) - 1
    BY <1>3, <1>t DEF Enqueue
  <2>2. \/ Len(queue') = Len(queue) + 1 /\ lost' = lost
        \/ Len(queue') = Len(queue) /\ lost' = lost + 1
    BY <1>3, <1>t, <1>l DEF Enqueue
  <2>3. UNCHANGED <<stats, ingress, counting>>
    BY <1>3 DEF Enqueue
  <2>4. Len(bulk') + Len(queue') + lost' = Len(bulk) + Len(queue) + lost
    BY <1>l, <2>1, <2>2
  <2>5. Terminated' = Terminated
    BY <2>3 DEF Terminated
  <2> QED
    BY <1>e, <1>i, <1>r, <2>3, <2>4, <2>5 DEF Conservation
<1>4. CASE Measure
  <2>1. Len(queue') = Len(queue) - 1
    BY <1>4, <1>t DEF Measure
  <2>2. counting' # "none" /\ counting = "none" /\ UNCHANGED <<stats, bulk, lost, ingress>>
    BY <1>4 DEF Measure
  <2>3. Len(bulk) + Len(queue') + lost + 1 = Len(bulk) + Len(queue) + lost + 0
    BY <1>l, <2>1
  <2>4. Terminated' = Terminated
    BY <2>2 DEF Terminated
  <2> QED
    BY <1>e, <1>i, <1>r, <2>2, <2>3, <2>4 DEF Conservation
<1>5. CASE CountMeasured
  <2>1. \A n \in StatNames : stats'[n] = IF n \in {counting} THEN stats[n] + 1 ELSE stats[n]
    BY <1>5, <1>c DEF CountMeasured
  <2>2. counting \in Terminals /\ counting' = "none" /\ UNCHANGED <<queue, bulk, lost, ingress>>
    BY <1>5, <1>t DEF CountMeasured
  <2>3. \A n \in StatNames \ Terminals : stats'[n] = stats[n]
    BY <2>1, <2>2
  <2>4. stats'["CPUMAP"] = Len(bulk') + Len(queue') + lost'
           + (IF counting' = "none" THEN 0 ELSE 1) + Terminated'
    <3>1. Terminated' = Terminated + 1
      BY <1>n, <2>1, <2>2 DEF StatNames, Terminals, Terminated
    <3>2. stats'["CPUMAP"] = stats["CPUMAP"] /\ counting # "none"
      BY <1>5, <2>3 DEF StatNames, Terminals, CountMeasured
    <3> QED
      BY <1>l, <1>r, <1>s, <2>2, <3>1, <3>2
  <2> QED
    BY <1>e, <1>i, <2>2, <2>3, <2>4 DEF Conservation, StatNames, Terminals
<1>6. CASE UNCHANGED kernelVars
  BY <1>6 DEF Conservation, Terminated
<1>7. DispatchInvalid \/ Enqueue \/ Measure \/ CountMeasured \/ UNCHANGED kernelVars
      \/ \E key \in Keys, path \in {"pass", "cpumap", "xsk"} : Dispatch(key, path)
  BY DEF Next, vars, Detach, ReadStat, DrainDone, DrainLoss, DrainTimeout, ReadFails,
         Finish, Poll, Export, ExportFails
<1> QED
  BY <1>1, <1>2, <1>3, <1>4, <1>5, <1>6, <1>7

(* An outcome that is counted may or may not show in the snapshot.         *)
LEMMA Grows ==
  ASSUME TypeOK, SnapshotInv, CountMeasured
  PROVE  /\ Projected \in Int /\ Projected' \in Int /\ Projected <= Projected'
         /\ Terminated' = Terminated + 1 /\ stats'["CPUMAP"] = stats["CPUMAP"]
         /\ \A j \in 1..4 : j <= Len(seen) => seen[j] <= stats'[Reads[j]]
<1>1. stats \in [StatNames -> Nat] /\ seen \in Seq(Nat) /\ counting \in Terminals
      /\ UNCHANGED seen
  BY DEF TypeOK, CountMeasured, loaderVars
<1>2. \A n \in StatNames : stats'[n] = IF n \in {counting} THEN stats[n] + 1 ELSE stats[n]
  BY <1>1, Counted DEF CountMeasured
<1>3. \A n \in StatNames : stats[n] \in Nat /\ stats'[n] \in Nat /\ stats[n] <= stats'[n]
  BY <1>1, <1>2
<1>4. ASSUME NEW j \in 1..4
      PROVE  /\ Part(j) \in Int /\ Part(j)' \in Int /\ Part(j) <= Part(j)'
             /\ j <= Len(seen) => seen[j] <= stats'[Reads[j]]
  <2>1. Reads[j] \in StatNames
    BY ReadOrder DEF StatNames, Terminals
  <2>2. /\ stats[Reads[j]] \in Nat /\ stats'[Reads[j]] \in Nat
        /\ stats[Reads[j]] <= stats'[Reads[j]]
    BY <1>3, <2>1
  <2>3. j <= Len(seen) => seen[j] \in Nat
    BY <1>1
  <2>4. j <= Len(seen) => seen[j] <= stats[Reads[j]]
    BY DEF SnapshotInv
  <2> QED
    BY <1>1, <2>2, <2>3, <2>4 DEF Part
<1>5. /\ Part(1) \in Int /\ Part(1)' \in Int /\ Part(1) <= Part(1)'
      /\ Part(2) \in Int /\ Part(2)' \in Int /\ Part(2) <= Part(2)'
      /\ Part(3) \in Int /\ Part(3)' \in Int /\ Part(3) <= Part(3)'
      /\ Part(4) \in Int /\ Part(4)' \in Int /\ Part(4) <= Part(4)'
  BY <1>4
<1>6. Projected <= Projected' /\ Projected \in Int /\ Projected' \in Int
  BY <1>5 DEF Projected
<1>7. \A n \in StatNames : stats[n] \in Nat
  BY <1>3
<1>8. counting \in Terminals
  BY <1>1
<1>9. Terminated' = Terminated + 1
  BY <1>2, <1>7, <1>8 DEF StatNames, Terminals, Terminated
<1>10. stats'["CPUMAP"] = stats["CPUMAP"]
  BY <1>2, <1>8 DEF StatNames, Terminals
<1> QED
  BY <1>4, <1>6, <1>9, <1>10

(* Reading a counter does not change what the snapshot comes to.           *)
LEMMA ReadKeeps ==
  ASSUME TypeOK, SnapshotInv, ReadStat
  PROVE  /\ Projected' = Projected
         /\ \A j \in 1..4 : j <= Len(seen') => seen'[j] <= stats'[Reads[j]]
         /\ Len(seen') = 5 => seen'[5] = stats'["CPUMAP"]
<1>t. stats \in [StatNames -> Nat] /\ seen \in Seq(Nat)
  BY DEF TypeOK
<1>l. Len(seen) \in Nat
  BY <1>t
<1>0. Len(seen) \in Nat /\ Len(seen) < 5
  BY <1>l, ReadOrder DEF ReadStat
<1>1. /\ phase = "drain" /\ seen' = Append(seen, stats[Reads[Len(seen) + 1]])
      /\ UNCHANGED <<stats, bulk, phase, previous, elapsed, lastChange>>
  BY DEF ReadStat, kernelVars
<1>2. Reads[Len(seen) + 1] \in StatNames
  BY <1>0, ReadOrder DEF StatNames, Terminals
<1>3. /\ Len(seen') = Len(seen) + 1 /\ seen'[Len(seen) + 1] = stats[Reads[Len(seen) + 1]]
      /\ \A j \in 1..Len(seen) : seen'[j] = seen[j]
  BY <1>t, <1>1, <1>2
<1>4. stats[Reads[Len(seen) + 1]] \in Nat
  BY <1>t, <1>2
<1>5. ASSUME NEW j \in 1..4
      PROVE  Part(j)' = Part(j) /\ (j <= Len(seen') => seen'[j] <= stats'[Reads[j]])
  <2>1. CASE j <= Len(seen)
    <3>1. seen'[j] = seen[j] /\ j <= Len(seen') /\ stats' = stats
      BY <1>l, <1>1, <1>3, <2>1
    <3>2. seen[j] <= stats[Reads[j]]
      BY <2>1 DEF SnapshotInv
    <3> QED
      BY <3>1, <3>2, <2>1 DEF Part
  <2>2. CASE j = Len(seen) + 1
    <3>1. seen'[j] = stats[Reads[j]] /\ j <= Len(seen') /\ ~(j <= Len(seen)) /\ stats' = stats
      BY <1>l, <1>1, <1>3, <2>2
    <3>2. stats[Reads[j]] \in Nat
      BY <1>4, <2>2
    <3> QED
      BY <3>1, <3>2 DEF Part
  <2>3. CASE j > Len(seen) + 1
    <3>1. ~(j <= Len(seen')) /\ ~(j <= Len(seen)) /\ stats' = stats
      BY <1>l, <1>1, <1>3, <2>3
    <3> QED
      BY <3>1 DEF Part
  <2> QED
    BY <1>l, <2>1, <2>2, <2>3
<1>6. Projected' = Projected
  BY <1>5 DEF Projected
<1>7. Len(seen') = 5 => seen'[5] = stats'["CPUMAP"]
  BY <1>l, <1>0, <1>1, <1>3, ReadOrder
<1> QED
  BY <1>5, <1>6, <1>7

(* What the loader reads while the counters move: a snapshot is never      *)
(* ahead of them, and not behind the one before it.                        *)
LEMMA DSnapshot ==
  ASSUME TypeOK, TypeOK', SnapshotInv, [Next]_vars
  PROVE  SnapshotInv'
<1> USE DEF setupVars, kernelVars, loaderVars
<1>t. /\ stats \in [StatNames -> Nat] /\ seen \in Seq(Nat)
      /\ previous \in Int \X Int
      /\ elapsed \in 0..Timeout /\ lastChange \in 0..Timeout
  BY DEF TypeOK
<1>l. Len(seen) \in Nat
  BY <1>t
(* A step of the packet path before the drain.                             *)
<1>1. ASSUME phase = "run", UNCHANGED loaderVars, stats' \in [StatNames -> Nat]
      PROVE  SnapshotInv'
  <2>1. seen' = <<>> /\ previous' = <<-1, -1>> /\ elapsed' = 0 /\ lastChange' = 0
        /\ phase' = "run"
    BY <1>1 DEF SnapshotInv
  <2>2. Len(seen') = 0
    BY <2>1
  <2>3. Projected' \in Nat
    <3>1. ASSUME NEW j \in 1..4 PROVE Part(j)' \in Nat
      <4>1. Reads[j] \in StatNames
        BY ReadOrder DEF StatNames, Terminals
      <4> QED
        BY <1>1, <2>2, <4>1 DEF Part
    <3>2. Part(1)' \in Nat /\ Part(2)' \in Nat /\ Part(3)' \in Nat /\ Part(4)' \in Nat
      BY <3>1
    <3> QED
      BY <3>2 DEF Projected
  <2> QED
    BY <2>1, <2>2, <2>3 DEF SnapshotInv
<1>2. CASE \/ DispatchInvalid \/ Enqueue
           \/ \E key \in Keys, path \in {"pass", "cpumap", "xsk"} : Dispatch(key, path)
  <2>1. phase = "run" /\ UNCHANGED loaderVars
    BY <1>2 DEF DispatchInvalid, Enqueue, Dispatch, Arrival, SnapshotInv
  <2>2. stats' \in [StatNames -> Nat]
    BY DEF TypeOK
  <2> QED
    BY <1>1, <2>1, <2>2
<1>3. CASE CountMeasured
  <2>1. counting \in Terminals /\ UNCHANGED <<bulk, loaderVars>>
    BY <1>3 DEF CountMeasured, TypeOK
  <2>2. stats'["CPUMAP"] = stats["CPUMAP"]
    BY <1>3, Grows
  <2>3. previous'[2] <= Projected'
    BY <1>3, <2>1, Grows, Bounds
  <2>4. \A j \in 1..4 : j <= Len(seen') => seen'[j] <= stats'[Reads[j]]
    BY <1>3, <2>1, Grows
  <2> QED
    BY <2>1, <2>2, <2>3, <2>4 DEF SnapshotInv
<1>4. CASE ReadStat
  <2>1. phase = "drain" /\ UNCHANGED <<bulk, phase, previous, elapsed, lastChange>>
    BY <1>4 DEF ReadStat
  <2> QED
    BY <1>4, <2>1, ReadKeeps DEF SnapshotInv
(* A new snapshot begins, or none does.                                    *)
<1>5. ASSUME seen' = <<>>, UNCHANGED stats,
             phase' # "run", phase # "run", UNCHANGED bulk,
             previous'[2] <= Terminated, lastChange' <= elapsed'
      PROVE  SnapshotInv'
  <2>1. Len(seen') = 0
    BY <1>5
  <2>2. Projected' = Terminated
    BY <1>5, <2>1, ReadOrder DEF Projected, Part, Terminated
  <2> QED
    BY <1>5, <2>1, <2>2 DEF SnapshotInv
<1>6. CASE DrainDone \/ DrainLoss \/ DrainTimeout \/ ReadFails
  <2>1. /\ seen' = <<>> /\ UNCHANGED <<stats, bulk, previous, elapsed, lastChange>>
        /\ phase = "drain" /\ phase' # "run"
    BY <1>6 DEF DrainDone, DrainLoss, DrainTimeout, ReadFails, Finish, SnapshotTaken
  <2>2. previous'[2] <= Terminated
    BY <2>1, Bounds
  <2>3. lastChange' <= elapsed'
    BY <2>1 DEF SnapshotInv
  <2> QED
    BY <1>5, <2>1, <2>2, <2>3
<1>7. CASE Poll
  <2>1. /\ seen' = <<>> /\ UNCHANGED <<stats, bulk, phase>> /\ phase = "drain"
        /\ previous' = <<requested, terminal>> /\ elapsed' = elapsed + 1
        /\ lastChange' \in {elapsed, lastChange}
    BY <1>7 DEF Poll, SnapshotTaken, LastChangeNow
  <2>2. SnapshotTaken
    BY <1>7 DEF Poll
  <2>3. previous'[2] <= Terminated
    BY <2>1, <2>2, Snapshot, Bounds
  <2>4. lastChange' <= elapsed'
    <3>1. lastChange <= elapsed
      BY DEF SnapshotInv
    <3> QED
      BY <1>t, <2>1, <3>1
  <2> QED
    BY <1>5, <2>1, <2>3, <2>4
<1>8. CASE Detach
  <2>1. /\ phase = "run" /\ phase' = "drain" /\ bulk' = <<>>
        /\ UNCHANGED <<stats, seen, previous, elapsed, lastChange>>
    BY <1>8 DEF Detach
  <2>2. Projected' = Projected
    BY <2>1 DEF Projected, Part
  <2> QED
    BY <2>1, <2>2 DEF SnapshotInv
<1>9. CASE Export \/ ExportFails \/ Measure \/ UNCHANGED vars
  <2>1. /\ UNCHANGED <<stats, bulk, seen, previous, elapsed, lastChange>>
        /\ \/ phase' = phase
           \/ phase = "drained" /\ phase' \in {"exported", "kept"}
    BY <1>9 DEF Export, ExportFails, Measure, vars
  <2>2. Projected' = Projected
    BY <2>1 DEF Projected, Part
  <2> QED
    BY <2>1, <2>2 DEF SnapshotInv
<1> QED
  BY <1>2, <1>3, <1>4, <1>6, <1>7, <1>8, <1>9 DEF Next

-----------------------------------------------------------------------------
(* How long it has been quiet says how long the worker has been waiting.   *)
LEMMA DQuiet ==
  ASSUME TypeOK, TypeOK', SnapshotInv, QuietInv, [Next]_vars
  PROVE  QuietInv'
<1> USE DEF setupVars, kernelVars, loaderVars
<1>t. elapsed \in Nat /\ lastChange \in Nat /\ stall \in Nat /\ MaxStall \in Nat
      /\ lastChange <= elapsed
  BY CpumapDrainAssumption DEF TypeOK, SnapshotInv
<1>1. CASE phase' # "drain"
  BY <1>1 DEF QuietInv
<1>2. CASE UNCHANGED <<stats, phase, seen, previous, elapsed, lastChange, stall>>
           /\ (WorkPending' => WorkPending)
  <2>1. UNCHANGED <<Projected, Terminated>>
    BY <1>2 DEF Projected, Part, Terminated
  <2> QED
    BY <1>2, <2>1 DEF QuietInv
<1>3. CASE phase = "drain" /\ CountMeasured
  <2>1. previous'[2] # Terminated'
    BY <1>3, Bounds, Grows DEF CountMeasured
  <2>2. previous'[2] = Projected' => previous[2] = Projected
    BY <1>3, Bounds, Grows DEF CountMeasured
  <2>3. WorkPending /\ UNCHANGED <<elapsed, lastChange>>
    BY <1>3 DEF CountMeasured, WorkPending
  <2> QED
    BY <1>3, <2>1, <2>2, <2>3 DEF QuietInv
<1>4. CASE Detach
  <2>1. previous'[2] = -1 /\ Projected' = Projected /\ Terminated' = Terminated
    BY <1>4 DEF Detach, SnapshotInv, Projected, Part, Terminated
  <2> QED
    BY <2>1, Bounds DEF QuietInv
<1>5. CASE ReadStat
  <2>1. Projected' = Projected
    BY <1>5, ReadKeeps
  <2>2. /\ UNCHANGED <<Terminated, WorkPending>>
        /\ UNCHANGED <<phase, previous, elapsed, lastChange, stall>>
    BY <1>5 DEF ReadStat, Terminated, WorkPending
  <2> QED
    BY <2>1, <2>2 DEF QuietInv
<1>6. CASE Poll
  <2>1. /\ seen' = <<>> /\ UNCHANGED <<stats, WorkPending>> /\ phase = "drain"
        /\ previous' = <<requested, terminal>> /\ elapsed' = elapsed + 1
        /\ lastChange' = IF previous = <<requested, terminal>> THEN lastChange ELSE elapsed
        /\ WorkPending => stall' = stall + 1 /\ stall < MaxStall
    BY <1>6 DEF Poll, SnapshotTaken, LastChangeNow, WorkPending
  <2>2. Len(seen') = 0
    BY <2>1
  <2>3. Projected' = Terminated /\ Terminated' = Terminated
    BY <2>1, <2>2, ReadOrder DEF Projected, Part, Terminated
  <2>4. previous'[2] = terminal
    BY <2>1
  <2>5. ASSUME WorkPending, terminal = Terminated
        PROVE  elapsed' - lastChange' <= stall' /\ stall' <= MaxStall
    <3>1. CASE previous = <<requested, terminal>>
      <4>1. previous[2] = Terminated
        BY <2>5, <3>1
      <4>2. elapsed - lastChange <= stall
        BY <2>1, <2>5, <4>1 DEF QuietInv
      <4> QED
        BY <1>t, <2>1, <2>5, <3>1, <4>2
    <3>2. CASE previous # <<requested, terminal>>
      BY <1>t, <2>1, <2>5, <3>2
    <3> QED
      BY <3>1, <3>2
  <2>6. WorkPending' = WorkPending
    BY <2>1
  <2>7. stall' \in Nat /\ elapsed' \in Nat /\ lastChange' \in Nat
    BY DEF TypeOK
  <2>8. ~(Terminated < Terminated)
    BY Bounds
  <2>9. WorkPending' /\ previous'[2] = Terminated' => elapsed' - lastChange' <= stall'
    BY <2>3, <2>4, <2>5, <2>6
  <2>10. previous'[2] = Projected' /\ (WorkPending' \/ Projected' < Terminated')
           => elapsed' - lastChange' <= MaxStall
    <3>1. SUFFICES ASSUME previous'[2] = Projected', WorkPending' \/ Projected' < Terminated'
                   PROVE  elapsed' - lastChange' <= MaxStall
      OBVIOUS
    <3>2. WorkPending /\ terminal = Terminated
      BY <2>3, <2>4, <2>6, <2>8, <3>1
    <3>3. elapsed' - lastChange' <= stall' /\ stall' <= MaxStall
      BY <2>5, <3>2
    <3>4. elapsed' - lastChange' \in Int /\ stall' \in Int /\ MaxStall \in Int
      BY <1>t, <2>7
    <3> QED
      BY <3>3, <3>4
  <2> QED
    BY <2>9, <2>10 DEF QuietInv
<1>7. CASE Measure
  <2>1. WorkPending
    BY <1>7 DEF Measure, WorkPending
  <2>2. UNCHANGED <<stats, phase, seen, previous, elapsed, lastChange, stall>>
    BY <1>7 DEF Measure
  <2> QED
    BY <1>2, <2>1, <2>2
<1>8. CASE UNCHANGED vars
  BY <1>2, <1>8 DEF vars, WorkPending
<1>9. CASE ~(CountMeasured \/ Detach \/ ReadStat \/ Poll \/ Measure \/ UNCHANGED vars)
  <2>1. phase' # "drain"
    BY <1>9 DEF Next, DispatchInvalid, Dispatch, Arrival, Enqueue, DrainDone, DrainLoss,
       DrainTimeout, ReadFails, Finish, Export, ExportFails, SnapshotInv
  <2> QED
    BY <1>1, <2>1
<1>10. CountMeasured => phase' = phase
  BY DEF CountMeasured
<1> QED
  BY <1>1, <1>3, <1>4, <1>5, <1>6, <1>7, <1>8, <1>9, <1>10

(* When the loader stops, what it reports is what was lost.                *)
LEMMA DExact ==
  ASSUME DInv, [Next]_vars
  PROVE  DrainIsExact'
<1> USE DEF setupVars, kernelVars, loaderVars
<1>t. TypeOK /\ Conservation /\ SnapshotInv /\ QuietInv /\ DrainIsExact
  BY DEF DInv
<1>l. /\ Len(queue) \in Nat /\ lost \in Nat /\ elapsed \in Nat /\ lastChange \in Nat
      /\ Quiet \in Nat /\ MaxStall \in Nat
  <2>1. queue \in Seq(Keys) /\ lost \in Nat
        /\ elapsed \in 0..Timeout /\ lastChange \in 0..Timeout
    BY <1>t DEF TypeOK
  <2> QED
    BY <2>1, CpumapDrainAssumption
(* What a complete snapshot and the counters have to do with each other.   *)
<1>s. ASSUME SnapshotTaken
      PROVE  /\ requested \in Nat /\ terminal \in Nat /\ Terminated \in Nat
             /\ terminal <= Terminated /\ Projected = terminal
             /\ requested = Len(queue) + lost + (IF counting = "none" THEN 0 ELSE 1) + Terminated
  <2>1. /\ Len(seen) = 5 /\ requested \in Nat /\ terminal \in Nat /\ Projected = terminal
        /\ Terminated \in Nat /\ Projected <= Terminated
    BY <1>t, <1>s, Snapshot, Bounds
  <2>2. requested = stats["CPUMAP"] /\ bulk = <<>>
    BY <1>t, <1>s, <2>1 DEF SnapshotInv, SnapshotTaken, requested
  <2>3. stats["CPUMAP"] = Len(bulk) + Len(queue) + lost
          + (IF counting = "none" THEN 0 ELSE 1) + Terminated
    BY <1>t DEF Conservation
  <2>4. Len(bulk) = 0
    BY <2>2
  <2>5. Len(bulk) + Len(queue) = Len(queue)
    BY <1>l, <2>4
  <2> QED
    BY <2>1, <2>2, <2>3, <2>5
<1>1. CASE DrainDone
  <2>1. SnapshotTaken /\ requested = terminal
    BY <1>1 DEF DrainDone, Drained
  <2>2. Len(queue) = 0 /\ lost = 0 /\ counting = "none"
    BY <1>l, <1>s, <2>1
  <2>3. queue = <<>>
    BY <1>t, <2>2 DEF TypeOK
  <2>4. phase' = "drained" /\ report' = 0 /\ UNCHANGED <<queue, counting, lost>>
    BY <1>1 DEF DrainDone, Finish
  <2> QED
    BY <2>2, <2>3, <2>4 DEF DrainIsExact, WorkPending
<1>2. CASE DrainLoss
  <2>1. SnapshotTaken /\ elapsed - LastChangeNow >= Quiet
    BY <1>2 DEF DrainLoss, QuietDeficit
  <2>2. previous = <<requested, terminal>> /\ elapsed - lastChange > MaxStall
    BY <1>l, <2>1, WorkerKeepsUp DEF LastChangeNow
  <2>3. previous[2] = Projected
    BY <1>s, <2>1, <2>2
  <2>4. ~WorkPending /\ ~(Projected < Terminated)
    BY <1>t, <1>l, <2>1, <2>2, <2>3 DEF QuietInv, SnapshotTaken
  <2>5. queue = <<>> /\ counting = "none" /\ Len(queue) = 0
    BY <2>4 DEF WorkPending
  <2>6. requested - terminal = lost
    BY <1>l, <1>s, <2>1, <2>4, <2>5
  <2>7. phase' = "drained" /\ report' = requested - terminal
        /\ UNCHANGED <<queue, counting, lost>>
    BY <1>2 DEF DrainLoss, Finish
  <2> QED
    BY <2>4, <2>6, <2>7 DEF DrainIsExact, WorkPending
<1>3. CASE Export
  BY <1>3, <1>t DEF Export, DrainIsExact, WorkPending
<1>4. CASE UNCHANGED <<phase, report, lost, queue, counting, file, cpumap>>
  BY <1>4, <1>t DEF DrainIsExact, WorkPending
<1>5. CASE phase' \in {"run", "drain", "kept"}
  BY <1>5 DEF DrainIsExact
<1>6. CASE phase \in {"drained", "exported"} /\ (Measure \/ CountMeasured)
  BY <1>6, <1>t DEF DrainIsExact, WorkPending, Measure, CountMeasured
<1>7. CASE Measure \/ CountMeasured
  <2>1. phase' = phase /\ phase \in Phases
    BY <1>7, <1>t DEF Measure, CountMeasured, TypeOK
  <2> QED
    BY <1>5, <1>6, <1>7, <2>1 DEF Phases
<1>8. CASE UNCHANGED vars
  BY <1>4, <1>8 DEF vars
<1>9. CASE ~(DrainDone \/ DrainLoss \/ Export \/ Measure \/ CountMeasured \/ UNCHANGED vars)
  <2>1. phase' \in {"run", "drain", "kept"}
    BY <1>9, <1>t DEF Next, DispatchInvalid, Dispatch, Arrival, Enqueue, DrainTimeout,
       ReadFails, Finish, ExportFails, Detach, ReadStat, Poll, SnapshotTaken, SnapshotInv
  <2> QED
    BY <1>5, <2>1
<1> QED
  BY <1>1, <1>2, <1>3, <1>7, <1>8, <1>9

(* The invariant holds throughout.                                         *)
LEMMA DInvariant == Spec => []DInv
<1>1. DInv /\ [Next]_vars => DInv'
  BY DType, DBalance, DSnapshot, DQuiet, DExact DEF DInv
<1> QED
  BY DInit, <1>1, PTL DEF Spec

-----------------------------------------------------------------------------
(* DrainIsExact: however late the worker is and however its counting falls *)
(* between the loader's reads, the loss that wait_for_cpumap_records       *)
(* reports is the number of packets lost, and the records are complete     *)
(* when they are exported.                                                 *)
THEOREM Drain == Spec => []DrainIsExact
<1>1. DInv => DrainIsExact
  BY DEF DInv
<1> QED
  BY DInvariant, <1>1, PTL

(* Conservation: the counters of xdp_dispatch and xdp_cpumap_measure       *)
(* balance in every state, for any traffic in any mode.                    *)
THEOREM Balance == Spec => []Conservation
<1>1. DInv => Conservation
  BY DEF DInv
<1> QED
  BY DInvariant, <1>1, PTL

=============================================================================
