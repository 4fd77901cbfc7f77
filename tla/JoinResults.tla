----------------------------- MODULE JoinResults ----------------------------
(***************************************************************************)
(* analysis/join_results.py on one run directory.  Processes, perhaps at   *)
(* the same time, load the records of the run, join them (JoinRow), digest *)
(* the inputs, and write the joined CSV, the summary and, last, the        *)
(* completion marker.  A process can fail at any write or be killed at any *)
(* step, and another program may change an input file.                     *)
(*                                                                         *)
(* Of the inputs one packet is followed: when it truly passed each point,  *)
(* which points left a record of it, and at most one damage to the files.  *)
(* It is chosen when the inputs are first read, and forgotten when that    *)
(* process goes on to the outputs, which do not depend on it.              *)
(***************************************************************************)
EXTENDS JoinRow, FiniteSets, Sequences

CONSTANTS Procs,       \* processes analysing the run
          Packets,     \* packets [path, hw, xdp, cpumap, user]: true times
          Calibrations,\* sets of times at which the PHC was calibrated
          Base, Drift, \* the PHC is ahead by Base + Drift * time
          MaxChanges   \* bound on the changes of the inputs

ASSUME JoinResultsAssumption ==
  /\ Packets \subseteq [path : Paths, hw : Nat, xdp : Nat, cpumap : Nat, user : Nat]
  /\ Calibrations \subseteq (SUBSET Nat) \ {{}}
  /\ Base \in Nat /\ Drift \in Nat /\ MaxChanges \in Nat

VARIABLES
  obs,      \* the packet followed and its records, or None
  pc,       \* control point of each process
  version,  \* version of the input files
  loaded,   \* version each process loaded
  digest,   \* version each process digested
  files,    \* output files: who wrote it, from which inputs, whether whole
  created   \* output files each process created and did not remove

vars == <<obs, pc, version, loaded, digest, files, created>>

Outputs == {"csv", "json", "marker"}
Absent == [owner |-> None, whole |-> FALSE, rows |-> -1, inputs |-> -1]
Versions == 0..MaxChanges

Damages == {"none", "both_users", "socket", "cpumap_path", "cpumap_flags",
            "late_copy", "no_meta", "error_code", "unknown_flag", "other_path",
            "duplicate", "two_files", "torn", "bad_offset", "conflict"}
Observations ==
  [packet : Packets, present : SUBSET {"ingress", "cpumap", "user"}, stamped : BOOLEAN,
   damage : Damages, samples : Calibrations, clamp : BOOLEAN]

PCs == {"start", "loaded", "analysed", "verify", "csv", "csv_data", "json", "json_data",
        "marker", "marker_data", "marker_sync", "done", "unlink", "failed", "killed"}
Ended == {"done", "failed", "killed"}

(* Every variable has its type.                                            *)
TypeOK ==
  /\ obs = None \/ obs \in Observations
  /\ pc \in [Procs -> PCs]
  /\ version \in Versions
  /\ loaded \in [Procs -> Versions \cup {-1}]
  /\ digest \in [Procs -> Versions \cup {-1}]
  /\ files \in [Outputs -> [owner : Procs \cup {None}, whole : BOOLEAN,
                            rows : Versions \cup {-1}, inputs : Versions \cup {-1}]]
  /\ created \in [Procs -> SUBSET Outputs]

Init ==
  /\ obs = None
  /\ pc = [p \in Procs |-> "start"]
  /\ version = 0
  /\ loaded = [p \in Procs |-> -1]
  /\ digest = [p \in Procs |-> -1]
  /\ files = [o \in Outputs |-> Absent]
  /\ created = [p \in Procs |-> {}]

-----------------------------------------------------------------------------
(* The records the measuring points leave of the packet of o.              *)
Offset(time) == Base + Drift * time

Phc(o) == IF o.stamped THEN o.packet.hw + Offset(o.packet.hw) ELSE 0
CopyPhc(o) == IF o.stamped THEN o.packet.hw + 1 + Offset(o.packet.hw + 1) ELSE 0
Stamp(o) == IF o.stamped THEN "hw" ELSE "err"
Code(o) == IF o.stamped THEN 0 ELSE 1

(* The ingress program's record; a failing kfunc leaves a code and a flag  *)
IngressRecord(o) ==
  IF "ingress" \notin o.present THEN None
  ELSE IF o.damage = "error_code"
  THEN [hw |-> 1, xdp |-> o.packet.xdp, err |-> 1, path |-> o.packet.path,
        flags |-> {"id", "path", "hw"}]
  ELSE [hw |-> Phc(o), xdp |-> o.packet.xdp, err |-> Code(o),
        path |-> IF o.damage = "other_path" THEN "other" ELSE o.packet.path,
        flags |-> {"id", "path", Stamp(o)} \cup
                  (IF o.damage = "unknown_flag" THEN {"unknown"} ELSE {})]

(* The CPUMAP program's record, on the remote CPU                          *)
CpumapRecord(o) ==
  IF "cpumap" \notin o.present \/ o.packet.path # "cpumap" THEN None
  ELSE [cpumap |-> o.packet.cpumap + (IF o.damage = "cpumap_flags" THEN 1 ELSE 0),
        path |-> IF o.damage = "cpumap_path" THEN "pass" ELSE "cpumap",
        flags |-> {"id", "path", Stamp(o)} \cup
                  (IF o.damage = "cpumap_flags" THEN {} ELSE {"seen"})]

(* An AF_XDP receiver's record, with the metadata before the packet if     *)
(* that is its own, and the record of a copy the network made one later    *)
AfxdpRecord(o) ==
  IF o.damage = "no_meta"
  THEN [hw |-> 0, xdp |-> 0, err |-> 0, path |-> "other", flags |-> {},
        user |-> o.packet.user, validated |-> FALSE]
  ELSE [hw |-> Phc(o), xdp |-> o.packet.xdp, err |-> Code(o), path |-> "xsk",
        flags |-> {"id", "path", Stamp(o)}, user |-> o.packet.user, validated |-> TRUE]
AfxdpCopy(o) ==
  [AfxdpRecord(o) EXCEPT !.hw = CopyPhc(o), !.xdp = @ + 1, !.user = @ + 1]

(* A socket receiver's record, and that of the copy                        *)
UdpRecord(o) ==
  [hw |-> Phc(o), user |-> o.packet.user, flags |-> IF o.stamped THEN {"hw"} ELSE {}]
UdpCopy(o) == [UdpRecord(o) EXCEPT !.hw = CopyPhc(o), !.user = @ + 1]

(* What a receiver keeps: its capacity may leave it the copy only.         *)
Kept(o, record, copy) ==
  CASE o.damage = "duplicate" -> <<record, copy>>
    [] o.damage = "late_copy" -> <<copy>>
    [] OTHER -> <<record>>

AfxdpRows(o) ==
  IF "user" \notin o.present \/ o.packet.path # "xsk" \/ o.damage = "socket" THEN <<>>
  ELSE Kept(o, AfxdpRecord(o), AfxdpCopy(o))

AtSocket(o) ==
  /\ "user" \in o.present
  /\ o.packet.path = "xsk" => o.damage \in {"socket", "both_users"}

(* Receivers' files: their records in order; a torn one ends in a part of  *)
(* a record                                                                *)
UdpFiles(o) ==
  IF ~AtSocket(o) THEN <<>>
  ELSE IF o.damage = "two_files"
  THEN <<[rows |-> <<UdpRecord(o)>>, torn |-> FALSE], [rows |-> <<UdpCopy(o)>>, torn |-> FALSE]>>
  ELSE <<[rows |-> Kept(o, UdpRecord(o), UdpCopy(o)), torn |-> o.damage = "torn"]>>

(* phc_calibrate's files, one per calibration: a sample it selected and,   *)
(* beside it, one whose PHC read was late.                                 *)
CalibrationFiles(o) ==
  {{[before |-> t - 1, after |-> t + 1, phc |-> t + Offset(t), selected |-> TRUE,
     offset |-> Offset(t) + (IF o.damage = "bad_offset" THEN 1 ELSE 0)],
    [before |-> t - 1, after |-> t + 5, phc |-> t + 4 + Offset(t), selected |-> FALSE,
     offset |-> Offset(t) + 2]} : t \in o.samples} \cup
  (IF o.damage # "conflict" THEN {}
   ELSE {{[before |-> t - 2, after |-> t + 2, phc |-> t + 1 + Offset(t), selected |-> TRUE,
           offset |-> Offset(t) + 1]} : t \in o.samples})

-----------------------------------------------------------------------------
(* Loading.                                                                *)

(* load_csv_table: the first record of a packet counts                     *)
LoadCsvTable(rows) == IF rows = <<>> THEN None ELSE rows[1]

(* load_udp_records: a torn file is refused, and the first record counts   *)
UdpTorn(file) == file.torn
LoadUdpRecords(file) == IF file.rows = <<>> THEN None ELSE file.rows[1]

(* load_udp_sources: a packet in two files is refused                      *)
UdpOverlap(udp) ==
  \E j, k \in DOMAIN udp :
    j # k /\ LoadUdpRecords(udp[j]) # None /\ LoadUdpRecords(udp[k]) # None
LoadUdpSources(udp) == IF udp = <<>> THEN None ELSE LoadUdpRecords(udp[1])

(* load_calibration_file: the midpoint of a sample and what is refused     *)
Midpoint(s) == s.before + (s.after - s.before) \div 2
SampleRefused(s) == s.before < 0 \/ s.after < s.before \/ s.offset # s.phc - Midpoint(s)

(* load_calibration: the selected samples of all files, which must agree   *)
Points(calibration) ==
  {[t |-> Midpoint(s), offset |-> s.offset] : s \in {x \in UNION calibration : x.selected}}

CalibrationRefused(calibration) ==
  \/ \E s \in UNION calibration : SampleRefused(s)
  \/ \E f \in calibration : \A s \in f : ~s.selected
  \/ \E p, q \in Points(calibration) : p.t = q.t /\ p.offset # q.offset

(* The InputErrors of analyze                                              *)
InputError(o) ==
  \/ \E k \in DOMAIN UdpFiles(o) : UdpTorn(UdpFiles(o)[k])
  \/ UdpOverlap(UdpFiles(o))
  \/ CalibrationRefused(CalibrationFiles(o))

(* analyze: joined_row of the packet                                       *)
Row(o) ==
  LET i == IngressRecord(o)
      c == CpumapRecord(o)
      a == LoadCsvTable(AfxdpRows(o))
      u == LoadUdpSources(UdpFiles(o))
      at(time) == IF time = None THEN None
                  ELSE Lookup(Points(CalibrationFiles(o)), time, o.clamp)
      s == Stages(i, c, a, u, at(RawXdp(i, a)), at(UserTime(a, u)))
      inc == Inconsistencies(i, c, a, u)
  IN [stages |-> s, status |-> Status(s, inc)]

-----------------------------------------------------------------------------
(* The analyser.                                                           *)
Goto(p, l) == pc' = [pc EXCEPT ![p] = l]

(* analyze: the tables, the calibration and the rows                       *)
Load(p) ==
  /\ pc[p] = "start"
  /\ loaded' = [loaded EXCEPT ![p] = version]
  /\ \/ /\ \A q \in Procs : pc[q] = "start"
        /\ version = 0
        /\ \E o \in Observations :
             /\ obs' = IF InputError(o) THEN None ELSE o
             /\ Goto(p, IF InputError(o) THEN "failed" ELSE "loaded")
     \/ /\ \/ \E q \in Procs : pc[q] # "start"
           \/ version # 0
        /\ obs' = obs
        /\ Goto(p, "loaded")
  /\ UNCHANGED <<version, digest, files, created>>

(* input_artifact_snapshot, after the rows                                 *)
Snapshot(p) ==
  /\ pc[p] = "loaded"
  /\ obs' = None
  /\ digest' = [digest EXCEPT ![p] = version]
  /\ Goto(p, "analysed")
  /\ UNCHANGED <<version, loaded, files, created>>

(* validate_output_state: an output that exists, of a complete set or not, *)
(* ends the attempt.                                                       *)
ValidateOutputState(p) ==
  /\ pc[p] = "analysed"
  /\ Goto(p, IF \A o \in Outputs : files[o] = Absent THEN "verify" ELSE "failed")
  /\ UNCHANGED <<obs, version, loaded, digest, files, created>>

(* verify_input_artifacts                                                  *)
VerifyInputArtifacts(p) ==
  /\ pc[p] = "verify"
  /\ Goto(p, IF version = digest[p] THEN "csv" ELSE "failed")
  /\ UNCHANGED <<obs, version, loaded, digest, files, created>>

(* Wrong: the output is noted as created before it is reserved.            *)
ReserveNoted(p, o) ==
  /\ pc[p] = o
  /\ created' = [created EXCEPT ![p] = @ \cup {o}]
  /\ \/ /\ files[o] = Absent
        /\ files' = [files EXCEPT ![o] = [owner |-> p, whole |-> FALSE,
                                          rows |-> loaded[p], inputs |-> digest[p]]]
        /\ Goto(p, CASE o = "csv" -> "csv_data" [] o = "json" -> "json_data"
                     [] o = "marker" -> "marker_data")
     \/ /\ files[o] # Absent
        /\ files' = files
        /\ Goto(p, "unlink")
  /\ UNCHANGED <<obs, version, loaded, digest>>

(* write_outputs reserves an output with O_EXCL ...                        *)
ReserveOutput(p, o) ==
  /\ pc[p] = o
  /\ \/ /\ files[o] = Absent
        /\ files' = [files EXCEPT ![o] = [owner |-> p, whole |-> FALSE,
                                          rows |-> loaded[p], inputs |-> digest[p]]]
        /\ created' = [created EXCEPT ![p] = @ \cup {o}]
        /\ Goto(p, CASE o = "csv" -> "csv_data" [] o = "json" -> "json_data"
                     [] o = "marker" -> "marker_data")
     \/ /\ files[o] # Absent
        /\ UNCHANGED <<files, created>>
        /\ Goto(p, "unlink")
  /\ UNCHANGED <<obs, version, loaded, digest>>

(* ... and writes and flushes it, the marker last, before the directory.   *)
WriteOutput(p, o) ==
  /\ pc[p] = CASE o = "csv" -> "csv_data" [] o = "json" -> "json_data"
               [] o = "marker" -> "marker_data"
  /\ files' = [files EXCEPT ![o].whole = TRUE]
  /\ Goto(p, CASE o = "csv" -> "json" [] o = "json" -> "marker" [] o = "marker" -> "marker_sync")
  /\ UNCHANGED <<obs, version, loaded, digest, created>>

FsyncMarker(p) ==
  /\ pc[p] = "marker_sync"
  /\ Goto(p, "done")
  /\ UNCHANGED <<obs, version, loaded, digest, files, created>>

(* A reservation, a write or a flush fails, or the process is interrupted. *)
WriteFails(p) ==
  /\ pc[p] \in {"csv", "csv_data", "json", "json_data", "marker", "marker_data", "marker_sync"}
  /\ Goto(p, "unlink")
  /\ UNCHANGED <<obs, version, loaded, digest, files, created>>

(* Wrong: the outputs are removed in the order they were created.          *)
UnlinkForward(p) ==
  /\ pc[p] = "unlink"
  /\ \/ /\ created[p] # {}
        /\ LET o == IF "csv" \in created[p] THEN "csv"
                    ELSE IF "json" \in created[p] THEN "json" ELSE "marker"
           IN /\ files' = [files EXCEPT ![o] = Absent]
              /\ created' = [created EXCEPT ![p] = @ \ {o}]
        /\ pc' = pc
     \/ /\ created[p] = {}
        /\ Goto(p, "failed")
        /\ UNCHANGED <<files, created>>
  /\ UNCHANGED <<obs, version, loaded, digest>>

(* The handler removes what the process created, the last output first.    *)
Unlink(p) ==
  /\ pc[p] = "unlink"
  /\ \/ /\ created[p] # {}
        /\ LET o == IF "marker" \in created[p] THEN "marker"
                    ELSE IF "json" \in created[p] THEN "json" ELSE "csv"
           IN /\ files' = [files EXCEPT ![o] = Absent]
              /\ created' = [created EXCEPT ![p] = @ \ {o}]
        /\ pc' = pc
     \/ /\ created[p] = {}
        /\ Goto(p, "failed")
        /\ UNCHANGED <<files, created>>
  /\ UNCHANGED <<obs, version, loaded, digest>>

(* The process is killed; an unlink that fails ends it in the same way.    *)
Kill(p) ==
  /\ pc[p] \notin Ended
  /\ Goto(p, "killed")
  /\ obs' = None
  /\ UNCHANGED <<version, loaded, digest, files, created>>

(* A program changes an input file.                                        *)
InputChanges ==
  /\ version < MaxChanges
  /\ version' = version + 1
  /\ UNCHANGED <<obs, pc, loaded, digest, files, created>>

Finished ==
  /\ \A p \in Procs : pc[p] \in Ended
  /\ UNCHANGED vars

Next ==
  \/ \E p \in Procs :
       \/ Load(p) \/ Snapshot(p) \/ ValidateOutputState(p) \/ VerifyInputArtifacts(p)
       \/ \E o \in Outputs : ReserveOutput(p, o) \/ WriteOutput(p, o)
       \/ FsyncMarker(p) \/ WriteFails(p) \/ Unlink(p) \/ Kill(p)
  \/ InputChanges
  \/ Finished

Spec == Init /\ [][Next]_vars

-----------------------------------------------------------------------------
(* Properties.                                                             *)
InRange(o, time) == \E s, t \in o.samples : s <= time /\ time <= t

(* The three stages joined_row computes add up to the total it computes,   *)
(* whatever records a packet left: one converted hardware time serves the  *)
(* first stage and the total.                                              *)
DecompositionExact ==
  obs # None => /\ Residual(Row(obs).stages) \in {None, 0}
                /\ Row(obs).status # "mismatch"

(* The row of a packet all of whose points left undamaged, stamped records *)
(* within the calibration is complete; a copy of it does not change that.  *)
HonestIsComplete ==
  /\ obs # None
  /\ obs.damage \in {"none", "duplicate"} /\ obs.stamped
  /\ obs.present = {"ingress", "cpumap", "user"}
  /\ InRange(obs, obs.packet.xdp)
  => Row(obs).status = "complete"

(* A complete row has the true latencies, whichever records are missing,   *)
(* damaged or repeated: records of two copies of a packet are never mixed. *)
(* The first stage is off by no more than the PHC drifts during it and a   *)
(* rounding.                                                               *)
(* Clamped offsets are extrapolated, and excluded.                         *)
CompleteIsTrue ==
  /\ obs # None
  /\ Row(obs).status = "complete"
  /\ ~obs.clamp \/ InRange(obs, obs.packet.xdp)
  =>
    LET k == obs.packet
        s == Row(obs).stages
        error == Drift * (k.xdp - k.hw) + 1
    IN /\ s.d2 = IF k.path = "cpumap" THEN k.cpumap - k.xdp ELSE 0
       /\ s.d2 + s.d3 = k.user - k.xdp
       /\ s.d1 \in (k.xdp - k.hw - error)..(k.xdp - k.hw + error)

(* Without clamping, a packet whose first XDP time lies outside the        *)
(* calibration has no latency that crosses the clocks: the offset at the   *)
(* user's time never stands in for the one at the XDP program.             *)
NoExtrapolation ==
  /\ obs # None /\ ~obs.clamp
  /\ IngressCore(IngressRecord(obs))
  /\ ~InRange(obs, obs.packet.xdp)
  => Row(obs).stages.d1 = None /\ Row(obs).stages.total = None

(* A completion marker stands for the whole CSV and the whole summary of   *)
(* the same process, at every moment, also while a failed process removes  *)
(* its outputs or another process tries to write its own.                  *)
MarkerMeansWhole ==
  /\ TypeOK
  /\ files["marker"] # Absent =>
       \A o \in {"csv", "json"} : [files["marker"] EXCEPT !.whole = TRUE] = files[o]

(* A process that failed has left no output behind, and has not removed    *)
(* another's: every output is its owner's, and an owner's outputs go only  *)
(* when it gives up itself.                                                *)
FailureLeavesNothing ==
  /\ \A o \in Outputs : files[o] # Absent => pc[files[o].owner] # "failed"
  /\ \A p \in Procs : pc[p] # "unlink" =>
       \A o \in created[p] : files[o].owner = p
=============================================================================
