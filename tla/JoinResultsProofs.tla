-------------------------- MODULE JoinResultsProofs -------------------------
(***************************************************************************)
(* The stages of a joined row add up to its total, for every packet, every *)
(* calibration, every offset and drift of the PHC, and any number of       *)
(* concurrent analyses; and with crashes and failures at any point the     *)
(* marker stands only beside a whole result that is the analysis's own,    *)
(* and an analysis that fails leaves no output behind.                     *)
(***************************************************************************)
EXTENDS JoinResults, TLAPS, WellFoundedInduction

(* Zenon is tried first on every leaf, the SMT solver on what it leaves.   *)
USE ZenonT(5), SMTT(30)

OrNone(S) == S \cup {None}

-----------------------------------------------------------------------------
(* Lookups.                                                                *)

(* A nonempty set of naturals has a smallest element.                      *)
LEMMA Smallest ==
  ASSUME NEW T, T \subseteq Nat, T # {}
  PROVE  \E x \in T : \A y \in T : x <= y
<1> DEFINE R == {ss \in Nat \X Nat : ss[1] < ss[2]}
<1>1. IsWellFoundedOn(R, Nat)
  BY NatLessThanWellFounded DEF OpToRel
<1>2. \E x \in T : \A y \in T : ~(<<y, x>> \in R)
  <2> HIDE DEF R
  <2> QED BY <1>1, WFMin
<1>3. PICK x \in T : \A y \in T : ~(<<y, x>> \in R)
  BY <1>2
<1>4. ASSUME NEW y \in T PROVE x <= y
  <2>1. ~(<<y, x>> \in R)  BY <1>3
  <2>2. x \in Nat /\ y \in Nat  OBVIOUS
  <2>3. <<y, x>> \in Nat \X Nat  BY <2>2
  <2>4. ~(y < x)  BY <2>1, <2>3
  <2> QED BY <2>2, <2>4
<1> QED
  BY <1>4

(* A nonempty set of naturals with a bound has a greatest element.         *)
LEMMA Greatest ==
  ASSUME NEW T, T \subseteq Nat, T # {}, NEW b \in Nat, \A x \in T : x <= b
  PROVE  \E x \in T : \A y \in T : y <= x
<1> DEFINE D == {b - x : x \in T}
<1>1. D \subseteq Nat /\ D # {}
  <2>1. \A x \in T : b - x \in Nat  OBVIOUS
  <2>2. PICK z \in T : TRUE  OBVIOUS
  <2>3. b - z \in D  OBVIOUS
  <2> QED BY <2>1, <2>3
<1> HIDE DEF D
<1>2. PICK d \in D : \A e \in D : d <= e  BY <1>1, Smallest
<1> USE DEF D
<1>3. PICK x \in T : d = b - x  OBVIOUS
<1>4. \A y \in T : b - x <= b - y  BY <1>2, <1>3
<1> QED BY <1>3, <1>4

(* round_ratio returns an integer.                                         *)
LEMMA RoundRatioType ==
  ASSUME NEW n \in Int, NEW d \in Int, d > 0
  PROVE  RoundRatio(n, d) \in Int
<1>1. 2 * d \in Int /\ 2 * d > 0  OBVIOUS
<1>2. \A m \in Int : m \div (2 * d) \in Int  BY <1>1
<1>3. 2 * n + d \in Int /\ 2 * (-n) + d \in Int  OBVIOUS
<1> QED BY <1>2, <1>3 DEF RoundRatio

(* Calibration.lookup returns an integer offset or None, for any set of    *)
(* points.                                                                 *)
LEMMA LookupType ==
  ASSUME NEW points, points \subseteq [t : Nat, offset : Int], points # {},
         NEW time \in Nat, NEW clamp \in BOOLEAN
  PROVE  Lookup(points, time, clamp) \in OrNone(Int)
<1> DEFINE upto  == {p \in points : p.t <= time}
           later == points \ upto
           left  == CHOOSE p \in upto : \A q \in upto : q.t <= p.t
           right == CHOOSE p \in later : \A q \in later : p.t <= q.t
<1>1. ASSUME upto # {} PROVE left \in points /\ left.t <= time
  <2> DEFINE T == {p.t : p \in upto}
  <2>1. T \subseteq Nat /\ T # {} /\ \A x \in T : x <= time  BY <1>1
  <2> HIDE DEF T
  <2>2. PICK x \in T : \A y \in T : y <= x  BY <2>1, Greatest
  <2> USE DEF T
  <2>3. \E p \in upto : \A q \in upto : q.t <= p.t  BY <2>2
  <2>4. left \in upto  BY <2>3
  <2> QED BY <2>4
<1>2. ASSUME later # {} PROVE right \in points /\ right.t > time
  <2> DEFINE T == {p.t : p \in later}
  <2>1. T \subseteq Nat /\ T # {}  BY <1>2
  <2> HIDE DEF T
  <2>2. PICK x \in T : \A y \in T : x <= y  BY <2>1, Smallest
  <2> USE DEF T
  <2>3. \E p \in later : \A q \in later : p.t <= q.t  BY <2>2
  <2>4. right \in later  BY <2>3
  <2> QED BY <2>4
<1>3. Lookup(points, time, clamp) =
        CASE upto = {} -> IF clamp THEN right.offset ELSE None
          [] upto # {} /\ left.t = time -> left.offset
          [] upto # {} /\ left.t # time /\ later = {} -> IF clamp THEN left.offset ELSE None
          [] OTHER -> RoundRatio(left.offset * (right.t - left.t)
                                   + (right.offset - left.offset) * (time - left.t),
                                 right.t - left.t)
  BY DEF Lookup
<1>4. upto = {} => later # {}  OBVIOUS
<1> HIDE DEF upto, later, left, right
<1>5. CASE upto = {}
  BY <1>2, <1>3, <1>4, <1>5 DEF OrNone
<1>6. CASE upto # {} /\ later = {}
  BY <1>1, <1>3, <1>6 DEF OrNone
<1>7. CASE upto # {} /\ later # {}
  <2>1. /\ left.t \in Nat /\ right.t \in Nat /\ right.t > left.t
        /\ left.offset \in Int /\ right.offset \in Int
    BY <1>1, <1>2, <1>7
  <2>2. left.offset * (right.t - left.t) + (right.offset - left.offset) * (time - left.t) \in Int
    BY <2>1
  <2>3. right.t - left.t \in Int /\ right.t - left.t > 0  BY <2>1
  <2>4. RoundRatio(left.offset * (right.t - left.t)
                     + (right.offset - left.offset) * (time - left.t),
                   right.t - left.t) \in Int
    BY <2>2, <2>3, RoundRatioType
  <2> QED BY <1>3, <1>7, <2>1, <2>4 DEF OrNone
<1> QED BY <1>5, <1>6, <1>7
-----------------------------------------------------------------------------
(* One row.                                                                *)

(* The stages of joined_row add up, whatever the times are and whichever   *)
(* of them are missing.                                                    *)
LEMMA StageSum ==
  ASSUME NEW xdp \in OrNone(Int), NEW hw \in OrNone(Int), NEW cpu \in OrNone(Int),
         NEW user \in OrNone(Int), NEW s,
         s.d1 = Minus(xdp, hw), s.total = Minus(user, hw),
         \/ s.d2 = Minus(cpu, xdp) /\ s.d3 = Minus(user, cpu)
         \/ s.d2 = 0 /\ s.d3 = Minus(user, xdp)
         \/ s.d2 = None
  PROVE  Residual(s) \in {None, 0}
<1>1. CASE None \in {s.d1, s.d2, s.d3, s.total}
  BY <1>1 DEF Residual
<1>2. CASE None \notin {s.d1, s.d2, s.d3, s.total}
  <2>1. /\ xdp \in Int /\ hw \in Int /\ user \in Int
        /\ s.d1 = xdp - hw /\ s.total = user - hw
    BY <1>2 DEF Minus, OrNone
  <2>2. CASE s.d2 = Minus(cpu, xdp) /\ s.d3 = Minus(user, cpu)
    <3>1. cpu \in Int /\ s.d2 = cpu - xdp /\ s.d3 = user - cpu
      BY <1>2, <2>1, <2>2 DEF Minus, OrNone
    <3> QED BY <1>2, <2>1, <3>1 DEF Residual
  <2>3. CASE s.d2 = 0 /\ s.d3 = Minus(user, xdp)
    <3>1. s.d3 = user - xdp
      BY <1>2, <2>1, <2>3 DEF Minus
    <3> QED BY <1>2, <2>1, <2>3, <3>1 DEF Residual
  <2> QED BY <1>2, <2>2, <2>3
<1> QED BY <1>1, <1>2

(* The times a row is computed from are integers or None.                  *)
LEMMA TimeTypes ==
  ASSUME NEW i \in OrNone(Ingress), NEW c \in OrNone(Cpumap),
         NEW a \in OrNone(Afxdp), NEW u \in OrNone(Udp),
         NEW xo \in OrNone(Int), NEW uo \in OrNone(Int)
  PROVE  /\ InitialXdp(i, a) \in OrNone(Int)
         /\ HwMono(i, a, u, xo, uo) \in OrNone(Int)
         /\ CpumapTime(i, c) \in OrNone(Int)
         /\ ValidUserTime(i, a, u) \in OrNone(Int)
         /\ UserTime(a, u) \in OrNone(Nat)
         /\ RawXdp(i, a) \in OrNone(Nat)
<1>1. i # None => i.hw \in Nat /\ i.xdp \in Nat
  BY DEF OrNone, Ingress
<1>2. c # None => c.cpumap \in Nat
  BY DEF OrNone, Cpumap
<1>3. a # None => a.hw \in Nat /\ a.xdp \in Nat /\ a.user \in Int
  BY DEF OrNone, Afxdp
<1>4. u # None => u.hw \in Int /\ u.user \in Int
  BY DEF OrNone, Udp
<1>5. InitialXdp(i, a) \in OrNone(Int)
  BY <1>1, <1>3 DEF InitialXdp, IngressCore, AfxdpCore, OrNone
<1>6. CommonHw(i, a, u) \in OrNone(Int)
  BY <1>1, <1>3, <1>4 DEF CommonHw, IngressHw, IngressCore, AfxdpHw, AfxdpCore, UdpHw, OrNone
<1>7. HwMono(i, a, u, xo, uo) \in OrNone(Int)
  BY <1>6 DEF HwMono, HwOffset, Minus, OrNone
<1>8. CpumapTime(i, c) \in OrNone(Int)
  BY <1>2 DEF CpumapTime, CpumapValid, OrNone
<1>9. UserTime(a, u) \in OrNone(Nat)
  BY <1>3, <1>4 DEF UserTime, UserSource, OrNone
<1>10. ValidUserTime(i, a, u) \in OrNone(Int)
  BY <1>9 DEF ValidUserTime, OrNone
<1>11. RawXdp(i, a) \in OrNone(Nat)
  BY <1>1, <1>3 DEF RawXdp, OrNone
<1> QED BY <1>5, <1>7, <1>8, <1>9, <1>10, <1>11

(* joined_row: the residual of a row is 0 or cannot be computed, for any   *)
(* records of a packet and any offsets of the clocks.                      *)
THEOREM RowDecomposition ==
  ASSUME NEW i \in OrNone(Ingress), NEW c \in OrNone(Cpumap),
         NEW a \in OrNone(Afxdp), NEW u \in OrNone(Udp),
         NEW xo \in OrNone(Int), NEW uo \in OrNone(Int), NEW inc
  PROVE  /\ Residual(Stages(i, c, a, u, xo, uo)) \in {None, 0}
         /\ Status(Stages(i, c, a, u, xo, uo), inc) # "mismatch"
<1> DEFINE s == Stages(i, c, a, u, xo, uo)
           xdp == InitialXdp(i, a)
           hw == HwMono(i, a, u, xo, uo)
           cpu == CpumapTime(i, c)
           user == ValidUserTime(i, a, u)
<1>1. s.d1 = Minus(xdp, hw) /\ s.total = Minus(user, hw)
  BY DEF Stages
<1>2. \/ s.d2 = Minus(cpu, xdp) /\ s.d3 = Minus(user, cpu)
      \/ s.d2 = 0 /\ s.d3 = Minus(user, xdp)
      \/ s.d2 = None
  BY DEF Stages
<1>3. /\ xdp \in OrNone(Int) /\ hw \in OrNone(Int)
      /\ cpu \in OrNone(Int) /\ user \in OrNone(Int)
  BY TimeTypes
<1> HIDE DEF s, xdp, hw, cpu, user
<1>4. Residual(s) \in {None, 0}
  BY <1>1, <1>2, <1>3, StageSum
<1>5. Status(s, inc) # "mismatch"
  BY <1>4 DEF Status
<1> QED BY <1>4, <1>5 DEF s

-----------------------------------------------------------------------------
(* The analyses.                                                           *)

(* The records of an observation have the types of the tables.             *)
LEMMA RecordTypes ==
  ASSUME NEW o \in Observations
  PROVE  /\ IngressRecord(o) \in OrNone(Ingress)
         /\ CpumapRecord(o) \in OrNone(Cpumap)
         /\ LoadCsvTable(AfxdpRows(o)) \in OrNone(Afxdp)
         /\ LoadUdpSources(UdpFiles(o)) \in OrNone(Udp)
<1>1. /\ o.packet.hw \in Nat /\ o.packet.xdp \in Nat /\ o.packet.cpumap \in Nat
      /\ o.packet.user \in Nat /\ o.packet.path \in Paths
  BY JoinResultsAssumption DEF Observations
<1>2. /\ Phc(o) \in Nat /\ CopyPhc(o) \in Nat
      /\ Stamp(o) \in {"hw", "err"} /\ Code(o) \in {0, 1}
  <2>1. \A t \in Nat : Offset(t) \in Nat
    BY JoinResultsAssumption DEF Offset
  <2> QED BY <1>1, <2>1 DEF Phc, CopyPhc, Stamp, Code
<1>3. IngressRecord(o) \in OrNone(Ingress)
  BY <1>1, <1>2 DEF IngressRecord, Ingress, OrNone
<1>4. CpumapRecord(o) \in OrNone(Cpumap)
  BY <1>1, <1>2 DEF CpumapRecord, Cpumap, OrNone, Paths
<1>5. AfxdpRecord(o) \in Afxdp
  BY <1>1, <1>2 DEF AfxdpRecord, Afxdp, Paths
<1>6. AfxdpCopy(o) \in Afxdp
  <2> DEFINE r == AfxdpRecord(o)
  <2>1. r.xdp + 1 \in Nat /\ r.user + 1 \in Int
    BY <1>5 DEF Afxdp
  <2>2. AfxdpCopy(o) = [[[r EXCEPT !.hw = CopyPhc(o)] EXCEPT !.xdp = r.xdp + 1]
                          EXCEPT !.user = r.user + 1]
    BY <1>5 DEF AfxdpCopy, Afxdp
  <2> HIDE DEF r
  <2>3. [r EXCEPT !.hw = CopyPhc(o)] \in Afxdp
    BY <1>2, <1>5 DEF Afxdp, r
  <2>4. [[r EXCEPT !.hw = CopyPhc(o)] EXCEPT !.xdp = r.xdp + 1] \in Afxdp
    BY <2>1, <2>3 DEF Afxdp
  <2> QED BY <2>1, <2>2, <2>4 DEF Afxdp
<1>7. LoadCsvTable(AfxdpRows(o)) \in {None, AfxdpRecord(o), AfxdpCopy(o)}
  BY DEF LoadCsvTable, AfxdpRows, Kept
<1>8. UdpRecord(o) \in Udp
  BY <1>1, <1>2 DEF UdpRecord, Udp
<1>9. UdpCopy(o) \in Udp
  <2> DEFINE r == UdpRecord(o)
  <2>1. r.user + 1 \in Int
    BY <1>8 DEF Udp
  <2>2. UdpCopy(o) = [[r EXCEPT !.hw = CopyPhc(o)] EXCEPT !.user = r.user + 1]
    BY <1>8 DEF UdpCopy, Udp
  <2> HIDE DEF r
  <2>3. [r EXCEPT !.hw = CopyPhc(o)] \in Udp
    BY <1>2, <1>8 DEF Udp, r
  <2> QED BY <2>1, <2>2, <2>3 DEF Udp
<1>10. LoadUdpSources(UdpFiles(o)) \in {None, UdpRecord(o), UdpCopy(o)}
  BY DEF LoadUdpSources, LoadUdpRecords, UdpFiles, Kept
<1> QED BY <1>3, <1>4, <1>5, <1>6, <1>7, <1>8, <1>9, <1>10 DEF OrNone

(* The selected samples of the calibration files are points in time.       *)
LEMMA PointsType ==
  ASSUME NEW o \in Observations
  PROVE  /\ Points(CalibrationFiles(o)) \subseteq [t : Nat, offset : Int]
         /\ Points(CalibrationFiles(o)) # {}
<1> DEFINE F == CalibrationFiles(o)
<1>1. o.samples \subseteq Nat /\ o.samples # {}
  BY JoinResultsAssumption DEF Observations
<1>2. \A t \in Nat : Offset(t) \in Nat
  BY JoinResultsAssumption DEF Offset
<1>3. ASSUME NEW x \in UNION F, x.selected
      PROVE  Midpoint(x) \in Nat /\ x.offset \in Int
  <2>1. PICK t \in o.samples :
          \/ /\ x.before = t - 1 /\ x.after = t + 1
             /\ x.offset = Offset(t) + (IF o.damage = "bad_offset" THEN 1 ELSE 0)
          \/ x.before = t - 2 /\ x.after = t + 2 /\ x.offset = Offset(t) + 1
    BY <1>3 DEF CalibrationFiles
  <2>2. t \in Nat /\ Offset(t) \in Nat
    BY <1>1, <1>2
  <2>3. Midpoint(x) = t
    BY <2>1, <2>2 DEF Midpoint
  <2> QED BY <2>1, <2>2, <2>3
<1>4. \E x \in UNION F : x.selected
  <2>1. PICK t \in o.samples : TRUE
    BY <1>1
  <2> DEFINE x == [before |-> t - 1, after |-> t + 1, phc |-> t + Offset(t), selected |-> TRUE,
                   offset |-> Offset(t) + (IF o.damage = "bad_offset" THEN 1 ELSE 0)]
             y == [before |-> t - 1, after |-> t + 5, phc |-> t + 4 + Offset(t),
                   selected |-> FALSE, offset |-> Offset(t) + 2]
  <2>2. {x, y} \in F
    BY DEF CalibrationFiles
  <2>3. x \in UNION F
    <3> HIDE DEF x, y, F
    <3> QED BY <2>2
  <2>4. x.selected
    OBVIOUS
  <2> QED BY <2>3, <2>4
<1> HIDE DEF F
<1>5. Points(F) \subseteq [t : Nat, offset : Int]
  BY <1>3 DEF Points
<1>6. Points(F) # {}
  BY <1>4 DEF Points
<1> QED BY <1>5, <1>6 DEF F

(* The row of an observation decomposes.                                   *)
LEMMA ObservedRow ==
  ASSUME NEW o \in Observations
  PROVE  Residual(Row(o).stages) \in {None, 0} /\ Row(o).status # "mismatch"
<1> DEFINE i == IngressRecord(o)
           c == CpumapRecord(o)
           a == LoadCsvTable(AfxdpRows(o))
           u == LoadUdpSources(UdpFiles(o))
           at(time) == IF time = None THEN None
                       ELSE Lookup(Points(CalibrationFiles(o)), time, o.clamp)
           xo == at(RawXdp(i, a))
           uo == at(UserTime(a, u))
<1>1. /\ i \in OrNone(Ingress) /\ c \in OrNone(Cpumap)
      /\ a \in OrNone(Afxdp) /\ u \in OrNone(Udp)
  BY RecordTypes
<1>2. /\ Row(o).stages = Stages(i, c, a, u, xo, uo)
      /\ Row(o).status = Status(Stages(i, c, a, u, xo, uo), Inconsistencies(i, c, a, u))
  BY DEF Row
<1>3. ASSUME NEW time \in OrNone(Nat) PROVE at(time) \in OrNone(Int)
  <2>1. o.clamp \in BOOLEAN
    BY DEF Observations
  <2>2. CASE time = None
    BY <2>2 DEF OrNone
  <2>3. CASE time # None
    <3>1. time \in Nat
      BY <2>3 DEF OrNone
    <3>2. Lookup(Points(CalibrationFiles(o)), time, o.clamp) \in OrNone(Int)
      BY <2>1, <3>1, PointsType, LookupType
    <3> QED BY <2>3, <3>2
  <2> QED BY <2>2, <2>3
<1> HIDE DEF i, c, a, u, at
<1>4. RawXdp(i, a) \in OrNone(Nat) /\ UserTime(a, u) \in OrNone(Nat)
  <2>1. None \in OrNone(Int)
    BY DEF OrNone
  <2> QED BY <1>1, <2>1, TimeTypes
<1>5. xo \in OrNone(Int) /\ uo \in OrNone(Int)
  BY <1>3, <1>4
<1> HIDE DEF xo, uo
<1> QED BY <1>1, <1>2, <1>5, RowDecomposition

(* Every row an analysis computes decomposes exactly: DecompositionExact   *)
(* is an invariant of join_results.py.                                     *)
THEOREM Decomposition == Spec => []DecompositionExact
<1> DEFINE ObsOK == obs = None \/ obs \in Observations
<1>1. Init => ObsOK
  BY DEF Init
<1>2. ObsOK /\ [Next]_vars => ObsOK'
  <2> SUFFICES ASSUME ObsOK, [Next]_vars PROVE ObsOK'
    OBVIOUS
  <2>1. ASSUME NEW p \in Procs, Load(p) PROVE ObsOK'
    BY <2>1 DEF Load
  <2>2. ASSUME NEW p \in Procs, Snapshot(p) \/ Kill(p) PROVE ObsOK'
    BY <2>2 DEF Snapshot, Kill
  <2>3. ASSUME NEW p \in Procs,
               \/ ValidateOutputState(p) \/ VerifyInputArtifacts(p) \/ FsyncMarker(p)
               \/ WriteFails(p) \/ Unlink(p)
               \/ \E x \in Outputs : ReserveOutput(p, x) \/ WriteOutput(p, x)
        PROVE  ObsOK'
    BY <2>3 DEF ValidateOutputState, VerifyInputArtifacts, FsyncMarker, WriteFails,
      Unlink, ReserveOutput, WriteOutput
  <2>4. CASE InputChanges \/ Finished \/ UNCHANGED vars
    BY <2>4 DEF InputChanges, Finished, vars
  <2> QED BY <2>1, <2>2, <2>3, <2>4 DEF Next
<1>3. ObsOK => DecompositionExact
  BY ObservedRow DEF DecompositionExact
<1> QED BY <1>1, <1>2, <1>3, PTL DEF Spec

-----------------------------------------------------------------------------
(* The output files.                                                       *)

(* What a process has created at each point of write_outputs.              *)
CreatedInv ==
  \A p \in Procs :
    /\ pc[p] \in {"start", "loaded", "analysed", "verify", "csv", "failed"} => created[p] = {}
    /\ pc[p] \in {"csv_data", "json"} => created[p] = {"csv"}
    /\ pc[p] \in {"json_data", "marker"} => created[p] = {"csv", "json"}
    /\ pc[p] \in {"marker_data", "marker_sync", "done"} => created[p] = Outputs
    /\ pc[p] \in {"loaded", "analysed", "verify", "csv", "csv_data", "json", "json_data",
                   "marker"} => loaded[p] # -1

(* An output belongs to the process that created it and is made of what    *)
(* that one loaded and digested.                                           *)
OwnedInv ==
  /\ \A p \in Procs : \A o \in created[p] :
       /\ files[o] # Absent
       /\ files[o].owner = p /\ files[o].rows = loaded[p] /\ files[o].inputs = digest[p]
  /\ \A o \in Outputs : files[o] # Absent =>
       files[o].owner \in Procs /\ o \in created[files[o].owner]

(* What stands under a later output is whole.                              *)
WholeInv ==
  \A p \in Procs :
    /\ pc[p] \in {"json", "json_data", "marker", "marker_data", "marker_sync", "done"}
         => files["csv"].whole
    /\ pc[p] \in {"marker", "marker_data", "marker_sync", "done"} => files["json"].whole
    /\ "marker" \in created[p] =>
         {"csv", "json"} \subseteq created[p] /\ files["csv"].whole /\ files["json"].whole

OInv == TypeOK /\ CreatedInv /\ OwnedInv /\ WholeInv

OutputFile == [owner : Procs \cup {None}, whole : BOOLEAN,
               rows : Versions \cup {-1}, inputs : Versions \cup {-1}]

(* An absent file.                                                         *)
LEMMA AbsentFile == Absent \in OutputFile /\ ~Absent.whole /\ Absent.rows = -1
BY DEF Absent, OutputFile

(* A reserved one.                                                         *)
LEMMA ReservedFile ==
  ASSUME NEW p \in Procs, NEW r \in Versions, NEW d \in Versions \cup {-1}
  PROVE  \E g \in OutputFile :
           /\ g = [owner |-> p, whole |-> FALSE, rows |-> r, inputs |-> d]
           /\ g # Absent /\ g.owner = p /\ g.rows = r /\ g.inputs = d
<1> DEFINE g == [owner |-> p, whole |-> FALSE, rows |-> r, inputs |-> d]
<1>1. g \in OutputFile /\ g.owner = p /\ g.rows = r /\ g.inputs = d
  BY DEF OutputFile
<1>2. r # -1
  BY JoinResultsAssumption DEF Versions
<1> QED
  BY <1>1, <1>2, AbsentFile

(* One that was written.                                                   *)
LEMMA WrittenFile ==
  ASSUME NEW f \in OutputFile
  PROVE  \E g \in OutputFile :
           /\ g = [f EXCEPT !.whole = TRUE] /\ g # Absent /\ g.owner = f.owner
           /\ g.rows = f.rows /\ g.inputs = f.inputs /\ g.whole
<1> DEFINE g == [f EXCEPT !.whole = TRUE]
<1>1. g \in OutputFile /\ g.owner = f.owner /\ g.rows = f.rows /\ g.inputs = f.inputs /\ g.whole
  BY DEF OutputFile
<1> QED
  BY <1>1, AbsentFile

(* Its fields make a file.                                                 *)
LEMMA SameFile ==
  ASSUME NEW f \in OutputFile, NEW g \in OutputFile, g.whole,
         f.owner = g.owner, f.rows = g.rows, f.inputs = g.inputs
  PROVE  [f EXCEPT !.whole = TRUE] = g
BY DEF OutputFile

(* It holds at first.                                                      *)
LEMMA OInit == Init => OInv
<1> SUFFICES ASSUME Init PROVE OInv
  OBVIOUS
<1>1. 0 \in Versions
  BY JoinResultsAssumption DEF Versions
<1>2. files \in [Outputs -> [owner : Procs \cup {None}, whole : BOOLEAN,
                             rows : Versions \cup {-1}, inputs : Versions \cup {-1}]]
  BY DEF Init, Absent
<1>3. TypeOK
  BY <1>1, <1>2 DEF Init, TypeOK, PCs
<1>4. CreatedInv /\ OwnedInv /\ WholeInv
  BY DEF Init, CreatedInv, OwnedInv, WholeInv, Outputs
<1> QED
  BY <1>3, <1>4 DEF OInv

(* Every step of a process keeps it.                                       *)
LEMMA OStep ==
  ASSUME OInv, NEW p \in Procs,
         \/ Load(p) \/ Snapshot(p) \/ ValidateOutputState(p) \/ VerifyInputArtifacts(p)
         \/ \E o \in Outputs : ReserveOutput(p, o) \/ WriteOutput(p, o)
         \/ FsyncMarker(p) \/ WriteFails(p) \/ Unlink(p) \/ Kill(p)
  PROVE  OInv'
<1> USE DEF OInv, Goto
<1>0. -1 \notin Versions /\ version \in Versions
  BY JoinResultsAssumption DEF Versions, TypeOK
<1>1. CASE Load(p)
  <2>1. TypeOK'
    BY <1>0, <1>1 DEF Load, TypeOK, PCs
  <2>2. CreatedInv'
    BY <1>0, <1>1 DEF Load, TypeOK, CreatedInv
  <2>3. OwnedInv'
    BY <1>0, <1>1 DEF Load, TypeOK, CreatedInv, OwnedInv
  <2>4. WholeInv'
    BY <1>0, <1>1 DEF Load, TypeOK, CreatedInv, OwnedInv, WholeInv
  <2> QED
    BY <2>1, <2>2, <2>3, <2>4
<1>2. CASE Snapshot(p)
  <2>1. TypeOK'
    BY <1>0, <1>2 DEF Snapshot, TypeOK, PCs
  <2>2. CreatedInv'
    BY <1>0, <1>2 DEF Snapshot, TypeOK, CreatedInv
  <2>3. OwnedInv'
    BY <1>0, <1>2 DEF Snapshot, TypeOK, CreatedInv, OwnedInv
  <2>4. WholeInv'
    BY <1>0, <1>2 DEF Snapshot, TypeOK, CreatedInv, OwnedInv, WholeInv
  <2> QED
    BY <2>1, <2>2, <2>3, <2>4
<1>3. CASE ValidateOutputState(p)
  <2>1. TypeOK'
    BY <1>0, <1>3 DEF ValidateOutputState, TypeOK, PCs
  <2>2. CreatedInv'
    BY <1>0, <1>3 DEF ValidateOutputState, TypeOK, CreatedInv
  <2>3. OwnedInv'
    BY <1>0, <1>3 DEF ValidateOutputState, TypeOK, CreatedInv, OwnedInv
  <2>4. WholeInv'
    BY <1>0, <1>3 DEF ValidateOutputState, TypeOK, CreatedInv, OwnedInv, WholeInv
  <2> QED
    BY <2>1, <2>2, <2>3, <2>4
<1>4. CASE VerifyInputArtifacts(p)
  <2>1. TypeOK'
    BY <1>0, <1>4 DEF VerifyInputArtifacts, TypeOK, PCs
  <2>2. CreatedInv'
    BY <1>0, <1>4 DEF VerifyInputArtifacts, TypeOK, CreatedInv
  <2>3. OwnedInv'
    BY <1>0, <1>4 DEF VerifyInputArtifacts, TypeOK, CreatedInv, OwnedInv
  <2>4. WholeInv'
    BY <1>0, <1>4 DEF VerifyInputArtifacts, TypeOK, CreatedInv, OwnedInv, WholeInv
  <2> QED
    BY <2>1, <2>2, <2>3, <2>4
<1>5. CASE \E o \in Outputs : ReserveOutput(p, o)
  <2>0. PICK o \in Outputs : ReserveOutput(p, o)
    BY <1>5
  <2>1. pc' \in [Procs -> PCs]
    BY <2>0 DEF ReserveOutput, Outputs, TypeOK, PCs
  <2>2. CASE files[o] = Absent
    <3>1. /\ loaded[p] \in Versions /\ digest[p] \in Versions \cup {-1}
          /\ o \notin created[p]
      BY <1>0, <2>0, <2>2 DEF ReserveOutput, TypeOK, CreatedInv, OwnedInv, Outputs
    <3>2. PICK g \in OutputFile :
            /\ g = [owner |-> p, whole |-> FALSE, rows |-> loaded[p], inputs |-> digest[p]]
            /\ g # Absent /\ g.owner = p /\ g.rows = loaded[p] /\ g.inputs = digest[p]
      <4> DEFINE r == loaded[p]
                 d == digest[p]
      <4>1. r \in Versions /\ d \in Versions \cup {-1}
        BY <3>1
      <4> HIDE DEF r, d
      <4>2. \E g \in OutputFile :
              /\ g = [owner |-> p, whole |-> FALSE, rows |-> r, inputs |-> d]
              /\ g # Absent /\ g.owner = p /\ g.rows = r /\ g.inputs = d
        BY <4>1, ReservedFile
      <4> QED
        BY <4>2 DEF r, d
    <3>3. /\ files' = [files EXCEPT ![o] = g] /\ created' = [created EXCEPT ![p] = @ \cup {o}]
          /\ pc[p] = o
          /\ pc' = [pc EXCEPT ![p] = CASE o = "csv" -> "csv_data" [] o = "json" -> "json_data"
                                       [] o = "marker" -> "marker_data"]
          /\ UNCHANGED <<obs, version, loaded, digest>>
      BY <2>0, <2>2, <3>2 DEF ReserveOutput
    <3>4. TypeOK'
      BY <2>1, <3>3 DEF TypeOK, OutputFile
    <3>5. CreatedInv'
      BY <3>3 DEF TypeOK, CreatedInv, Outputs
    <3>6. OwnedInv'
      BY <2>2, <3>2, <3>3 DEF TypeOK, OwnedInv
    <3>7. WholeInv'
      BY <2>2, <3>3 DEF TypeOK, CreatedInv, OwnedInv, WholeInv, Outputs
    <3> QED
      BY <3>4, <3>5, <3>6, <3>7
  <2>3. CASE files[o] # Absent
    BY <2>0, <2>1, <2>3 DEF ReserveOutput, TypeOK, CreatedInv, OwnedInv, WholeInv, Outputs
  <2> QED
    BY <2>2, <2>3
<1>6. CASE \E o \in Outputs : WriteOutput(p, o)
  <2>0. PICK o \in Outputs : WriteOutput(p, o)
    BY <1>6
  <2>1. pc' \in [Procs -> PCs]
    BY <2>0 DEF WriteOutput, Outputs, TypeOK, PCs
  <2>2. PICK g \in OutputFile :
          /\ g = [files[o] EXCEPT !.whole = TRUE] /\ g # Absent /\ g.owner = files[o].owner
          /\ g.rows = files[o].rows /\ g.inputs = files[o].inputs /\ g.whole
    <3>1. files[o] \in OutputFile
      BY DEF TypeOK, OutputFile
    <3> QED
      BY <3>1, WrittenFile
  <2>3. /\ files' = [files EXCEPT ![o] = g] /\ UNCHANGED <<obs, version, loaded, digest, created>>
        /\ o \in created[p]
    BY <2>0, <2>2 DEF WriteOutput, TypeOK, CreatedInv, Outputs
  <2>4. TypeOK'
    BY <2>1, <2>3 DEF TypeOK, OutputFile
  <2>5. CreatedInv'
    <3>1. CASE o = "csv"
      BY <2>0, <2>3, <3>1 DEF WriteOutput, TypeOK, CreatedInv, Outputs
    <3>2. CASE o = "json"
      BY <2>0, <2>3, <3>2, <1>0 DEF WriteOutput, TypeOK, CreatedInv, OwnedInv, Outputs
    <3>3. CASE o = "marker"
      BY <2>0, <2>3, <3>3 DEF WriteOutput, TypeOK, CreatedInv, Outputs
    <3> QED
      BY <3>1, <3>2, <3>3 DEF Outputs
  <2>6. OwnedInv'
    BY <2>2, <2>3 DEF TypeOK, OwnedInv
  <2>7. WholeInv'
    BY <2>0, <2>2, <2>3 DEF WriteOutput, TypeOK, CreatedInv, WholeInv, Outputs
  <2> QED
    BY <2>4, <2>5, <2>6, <2>7
<1>7. CASE FsyncMarker(p)
  <2>1. TypeOK'
    BY <1>0, <1>7 DEF FsyncMarker, TypeOK, PCs
  <2>2. CreatedInv'
    BY <1>0, <1>7 DEF FsyncMarker, TypeOK, CreatedInv
  <2>3. OwnedInv'
    BY <1>0, <1>7 DEF FsyncMarker, TypeOK, CreatedInv, OwnedInv
  <2>4. WholeInv'
    BY <1>0, <1>7 DEF FsyncMarker, TypeOK, CreatedInv, OwnedInv, WholeInv
  <2> QED
    BY <2>1, <2>2, <2>3, <2>4
<1>8. CASE WriteFails(p)
  <2>1. TypeOK'
    BY <1>0, <1>8 DEF WriteFails, TypeOK, PCs
  <2>2. CreatedInv'
    BY <1>0, <1>8 DEF WriteFails, TypeOK, CreatedInv
  <2>3. OwnedInv'
    BY <1>0, <1>8 DEF WriteFails, TypeOK, CreatedInv, OwnedInv
  <2>4. WholeInv'
    BY <1>0, <1>8 DEF WriteFails, TypeOK, CreatedInv, OwnedInv, WholeInv
  <2> QED
    BY <2>1, <2>2, <2>3, <2>4
<1>9. CASE Unlink(p)
  <2>1. CASE created[p] = {}
    BY <1>9, <2>1 DEF Unlink, TypeOK, PCs, CreatedInv, OwnedInv, WholeInv
  <2>2. CASE created[p] # {}
    <3>1. PICK o \in created[p] :
            /\ files' = [files EXCEPT ![o] = Absent] /\ created' = [created EXCEPT ![p] = @ \ {o}]
            /\ "marker" \in created[p] => o = "marker"
            /\ pc[p] = "unlink" /\ UNCHANGED <<obs, pc, version, loaded, digest>>
      BY <1>9, <2>2 DEF Unlink, TypeOK, Outputs
    <3>2. o \in Outputs /\ files[o].owner = p
      BY DEF TypeOK, OwnedInv
    <3>3. TypeOK'
      BY <3>1, <3>2, AbsentFile DEF TypeOK, OutputFile
    <3>4. CreatedInv'
      BY <3>1 DEF TypeOK, CreatedInv
    <3>5. OwnedInv'
      BY <3>1, <3>2 DEF TypeOK, OwnedInv
    <3>6. WholeInv'
      BY <3>1, <3>2 DEF TypeOK, CreatedInv, OwnedInv, WholeInv, Outputs
    <3> QED
      BY <3>3, <3>4, <3>5, <3>6
  <2> QED
    BY <2>1, <2>2
<1>10. CASE Kill(p)
  <2>1. TypeOK'
    BY <1>0, <1>10 DEF Kill, Ended, TypeOK, PCs
  <2>2. CreatedInv'
    BY <1>0, <1>10 DEF Kill, Ended, TypeOK, CreatedInv
  <2>3. OwnedInv'
    BY <1>0, <1>10 DEF Kill, Ended, TypeOK, CreatedInv, OwnedInv
  <2>4. WholeInv'
    BY <1>0, <1>10 DEF Kill, Ended, TypeOK, CreatedInv, OwnedInv, WholeInv
  <2> QED
    BY <2>1, <2>2, <2>3, <2>4
<1> QED
  BY <1>1, <1>2, <1>3, <1>4, <1>5, <1>6, <1>7, <1>8, <1>9, <1>10

(* The inductive invariant of the outputs.                                 *)
LEMMA OInvariant == Spec => []OInv
<1>1. OInv /\ [Next]_vars => OInv'
  <2> SUFFICES ASSUME OInv, [Next]_vars PROVE OInv'
    OBVIOUS
  <2>1. CASE InputChanges
    <3>1. version' \in Versions
      BY <2>1, JoinResultsAssumption DEF InputChanges, OInv, TypeOK, Versions
    <3> QED
      BY <2>1, <3>1 DEF InputChanges, OInv, TypeOK, CreatedInv, OwnedInv, WholeInv
  <2>2. CASE Finished \/ UNCHANGED vars
    BY <2>2 DEF Finished, vars, OInv, TypeOK, CreatedInv, OwnedInv, WholeInv
  <2> QED
    BY <2>1, <2>2, OStep DEF Next
<1> QED
  BY <1>1, OInit, PTL DEF Spec

(* A completion marker stands for the whole outputs of one analysis,       *)
(* however many of them run at once, fail or are killed                    *)
(* (MarkerMeansWhole).                                                     *)
THEOREM Marker == Spec => []MarkerMeansWhole
<1>1. OInv => MarkerMeansWhole
  <2> SUFFICES ASSUME OInv, files["marker"] # Absent
               PROVE  \A o \in {"csv", "json"} :
                        [files["marker"] EXCEPT !.whole = TRUE] = files[o]
    BY DEF OInv, MarkerMeansWhole
  <2> DEFINE p == files["marker"].owner
  <2>1. p \in Procs /\ "marker" \in created[p]
    BY DEF OInv, OwnedInv, Outputs
  <2>2. {"csv", "json"} \subseteq created[p] /\ files["csv"].whole /\ files["json"].whole
    BY <2>1 DEF OInv, WholeInv
  <2>3. \A o \in Outputs : files[o].owner = p /\ files[o].rows = loaded[p]
                             /\ files[o].inputs = digest[p]
    BY <2>1, <2>2 DEF OInv, OwnedInv, Outputs
  <2>4. \A o \in Outputs : files[o] \in OutputFile
    BY DEF OInv, TypeOK, OutputFile
  <2> SUFFICES ASSUME NEW o \in {"csv", "json"}
               PROVE  [files["marker"] EXCEPT !.whole = TRUE] = files[o]
    OBVIOUS
  <2> DEFINE f == files["marker"]
             g == files[o]
  <2>5. f \in OutputFile /\ g \in OutputFile
    BY <2>4 DEF Outputs
  <2>6. g.whole /\ f.owner = g.owner /\ f.rows = g.rows /\ f.inputs = g.inputs
    BY <2>2, <2>3 DEF Outputs
  <2> HIDE DEF f, g
  <2>7. [f EXCEPT !.whole = TRUE] = g
    BY <2>5, <2>6, SameFile
  <2> QED
    BY <2>7 DEF f, g
<1> QED
  BY <1>1, OInvariant, PTL

(* A failed analysis leaves nothing behind and removes nothing of another  *)
(* (FailureLeavesNothing).                                                 *)
THEOREM Failure == Spec => []FailureLeavesNothing
<1>1. OInv => FailureLeavesNothing
  BY DEF OInv, CreatedInv, OwnedInv, FailureLeavesNothing
<1> QED
  BY <1>1, OInvariant, PTL
=============================================================================
