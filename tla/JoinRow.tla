------------------------------- MODULE JoinRow ------------------------------
(***************************************************************************)
(* The row analysis/join_results.py makes of one packet: joined_row, over  *)
(* the records the measuring points left of it, and the PHC calibration    *)
(* that brings the hardware timestamp to the monotonic clock.              *)
(*                                                                         *)
(* A record is the fields the row depends on; flags are sets of bits, of   *)
(* which "unknown" stands for all the undefined ones; queue numbers, the   *)
(* sender's clock and lengths only pass through and are left out.  The     *)
(* record of a point that left none, and a value that cannot be computed,  *)
(* is None.                                                                *)
(***************************************************************************)
EXTENDS Integers

CONSTANT None  \* Python's None

ASSUME NoneAssumption == None \notin Int

Paths == {"pass", "cpumap", "xsk"}

Ingress == [hw : Nat, xdp : Nat, err : {0, 1}, path : Paths \cup {"other"},
            flags : SUBSET {"hw", "id", "seen", "err", "path", "unknown"}]
Cpumap  == [cpumap : Nat, path : Paths \cup {"other"},
            flags : SUBSET {"hw", "id", "seen", "err", "path", "unknown"}]
Afxdp   == [hw : Nat, xdp : Nat, err : {0, 1}, path : Paths \cup {"other"},
            flags : SUBSET {"hw", "id", "seen", "err", "path", "unknown"},
            user : Int, validated : BOOLEAN]
Udp     == [hw : Int, user : Int, flags : SUBSET {"hw", "truncated", "unknown"}]

-----------------------------------------------------------------------------
(* round_ratio: to nearest, exact halves away from zero                    *)
RoundRatio(n, d) ==
  IF n >= 0 THEN (2 * n + d) \div (2 * d) ELSE -((2 * (-n) + d) \div (2 * d))

(* Wrong: a time that is the last point's is taken to lie outside.         *)
LookupOpenEnd(points, time, clamp) ==
  LET upto  == {p \in points : p.t <= time}
      later == points \ upto
      left  == CHOOSE p \in upto : \A q \in upto : q.t <= p.t
      right == CHOOSE p \in later : \A q \in later : p.t <= q.t
  IN CASE upto = {} -> IF clamp THEN right.offset ELSE None
       [] upto # {} /\ later = {} -> IF clamp THEN left.offset ELSE None
       [] OTHER -> RoundRatio(left.offset * (right.t - left.t)
                                + (right.offset - left.offset) * (time - left.t),
                              right.t - left.t)

(* Calibration.lookup, over points [t, offset] with different times: the   *)
(* last point not after the time, the first after it, and the offset in    *)
(* between.  Outside the points there is an offset only with clamping.     *)
Lookup(points, time, clamp) ==
  LET upto  == {p \in points : p.t <= time}
      later == points \ upto
      left  == CHOOSE p \in upto : \A q \in upto : q.t <= p.t
      right == CHOOSE p \in later : \A q \in later : p.t <= q.t
  IN CASE upto = {} -> IF clamp THEN right.offset ELSE None
       [] upto # {} /\ left.t = time -> left.offset
       [] upto # {} /\ left.t # time /\ later = {} -> IF clamp THEN left.offset ELSE None
       [] OTHER -> RoundRatio(left.offset * (right.t - left.t)
                                + (right.offset - left.offset) * (time - left.t),
                              right.t - left.t)

-----------------------------------------------------------------------------
(* What makes a record usable.                                             *)

(* metadata_timestamp_coherent                                             *)
Coherent(r) ==
  /\ "unknown" \notin r.flags
  /\ ("err" \in r.flags) <=> (r.err # 0)
  /\ IF "hw" \in r.flags THEN r.hw > 0 /\ "err" \notin r.flags ELSE r.hw = 0

(* ingress_core_valid and ingress_hw_valid                                 *)
IngressCore(i) ==
  /\ i # None
  /\ i.path \in Paths
  /\ {"id", "path"} \subseteq i.flags
  /\ i.flags \cap {"seen", "unknown"} = {}
  /\ i.xdp > 0

IngressHw(i) == IngressCore(i) /\ Coherent(i) /\ "hw" \in i.flags

(* cpumap_valid                                                            *)
CpumapFlags(c) == {"id", "seen", "path"} \subseteq c.flags /\ "unknown" \notin c.flags

CpumapValid(i, c) ==
  /\ c # None
  /\ c.path = "cpumap"
  /\ CpumapFlags(c)
  /\ c.cpumap > 0
  /\ i = None \/ (IngressCore(i) /\ i.path = "cpumap")

(* afxdp_core_valid, afxdp_metadata_consistent and afxdp_hw_valid          *)
AfxdpCore(a) ==
  /\ a # None
  /\ a.validated
  /\ {"id", "path"} \subseteq a.flags
  /\ a.flags \cap {"seen", "unknown"} = {}
  /\ a.path = "xsk"
  /\ a.xdp > 0 /\ a.user > 0
  /\ Coherent(a)

(* Wrong: the copy in the packet is not compared with the ingress record.  *)
AfxdpConsistentAlone(i, a) == AfxdpCore(a)

AfxdpConsistent(i, a) ==
  /\ AfxdpCore(a)
  /\ i # None => /\ a.hw = i.hw /\ a.xdp = i.xdp
                 /\ a.flags = i.flags /\ a.path = i.path /\ a.err = i.err

AfxdpHw(a) == AfxdpCore(a) /\ "hw" \in a.flags

(* udp_hw_valid and udp_valid                                              *)
UdpHw(u) == u # None /\ "hw" \in u.flags /\ u.hw > 0 /\ "truncated" \notin u.flags

UdpValid(i, u) ==
  /\ u # None
  /\ u.user > 0
  /\ "unknown" \notin u.flags
  /\ ~({"hw", "truncated"} \subseteq u.flags)
  /\ ("hw" \in u.flags) <=> (u.hw > 0)
  /\ UdpHw(u) /\ IngressHw(i) => u.hw = i.hw

(* The inconsistency bits of the row                                       *)
Inconsistencies(i, c, a, u) ==
  {n \in {"ingress_path"} : i # None /\ i.path \notin Paths} \cup
  {n \in {"ingress_flags"} : i # None /\ ~(IngressCore(i) /\ Coherent(i))} \cup
  {n \in {"cpumap_path"} : c # None /\ c.path # "cpumap"} \cup
  {n \in {"cpumap_flags"} : c # None /\ ~CpumapFlags(c)} \cup
  {n \in {"cpumap_ingress_path"} :
     c # None /\ i # None /\ (i.path # "cpumap" \/ c.path # i.path)} \cup
  {n \in {"afxdp_path"} : a # None /\ (a.path # "xsk" \/ (i # None /\ i.path # "xsk"))} \cup
  {n \in {"afxdp_metadata"} : a # None /\ ~AfxdpConsistent(i, a)} \cup
  {n \in {"udp_path"} : u # None /\ i # None /\ i.path = "xsk"} \cup
  {n \in {"udp_flags"} : u # None /\ ~UdpValid(i, u)} \cup
  {n \in {"ambiguous_user"} : a # None /\ u # None}

-----------------------------------------------------------------------------
(* What the row computes.                                                  *)

(* user_source, user_mono and user_semantically_valid                      *)
UserSource(a, u) ==
  CASE a # None /\ u # None -> "ambiguous"
    [] a # None /\ u = None -> "afxdp"
    [] a = None /\ u # None -> "udp"
    [] OTHER -> ""

UserTime(a, u) ==
  CASE UserSource(a, u) = "afxdp" /\ a.user > 0 -> a.user
    [] UserSource(a, u) = "udp" /\ u.user > 0 -> u.user
    [] OTHER -> None

UserValid(i, a, u) ==
  \/ /\ UserSource(a, u) = "afxdp"
     /\ AfxdpConsistent(i, a)
     /\ i # None => i.path = "xsk"
  \/ /\ UserSource(a, u) = "udp"
     /\ UdpValid(i, u)
     /\ i # None => i.path # "xsk"

(* raw_xdp_mono, for the lookup, and initial_xdp                           *)
RawXdp(i, a) ==
  CASE i # None /\ i.xdp > 0 -> i.xdp
    [] i = None /\ a # None /\ a.xdp > 0 -> a.xdp
    [] OTHER -> None

InitialXdp(i, a) ==
  CASE IngressCore(i) -> i.xdp
    [] i = None /\ AfxdpCore(a) -> a.xdp
    [] OTHER -> None

(* common_hw: of the first XDP program, else of the user's record          *)
CommonHw(i, a, u) ==
  CASE IngressHw(i) -> i.hw
    [] i = None /\ AfxdpHw(a) -> a.hw
    [] ~IngressHw(i) /\ UserSource(a, u) = "udp" /\ UserValid(i, a, u) /\ UdpHw(u) -> u.hw
    [] OTHER -> None

(* Wrong: an offset missing at the XDP program is taken at the user's time.*)
HwOffsetFallback(i, a, xdpOffset, userOffset) ==
  IF InitialXdp(i, a) # None /\ xdpOffset # None THEN xdpOffset ELSE userOffset

(* hw_lookup: the offset at the first XDP program, at the user's time only *)
(* when there is none                                                      *)
HwOffset(i, a, xdpOffset, userOffset) ==
  IF InitialXdp(i, a) # None THEN xdpOffset ELSE userOffset

Minus(x, y) == IF x = None \/ y = None THEN None ELSE x - y

HwMono(i, a, u, xdpOffset, userOffset) ==
  Minus(CommonHw(i, a, u), HwOffset(i, a, xdpOffset, userOffset))

(* The time of a point that counts for the row                             *)
CpumapTime(i, c) == IF CpumapValid(i, c) THEN c.cpumap ELSE None
ValidUserTime(i, a, u) == IF UserValid(i, a, u) THEN UserTime(a, u) ELSE None

RequestedPath(i, c, a) ==
  CASE i # None -> i.path
    [] i = None /\ a # None -> a.path
    [] i = None /\ a = None /\ c # None -> c.path
    [] OTHER -> None

(* Wrong: the total converts the hardware time at the user's time.         *)
StagesTwoOffsets(i, c, a, u, xdpOffset, userOffset) ==
  LET path == RequestedPath(i, c, a)
      xdp  == InitialXdp(i, a)
      cpu  == CpumapTime(i, c)
      user == ValidUserTime(i, a, u)
  IN [d1 |-> Minus(xdp, HwMono(i, a, u, xdpOffset, userOffset)),
      d2 |-> CASE path = "cpumap" -> Minus(cpu, xdp)
               [] path \in {"pass", "xsk"} -> 0
               [] OTHER -> None,
      d3 |-> CASE path = "cpumap" -> Minus(user, cpu)
               [] path \in {"pass", "xsk"} -> Minus(user, xdp)
               [] OTHER -> None,
      total |-> Minus(user, Minus(CommonHw(i, a, u), userOffset))]

(* xdp_hw, cpumap_xdp, user_cpumap, user_xdp and user_hw as d1, d2, d3 and *)
(* the total                                                               *)
Stages(i, c, a, u, xdpOffset, userOffset) ==
  LET path == RequestedPath(i, c, a)
      hw   == HwMono(i, a, u, xdpOffset, userOffset)
      xdp  == InitialXdp(i, a)
      cpu  == CpumapTime(i, c)
      user == ValidUserTime(i, a, u)
  IN [d1 |-> Minus(xdp, hw),
      d2 |-> CASE path = "cpumap" -> Minus(cpu, xdp)
               [] path \in {"pass", "xsk"} -> 0
               [] OTHER -> None,
      d3 |-> CASE path = "cpumap" -> Minus(user, cpu)
               [] path \in {"pass", "xsk"} -> Minus(user, xdp)
               [] OTHER -> None,
      total |-> Minus(user, hw)]

Residual(s) ==
  IF None \in {s.d1, s.d2, s.d3, s.total} THEN None ELSE s.total - (s.d1 + s.d2 + s.d3)

(* segment_status                                                          *)
Status(s, inconsistencies) ==
  IF inconsistencies # {} \/ \E x \in {s.d1, s.d2, s.d3, s.total} \ {None} : x < 0
  THEN "invalid"
  ELSE IF Residual(s) = None THEN "incomplete"
  ELSE IF Residual(s) = 0 THEN "complete" ELSE "mismatch"
=============================================================================
