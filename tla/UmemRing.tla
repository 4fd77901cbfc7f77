------------------------------ MODULE UmemRing ------------------------------
(***************************************************************************)
(* The UMEM frames of an AF_XDP receiver (BPF/afxdp_recv.c): receive_batch *)
(* peeks descriptors, checks them, reserves room in the FILL ring, copies  *)
(* each packet into a record, and gives both rings back, while the kernel  *)
(* goes on writing packets into the frames it owns.                        *)
(*                                                                         *)
(* The kernel side (copy mode) is external: it takes a frame from its free *)
(* list or the FILL ring, writes the packet and, if the packet has any,    *)
(* its XDP metadata, and posts a descriptor.                               *)
(***************************************************************************)
EXTENDS Integers, Sequences, FiniteSets, FiniteSetsExt, SequencesExt

CONSTANTS
  Frames,       \* the UMEM frames; there are NUM_FRAMES
  RxSize,       \* RING_SIZE
  Batch,        \* RX_BATCH_SIZE
  Capacity,     \* record_capacity
  Keys,         \* (flow_id, sequence) of a packet
  MaxPackets,   \* bound: packets that arrive
  MaxRepeats    \* bound: frames the kernel posts twice

ASSUME RingAssumption ==
  /\ IsFiniteSet(Frames)
  /\ {RxSize, Batch} \subseteq Nat \ {0}
  /\ {Capacity, MaxPackets, MaxRepeats} \subseteq Nat

VARIABLES
  fill, free, rx,   \* the FILL ring, the kernel's free list, the RX ring
  mem,              \* what each frame holds
  packets, repeats, \* packets arrived, frames posted twice
  pc, n, i,         \* receive_batch: received and the loop index
  inKernel, owned,  \* frame_in_kernel, userspace_owned_frames
  refill,           \* FILL entries reserved and written
  records,          \* the user records
  overflow,         \* record_overflow_packets
  error             \* what receive_batch returns

vars == <<fill, free, rx, mem, packets, repeats, pc, n, i, inKernel, owned, refill,
          records, overflow, error>>
kernelVars == <<fill, free, mem, packets, repeats>>
bookVars   == <<inKernel, owned>>
resultVars == <<records, overflow>>

None == 0
Packets == 1..MaxPackets
Contents == [pkt : Packets, key : Keys, meta : Packets \cup {None}, metaKey : Keys]
Descriptor == [frame : Frames, pkt : Packets, kind : {"experiment", "other", "options"}]

(* Every variable has its type.                                            *)
TypeOK ==
  /\ fill \in Seq(Frames) /\ free \subseteq Frames
  /\ rx \in Seq(Descriptor) /\ Len(rx) <= RxSize
  /\ DOMAIN mem \subseteq Frames /\ \A f \in DOMAIN mem : mem[f] \in Contents
  /\ packets \in 0..MaxPackets /\ repeats \in 0..MaxRepeats
  /\ pc \in {"idle", "check", "process", "submit", "stopped"}
  /\ n \in 0..Batch /\ n <= Len(rx) /\ i \in 0..n
  /\ inKernel \in [Frames -> BOOLEAN] /\ owned \in 0..Batch
  /\ refill \in Seq(Frames)
  /\ records \in Seq([pkt : Packets, key : Keys, meta : Packets \cup {None}])
  /\ Len(records) <= Capacity /\ overflow \in Nat
  /\ error \in {"none", "clock", "records", "descriptor", "unclean", "fill"}

(* fill_initial_frames gives every frame to the kernel.                    *)
Init ==
  /\ fill = SetToSeq(Frames) /\ free = {} /\ rx = <<>>
  /\ mem = <<>>
  /\ packets = 0 /\ repeats = 0
  /\ pc = "idle" /\ n = 0 /\ i = 0
  /\ inKernel = [f \in Frames |-> TRUE] /\ owned = 0
  /\ refill = <<>>
  /\ records = <<>> /\ overflow = 0
  /\ error = "none"

-----------------------------------------------------------------------------
(* The kernel.                                                             *)

(* The frame a packet goes to is the free one, or the next of the FILL     *)
(* ring; without one, or without room in RX, the packet is dropped and the *)
(* frame is free.                                                          *)
KernelTakes(f) ==
  \/ f \in free /\ free' = free \ {f} /\ UNCHANGED fill
  \/ free = {} /\ fill # <<>> /\ f = Head(fill) /\ fill' = Tail(fill) /\ UNCHANGED free

(* A packet with no metadata leaves the bytes in front of it as they were. *)
Written(f, p, k, withMeta) ==
  LET keeps == f \in DOMAIN mem /\ ~withMeta IN
  [pkt |-> p, key |-> k,
   meta |-> IF withMeta THEN p ELSE IF keeps THEN mem[f].meta ELSE None,
   metaKey |-> IF keeps THEN mem[f].metaKey ELSE k]

Deliver ==
  /\ packets < MaxPackets /\ Len(rx) < RxSize
  /\ \E f \in Frames, k \in Keys, withMeta \in BOOLEAN,
       kind \in {"experiment", "other", "options"} :
       /\ KernelTakes(f)
       /\ packets' = packets + 1
       /\ mem' = [g \in DOMAIN mem \cup {f} |->
                   IF g = f THEN Written(f, packets', k, withMeta) ELSE mem[g]]
       /\ rx' = Append(rx, [frame |-> f, pkt |-> packets', kind |-> kind])
  /\ UNCHANGED <<repeats, pc, n, i, bookVars, refill, resultVars, error>>

DropOnFullRx ==
  /\ Len(rx) = RxSize
  /\ free = {} /\ fill # <<>>
  /\ free' = {Head(fill)}
  /\ fill' = Tail(fill)
  /\ UNCHANGED <<rx, mem, packets, repeats, pc, n, i, bookVars, refill, resultVars, error>>

(* A descriptor for a frame the kernel had already given away: a kernel    *)
(* fault, against which the receiver keeps its account of the frames.      *)
Repeat ==
  /\ repeats < MaxRepeats /\ 0 < Len(rx) /\ Len(rx) < RxSize
  /\ \E j \in DOMAIN rx : rx' = Append(rx, rx[j])
  /\ repeats' = repeats + 1
  /\ UNCHANGED <<fill, free, mem, packets, pc, n, i, bookVars, refill, resultVars, error>>

-----------------------------------------------------------------------------
(* receive_batch.                                                          *)

(* xsk_ring_cons__peek                                                     *)
Peek ==
  /\ pc = "idle" /\ rx # <<>>
  /\ n' = Min({Batch, Len(rx)})
  /\ i' = 0
  /\ pc' = "check"
  /\ UNCHANGED <<kernelVars, rx, bookVars, refill, resultVars, error>>

(* The stop and drain tests of main.                                       *)
Stop ==
  /\ pc = "idle"
  /\ pc' = "stopped"
  /\ UNCHANGED <<kernelVars, rx, n, i, bookVars, refill, resultVars, error>>

Peeked == {rx[j].frame : j \in 1..i}

(* Wrong: only the failing descriptor is taken back.                       *)
CancelForgetting(reason) ==
  /\ pc' = "stopped" /\ error' = reason /\ n' = 0 /\ i' = 0
  /\ UNCHANGED <<kernelVars, rx, bookVars, refill, resultVars>>

(* The frames checked so far go back to the kernel's account, the peek is  *)
(* cancelled, and the error ends main's loop.                              *)
Cancel(reason) ==
  /\ inKernel' = [f \in Frames |-> inKernel[f] \/ f \in Peeked]
  /\ owned' = owned - i
  /\ n' = 0 /\ i' = 0
  /\ error' = reason
  /\ pc' = "stopped"
  /\ UNCHANGED <<kernelVars, rx, refill, resultVars>>

(* validate_rx_descriptor and the account of the frames.                   *)
Check ==
  LET d == rx[i + 1] IN
  /\ pc = "check" /\ i < n
  /\ IF d.kind = "options" THEN Cancel("descriptor")
     ELSE IF ~inKernel[d.frame] THEN Cancel("unclean")
     ELSE /\ inKernel' = [inKernel EXCEPT ![d.frame] = FALSE]
          /\ owned' = owned + 1
          /\ i' = i + 1
          /\ UNCHANGED <<kernelVars, rx, pc, n, refill, resultVars, error>>

(* xsk_ring_prod__reserve, for the whole batch; the FILL ring has one      *)
(* entry per frame.                                                        *)
Reserve ==
  /\ pc = "check" /\ i = n
  /\ IF Len(fill) + n <= Cardinality(Frames)
       THEN /\ pc' = "process" /\ i' = 0
            /\ UNCHANGED <<kernelVars, rx, n, bookVars, refill, resultVars, error>>
       ELSE Cancel("fill")

First(reason) == IF error = "none" THEN reason ELSE error

(* read_xdp_metadata: metadata counts if its key is the packet's.          *)
ReadMetadata(c) == IF c.meta # None /\ c.metaKey = c.key THEN c.meta ELSE None

(* What becomes of one packet: its record, or the reason there is none.    *)
Record(d) ==
  LET c == mem[d.frame] IN
  \/ error' = First("clock") /\ UNCHANGED resultVars
  \/ d.kind = "other" /\ UNCHANGED <<resultVars, error>>
  \/ /\ d.kind = "experiment" /\ Len(records) < Capacity
     /\ records' = Append(records, [pkt |-> c.pkt, key |-> c.key, meta |-> ReadMetadata(c)])
     /\ UNCHANGED <<overflow, error>>
  \/ /\ d.kind = "experiment" /\ Len(records) = Capacity
     /\ overflow' = overflow + 1
     /\ error' = First("records")
     /\ UNCHANGED records

(* Wrong: what the last packet left is not cleared.                        *)
ProcessWithoutClear ==
  LET d == rx[i + 1] IN
  /\ pc = "process" /\ i < n
  /\ Record(d)
  /\ refill' = Append(refill, d.frame)
  /\ inKernel' = [inKernel EXCEPT ![d.frame] = TRUE]
  /\ owned' = owned - 1
  /\ i' = i + 1
  /\ UNCHANGED <<fill, free, rx, mem, packets, repeats, pc, n>>

(* Wrong: a packet with no record is not recycled.                         *)
ProcessRecordedOnly ==
  LET d == rx[i + 1] IN
  /\ pc = "process" /\ i < n
  /\ Record(d)
  /\ mem' = [mem EXCEPT ![d.frame].meta = None]
  /\ IF records' # records
       THEN /\ refill' = Append(refill, d.frame)
            /\ inKernel' = [inKernel EXCEPT ![d.frame] = TRUE]
            /\ owned' = owned - 1
       ELSE UNCHANGED <<refill, bookVars>>
  /\ i' = i + 1
  /\ UNCHANGED <<fill, free, rx, packets, repeats, pc, n>>

(* One packet: its record, clear_xdp_metadata, and its frame into the      *)
(* reserved FILL entry, whatever became of the packet.  The code tests     *)
(* again that the frame is on the user's account; AccountsAgree has that   *)
(* this test cannot fail.                                                  *)
Process ==
  LET d == rx[i + 1] IN
  /\ pc = "process" /\ i < n
  /\ Record(d)
  /\ mem' = [mem EXCEPT ![d.frame].meta = None]
  /\ refill' = Append(refill, d.frame)
  /\ inKernel' = [inKernel EXCEPT ![d.frame] = TRUE]
  /\ owned' = owned - 1
  /\ i' = i + 1
  /\ UNCHANGED <<fill, free, rx, packets, repeats, pc, n>>

(* xsk_ring_cons__release                                                  *)
Release ==
  /\ pc = "process" /\ i = n
  /\ rx' = SubSeq(rx, n + 1, Len(rx))
  /\ n' = 0 /\ i' = 0
  /\ pc' = "submit"
  /\ UNCHANGED <<kernelVars, bookVars, refill, resultVars, error>>

(* xsk_ring_prod__submit and the final test; an error ends main's loop.    *)
Submit ==
  /\ pc = "submit"
  /\ fill' = fill \o refill
  /\ refill' = <<>>
  /\ error' = IF owned # 0 THEN First("unclean") ELSE error
  /\ pc' = IF error' = "none" THEN "idle" ELSE "stopped"
  /\ UNCHANGED <<free, rx, mem, packets, repeats, n, i, bookVars, resultVars>>

-----------------------------------------------------------------------------
Next ==
  \/ Deliver \/ DropOnFullRx \/ Repeat
  \/ Peek \/ Stop \/ Check \/ Reserve \/ Process \/ Release \/ Submit

Spec == Init /\ [][Next]_vars

-----------------------------------------------------------------------------
Held(s) == [f \in Frames |-> Cardinality({j \in DOMAIN s : s[j] = f})]
RxFrames == [j \in DOMAIN rx |-> rx[j].frame]

(* Frames the user has not yet put into its FILL entries are those of the  *)
(* RX entries it holds, so a frame of a processed entry counts once.       *)
Holders(f) ==
  Held(fill)[f] + (IF f \in free THEN 1 ELSE 0)
    + Held(RxFrames)[f]
    + (IF pc = "submit" THEN Held(refill)[f] ELSE 0)

(* No UMEM frame is lost or given away twice, at any step of a batch, in   *)
(* whatever way the batch ends: each is in exactly one of the FILL ring,   *)
(* the kernel's free list, the RX ring and the batch about to be returned. *)
(* (While the kernel itself posts no frame twice.)                         *)
FramesConserved == repeats = 0 => \A f \in Frames : Holders(f) = 1

(* frame_in_kernel and userspace_owned_frames agree; the frames still to   *)
(* be processed are the user's, and between batches, or after an error, it *)
(* owns none.  The FILL ring has room for every batch ("cannot drain the   *)
(* UMEM address pool"), the account accuses only a kernel that posted a    *)
(* frame twice, and no packet goes unrecorded for want of room without     *)
(* receive_batch failing.                                                  *)
AccountsAgree ==
  /\ pc = "process" => \A j \in (i + 1)..n : ~inKernel[rx[j].frame]
  /\ owned = Cardinality({f \in Frames : ~inKernel[f]})
  /\ pc \in {"idle", "submit", "stopped"} => owned = 0
  /\ error \in {"fill", "unclean"} => repeats > 0
  /\ overflow > 0 => error \in {"records", "clock"}

(* Records are the packets the kernel posted, in its order: no frame is    *)
(* overwritten while it is read, and a record never reports the metadata   *)
(* of another packet, even one with the same key.  There are never more    *)
(* than fit (in TypeOK).                                                   *)
RecordsFaithful ==
  /\ TypeOK
  /\ repeats = 0 =>
       /\ \A j \in DOMAIN records : records[j].meta \in {None, records[j].pkt}
       /\ \A j, k \in DOMAIN records : j < k => records[j].pkt < records[k].pkt
       /\ \A j \in (i + 1)..n : mem[rx[j].frame].pkt = rx[j].pkt
=============================================================================
