---------------------------- MODULE XskLifecycle ----------------------------
(***************************************************************************)
(* The lifecycle of one native XDP measurement, shared by three programs:  *)
(*   - the loader (BPF/xdp_loader.c, main): pins the maps, attaches the    *)
(*     program, publishes its state in runtime_config, and on exit         *)
(*     publishes STOPPING, refuses to detach under a live AF_XDP claim,    *)
(*     detaches, exports and unpins;                                       *)
(*   - the AF_XDP receivers (BPF/afxdp_recv.c, main): open the pins, claim *)
(*     their queue, re-read runtime_config and only then register;         *)
(*   - the recoverers (xdp_loader --recover): finish what a dead loader    *)
(*     left behind.                                                        *)
(*                                                                         *)
(* A loader process is named by its incarnation 1..MaxLoaders; the maps it *)
(* creates and the program it loads carry the same number, 0 meaning none. *)
(* A member of Receivers or Recoverers is one process lifetime, so it also *)
(* stands for the (pid, start ticks) identity the code compares.           *)
(***************************************************************************)
EXTENDS Naturals, Sequences

CONSTANTS Receivers,    \* AF_XDP receiver processes
          Recoverers,   \* xdp_loader --recover processes
          Queues,       \* NIC receive queues, the keys of both XSK maps
          QueueOf,      \* the queue each receiver is started on
          MaxLoaders,   \* bound on the loader processes of a behaviour
          UnpinFails,   \* whether the removal of a single pin may fail
          Loader,       \* the loader, as a process that checks the claims
          NoOne         \* an absent map entry

ASSUME ConstantsAssumption ==
  /\ QueueOf \in [Receivers -> Queues]
  /\ MaxLoaders \in Nat
  /\ UnpinFails \in BOOLEAN
  /\ NoOne \notin Receivers \cup Queues
  /\ Loader \notin Recoverers

(* --recover is a command an operator types: one runs at a time.  Nothing  *)
(* in the code excludes a second one.                                      *)
ASSUME OneRecovery == \A x, y \in Recoverers : x = y

VARIABLES
  epoch,      \* loaders started so far; the current one has this number
  pc,         \* control points of the loader and of the recoverers
  pos,        \* their positions in the list of pins
  cq,         \* the key each inspects in xsk_owners_have_live_claim
  complete,   \* the loader's measurement_complete
  preserve,   \* the loader's preserve_pins
  result,     \* the loader's exit status
  pinned,     \* pin name -> incarnation of the map pinned there
  attached,   \* incarnation of the program attached to the NIC
  flags,      \* incarnation -> lifecycle flags in runtime_config
  claims,     \* incarnation -> queue -> receiver, the map xsk_owners
  xskmap,     \* incarnation -> queue -> receiver, the map xsk_map
  exported,   \* incarnations whose final records were saved to files
  rpc,        \* control point of each receiver
  rfd,        \* receiver -> map -> incarnation it opened
  rflags,     \* receiver -> its first copy of the runtime flags
  xe,         \* recoverer -> incarnation of its runtime_config
  xo,         \* recoverer -> incarnation of its other maps
  xflags      \* recoverer -> its copy of the runtime flags

loaderVars  == <<epoch, complete, preserve, result>>
recvVars    == <<rpc, rfd, rflags>>
recoverVars == <<xe, xo, xflags>>
vars == <<epoch, pc, pos, cq, complete, preserve, result, pinned, attached,
          flags, claims, xskmap, exported, rpc, rfd, rflags, xe, xo, xflags>>

Epochs == 1..MaxLoaders

(* The pins in the order of pin_measurement_maps.  "records" stands for    *)
(* cpu_map, ingress_records and cpumap_records, which no receiver opens.   *)
Pins == <<"xsk_map", "xsk_owners", "stats", "records", "runtime_config">>

PinNames == {"xsk_map", "xsk_owners", "stats", "records", "runtime_config"}

ReceiverMaps == {"xsk_map", "xsk_owners", "stats", "runtime_config"}

Flags == {"APPLYING", "APPLIED", "STOPPING"}

Checkers == {Loader} \cup Recoverers

CheckerPCs == {"off", "pin", "rollback", "attach", "hwtstamp", "apply",
               "announce", "run", "publish", "open", "claims", "recheck",
               "delete", "detach", "export", "restore", "unpin", "end"}

ReceiverPCs == {"idle", "open_owners", "open_stats", "open_runtime", "read",
                "live", "validate", "claim", "reread", "live2", "validate2",
                "register", "capture", "close", "release", "release_delete",
                "done"}

LoaderType ==
  /\ epoch \in 0..MaxLoaders
  /\ complete \in BOOLEAN
  /\ preserve \in BOOLEAN
  /\ result \in {0, 1}

CheckerType ==
  /\ pc \in [Checkers -> CheckerPCs]
  /\ pos \in [Checkers -> 0..6]
  /\ cq \in [Checkers -> Queues \cup {NoOne}]

KernelType ==
  /\ pinned \in [PinNames -> 0..MaxLoaders]
  /\ attached \in 0..MaxLoaders
  /\ flags \in [Epochs -> SUBSET Flags]
  /\ claims \in [Epochs -> [Queues -> Receivers \cup {NoOne}]]
  /\ xskmap \in [Epochs -> [Queues -> Receivers \cup {NoOne}]]
  /\ exported \in SUBSET (0..MaxLoaders)

ReceiverType ==
  /\ rpc \in [Receivers -> ReceiverPCs]
  /\ rfd \in [Receivers -> [ReceiverMaps -> 0..MaxLoaders]]
  /\ rflags \in [Receivers -> SUBSET Flags]

RecovererType ==
  /\ xe \in [Recoverers -> 0..MaxLoaders]
  /\ xo \in [Recoverers -> 0..MaxLoaders]
  /\ xflags \in [Recoverers -> SUBSET Flags]

(* The type of every variable: what the maps, pins and processes hold.     *)
TypeOK ==
  /\ LoaderType
  /\ CheckerType
  /\ KernelType
  /\ ReceiverType
  /\ RecovererType

Init ==
  /\ epoch = 0
  /\ pc = [c \in Checkers |-> "off"]
  /\ pos = [c \in Checkers |-> 0]
  /\ cq = [c \in Checkers |-> NoOne]
  /\ complete = FALSE
  /\ preserve = FALSE
  /\ result = 1
  /\ pinned = [m \in PinNames |-> 0]
  /\ attached = 0
  /\ flags = [e \in Epochs |-> {}]
  /\ claims = [e \in Epochs |-> [q \in Queues |-> NoOne]]
  /\ xskmap = [e \in Epochs |-> [q \in Queues |-> NoOne]]
  /\ exported = {}
  /\ rpc = [r \in Receivers |-> "idle"]
  /\ rfd = [r \in Receivers |-> [m \in ReceiverMaps |-> 0]]
  /\ rflags = [r \in Receivers |-> {}]
  /\ xe = [x \in Recoverers |-> 0]
  /\ xo = [x \in Recoverers |-> 0]
  /\ xflags = [x \in Recoverers |-> {}]

-----------------------------------------------------------------------------
(* ace_process_identity_is_alive, for a receiver and for loader number e.  *)

ReceiverAlive(r) == rpc[r] \notin {"idle", "done"}

LoaderAlive(e) == e = epoch /\ pc[Loader] \notin {"off", "end"}

Goto(c, label) == pc' = [pc EXCEPT ![c] = label]

(* The loader or a recoverer ends; what it kept in its memory is gone.     *)
Exit(c) ==
  /\ Goto(c, "end")
  /\ pos' = [pos EXCEPT ![c] = 0]
  /\ cq' = [cq EXCEPT ![c] = NoOne]

-----------------------------------------------------------------------------
(* xsk_owners_have_live_claim on the claims of incarnation e, by checker c *)
(* (the loader, or a recoverer).  Each map system call is one step.        *)

Keys(e) == {q \in Queues : claims[e][q] # NoOne}

(* Wrong: the claims of live receivers are deleted too.                    *)
InspectClaimsDeletesAll(c, e) ==
  /\ pc[c] = "claims"
  /\ \/ Keys(e) = {} /\ Goto(c, "detach") /\ UNCHANGED cq
     \/ \E q \in Keys(e) : cq' = [cq EXCEPT ![c] = q] /\ Goto(c, "delete")
  /\ UNCHANGED <<pos, loaderVars, pinned, attached, flags, claims, xskmap,
                 exported, recvVars, recoverVars>>

(* get_next_key, the lookup and the liveness test; an empty map passes.    *)
InspectClaims(c, e) ==
  /\ pc[c] = "claims"
  /\ \/ /\ Keys(e) = {}
        /\ Goto(c, "detach")
        /\ UNCHANGED cq
     \/ \E q \in Keys(e) :
          /\ cq' = [cq EXCEPT ![c] = q]
          /\ Goto(c, IF ReceiverAlive(claims[e][q]) THEN "recheck" ELSE "delete")
  /\ UNCHANGED <<pos, loaderVars, pinned, attached, flags, claims, xskmap,
                 exported, recvVars, recoverVars>>

(* The second lookup of a live claim: if it is gone the scan goes on.      *)
ClaimVanished(c, e) ==
  /\ pc[c] = "recheck"
  /\ claims[e][cq[c]] = NoOne
  /\ Goto(c, "claims")
  /\ UNCHANGED <<pos, cq, loaderVars, pinned, attached, flags, claims, xskmap,
                 exported, recvVars, recoverVars>>

(* The claim of a dead receiver is deleted by key, whoever holds it now.   *)
DeleteClaim(c, e) ==
  /\ pc[c] = "delete"
  /\ claims' = [claims EXCEPT ![e][cq[c]] = NoOne]
  /\ Goto(c, "claims")
  /\ UNCHANGED <<pos, cq, loaderVars, pinned, attached, flags, xskmap,
                 exported, recvVars, recoverVars>>

-----------------------------------------------------------------------------
(* The loader.                                                             *)

(* It refuses an attached program or a pin directory that is not empty.    *)
LoaderStart ==
  /\ pc[Loader] \in {"off", "end"}
  /\ epoch < MaxLoaders
  /\ attached = 0
  /\ \A m \in PinNames : pinned[m] = 0
  /\ epoch' = epoch + 1
  /\ pos' = [pos EXCEPT ![Loader] = 1]
  /\ complete' = FALSE
  /\ preserve' = FALSE
  /\ result' = 1
  /\ Goto(Loader, "pin")
  /\ UNCHANGED <<cq, pinned, attached, flags, claims, xskmap, exported,
                 recvVars, recoverVars>>

(* pin_measurement_maps(skel, true), one pin a step; a pin that fails has  *)
(* the earlier ones removed again.                                         *)
LoaderPin ==
  /\ pc[Loader] = "pin"
  /\ \/ /\ pinned' = [pinned EXCEPT ![Pins[pos[Loader]]] = epoch]
        /\ pos' = [pos EXCEPT ![Loader] = @ + 1]
        /\ Goto(Loader, IF pos[Loader] = Len(Pins) THEN "attach" ELSE "pin")
     \/ /\ pos' = [pos EXCEPT ![Loader] = @ - 1]
        /\ Goto(Loader, "rollback")
        /\ UNCHANGED pinned
  /\ UNCHANGED <<cq, loaderVars, attached, flags, claims, xskmap, exported,
                 recvVars, recoverVars>>

(* The result of each removal is ignored.                                  *)
LoaderRollbackPin ==
  /\ pc[Loader] = "rollback"
  /\ IF pos[Loader] = 0
       THEN Exit(Loader) /\ UNCHANGED pinned
       ELSE /\ \/ pinned' = [pinned EXCEPT ![Pins[pos[Loader]]] = 0]
               \/ UnpinFails /\ UNCHANGED pinned
            /\ pos' = [pos EXCEPT ![Loader] = @ - 1]
            /\ UNCHANGED <<pc, cq>>
  /\ UNCHANGED <<loaderVars, attached, flags, claims, xskmap, exported,
                 recvVars, recoverVars>>

(* A stop signal seen here ends the loader with status 0; an attach that   *)
(* fails ends it with status 1.  Neither has anything to detach.           *)
LoaderGiveUp ==
  /\ pc[Loader] = "attach"
  /\ result' \in {0, 1}
  /\ Goto(Loader, "restore")
  /\ UNCHANGED <<epoch, complete, preserve, pos, cq, pinned, attached, flags,
                 claims, xskmap, exported, recvVars, recoverVars>>

LoaderAttach ==
  /\ pc[Loader] = "attach"
  /\ attached = 0
  /\ attached' = epoch
  /\ Goto(Loader, "hwtstamp")
  /\ UNCHANGED <<pos, cq, loaderVars, pinned, flags, claims, xskmap, exported,
                 recvVars, recoverVars>>

(* The timestamp configuration is published as APPLYING before the device  *)
(* is changed and as APPLIED afterwards; either part may fail.             *)
LoaderPublishApplying ==
  /\ pc[Loader] = "hwtstamp"
  /\ flags' = [flags EXCEPT ![epoch] = @ \cup {"APPLYING"}]
  /\ Goto(Loader, "apply")
  /\ UNCHANGED <<pos, cq, loaderVars, pinned, attached, claims, xskmap,
                 exported, recvVars, recoverVars>>

LoaderPublishApplied ==
  /\ pc[Loader] = "apply"
  /\ flags' = [flags EXCEPT ![epoch] = (@ \ {"APPLYING"}) \cup {"APPLIED"}]
  /\ Goto(Loader, "announce")
  /\ UNCHANGED <<pos, cq, loaderVars, pinned, attached, claims, xskmap,
                 exported, recvVars, recoverVars>>

LoaderReady ==
  /\ pc[Loader] = "announce"
  /\ Goto(Loader, "run")
  /\ UNCHANGED <<pos, cq, loaderVars, pinned, attached, flags, claims, xskmap,
                 exported, recvVars, recoverVars>>

(* A failure after the attach, up to the publication of the ready file.    *)
LoaderAbort ==
  /\ pc[Loader] \in {"hwtstamp", "apply", "announce"}
  /\ Goto(Loader, "publish")
  /\ UNCHANGED <<pos, cq, loaderVars, pinned, attached, flags, claims, xskmap,
                 exported, recvVars, recoverVars>>

(* A stop signal ends a measurement that was announced as ready.           *)
LoaderStop ==
  /\ pc[Loader] = "run"
  /\ complete' = TRUE
  /\ result' = 0
  /\ Goto(Loader, "publish")
  /\ UNCHANGED <<epoch, preserve, pos, cq, pinned, attached, flags, claims,
                 xskmap, exported, recvVars, recoverVars>>

(* Wrong: the claims are checked without publishing STOPPING.              *)
LoaderSkipStopping ==
  /\ pc[Loader] = "publish"
  /\ Goto(Loader, "claims")
  /\ UNCHANGED <<pos, cq, loaderVars, pinned, attached, flags, claims, xskmap,
                 exported, recvVars, recoverVars>>

LoaderPublishStopping ==
  /\ pc[Loader] = "publish"
  /\ flags' = [flags EXCEPT ![epoch] = @ \cup {"STOPPING"}]
  /\ Goto(Loader, "claims")
  /\ UNCHANGED <<pos, cq, loaderVars, pinned, attached, claims, xskmap,
                 exported, recvVars, recoverVars>>

(* STOPPING could not be published, the claims could not be read, a claim  *)
(* is live, or the detach failed: the program stays attached and the pins  *)
(* stay for a recovery.                                                    *)
LoaderLeaveAttached ==
  /\ \/ pc[Loader] \in {"publish", "claims", "delete", "detach"}
     \/ pc[Loader] = "recheck" /\ claims[epoch][cq[Loader]] # NoOne
  /\ preserve' = TRUE
  /\ result' = 1
  /\ Exit(Loader)
  /\ UNCHANGED <<epoch, complete, pinned, attached, flags, claims,
                 xskmap, exported, recvVars, recoverVars>>

(* detach_if_owned, then on to the export if the measurement completed.    *)
LoaderDetach ==
  /\ pc[Loader] = "detach"
  /\ attached \in {0, epoch}
  /\ attached' = 0
  /\ Goto(Loader, IF complete THEN "export" ELSE "restore")
  /\ UNCHANGED <<pos, cq, loaderVars, pinned, flags, claims, xskmap, exported,
                 recvVars, recoverVars>>

(* Wrong: a failed export keeps the pins but not the error.                *)
LoaderExportKeepsStatus ==
  /\ pc[Loader] = "export"
  /\ \/ exported' = exported \cup {epoch} /\ UNCHANGED preserve
     \/ preserve' = TRUE /\ UNCHANGED exported
  /\ Goto(Loader, "restore")
  /\ UNCHANGED <<epoch, complete, result, pos, cq, pinned, attached, flags,
                 claims, xskmap, recvVars, recoverVars>>

(* Wrong: a failed export is reported but the pins are removed.            *)
LoaderExportDropsPins ==
  /\ pc[Loader] = "export"
  /\ \/ exported' = exported \cup {epoch} /\ UNCHANGED result
     \/ result' = 1 /\ UNCHANGED exported
  /\ Goto(Loader, "restore")
  /\ UNCHANGED <<epoch, complete, preserve, pos, cq, pinned, attached, flags,
                 claims, xskmap, recvVars, recoverVars>>

(* The CPUMAP drain and the export; a failure of either keeps the pins.    *)
LoaderExport ==
  /\ pc[Loader] = "export"
  /\ \/ /\ exported' = exported \cup {epoch}
        /\ UNCHANGED <<preserve, result>>
     \/ /\ preserve' = TRUE
        /\ result' = 1
        /\ UNCHANGED exported
  /\ Goto(Loader, "restore")
  /\ UNCHANGED <<epoch, complete, pos, cq, pinned, attached, flags, claims,
                 xskmap, recvVars, recoverVars>>

(* ace_hwtstamp_restore_allow_saved; pins that stay get the restored state *)
(* published, pins that do not are removed.                                *)
LoaderRestore ==
  /\ pc[Loader] = "restore"
  /\ \/ /\ IF preserve
             THEN /\ flags' = [flags EXCEPT ![epoch] = @ \ {"APPLYING", "APPLIED"}]
                  /\ Exit(Loader)
             ELSE /\ pos' = [pos EXCEPT ![Loader] = 1]
                  /\ Goto(Loader, "unpin")
                  /\ UNCHANGED <<flags, cq>>
        /\ UNCHANGED <<preserve, result>>
     \/ /\ preserve' = TRUE
        /\ result' = 1
        /\ Exit(Loader)
        /\ UNCHANGED flags
  /\ UNCHANGED <<epoch, complete, pinned, attached, claims, xskmap,
                 exported, recvVars, recoverVars>>

(* pin_measurement_maps(skel, false): a pin that cannot be removed spoils  *)
(* the exit status but the rest are still removed.                         *)
LoaderUnpin ==
  /\ pc[Loader] = "unpin"
  /\ IF pos[Loader] > Len(Pins)
       THEN /\ Exit(Loader)
            /\ UNCHANGED <<pinned, preserve, result>>
       ELSE /\ pos' = [pos EXCEPT ![Loader] = @ + 1]
            /\ \/ /\ pinned' = [pinned EXCEPT ![Pins[pos[Loader]]] = 0]
                  /\ UNCHANGED <<preserve, result>>
               \/ /\ UnpinFails
                  /\ preserve' = TRUE
                  /\ result' = 1
                  /\ UNCHANGED pinned
            /\ UNCHANGED <<pc, cq>>
  /\ UNCHANGED <<epoch, complete, attached, flags, claims, xskmap,
                 exported, recvVars, recoverVars>>

(* SIGKILL: the attached program and the pins outlive the process.         *)
LoaderCrash ==
  /\ pc[Loader] \notin {"off", "end"}
  /\ result' = 1
  /\ Exit(Loader)
  /\ UNCHANGED <<epoch, complete, preserve, pinned, attached, flags, claims,
                 xskmap, exported, recvVars, recoverVars>>

-----------------------------------------------------------------------------
(* xdp_loader --recover.                                                   *)

RecoverEnd(x) ==
  /\ Exit(x)
  /\ xe' = [xe EXCEPT ![x] = 0]
  /\ xo' = [xo EXCEPT ![x] = 0]
  /\ xflags' = [xflags EXCEPT ![x] = {}]

(* Every error path: the process exits and leaves the rest as it is.  Also *)
(* its SIGKILL.                                                            *)
RecoverExit(x) ==
  /\ pc[x] \notin {"off", "end"}
  /\ RecoverEnd(x)
  /\ UNCHANGED <<loaderVars, pinned, attached, flags, claims, xskmap, exported,
                 recvVars>>

(* It opens the pinned runtime_config and copies it.                       *)
RecoverRead(x) ==
  /\ pc[x] = "off"
  /\ pinned["runtime_config"] # 0
  /\ xe' = [xe EXCEPT ![x] = pinned["runtime_config"]]
  /\ xflags' = [xflags EXCEPT ![x] = flags[pinned["runtime_config"]]]
  /\ Goto(x, "publish")
  /\ UNCHANGED <<pos, cq, loaderVars, pinned, attached, flags, claims, xskmap,
                 exported, recvVars, xo>>

(* A live original loader refuses it; otherwise it writes its copy back    *)
(* with STOPPING added.                                                    *)
RecoverPublishStopping(x) ==
  /\ pc[x] = "publish"
  /\ ~LoaderAlive(xe[x])
  /\ xflags' = [xflags EXCEPT ![x] = @ \cup {"STOPPING"}]
  /\ flags' = [flags EXCEPT ![xe[x]] = xflags[x] \cup {"STOPPING"}]
  /\ Goto(x, "open")
  /\ UNCHANGED <<pos, cq, loaderVars, pinned, attached, claims, xskmap,
                 exported, recvVars, xe, xo>>

(* The other six pins have to be there.                                    *)
RecoverOpen(x) ==
  /\ pc[x] = "open"
  /\ \A m \in PinNames \ {"runtime_config"} : pinned[m] # 0
  /\ xo' = [xo EXCEPT ![x] = pinned["xsk_owners"]]
  /\ Goto(x, "claims")
  /\ UNCHANGED <<pos, cq, loaderVars, pinned, attached, flags, claims, xskmap,
                 exported, recvVars, xe, xflags>>

(* A foreign program refuses the recovery, a missing one needs no detach.  *)
RecoverDetach(x) ==
  /\ pc[x] = "detach"
  /\ attached \in {0, xe[x]}
  /\ attached' = 0
  /\ Goto(x, "restore")
  /\ UNCHANGED <<pos, cq, loaderVars, pinned, flags, claims, xskmap, exported,
                 recvVars, recoverVars>>

(* The timestamp configuration is restored and the result published, or    *)
(* the recovery remembers a state error: it then exports but keeps pins.   *)
RecoverRestore(x) ==
  /\ pc[x] = "restore"
  /\ \/ /\ xflags' = [xflags EXCEPT ![x] = @ \ {"APPLYING", "APPLIED"}]
        /\ flags' = [flags EXCEPT ![xe[x]] = xflags[x] \ {"APPLYING", "APPLIED"}]
        /\ pos' = [pos EXCEPT ![x] = 1]
     \/ UNCHANGED <<xflags, flags, pos>>
  /\ Goto(x, "export")
  /\ UNCHANGED <<cq, loaderVars, pinned, attached, claims, xskmap, exported,
                 recvVars, xe, xo>>

(* The CPUMAP drain and the export, from the maps it opened; it is final   *)
(* only if their loader is done with them.  Pins are removed only under    *)
(* --cleanup-pins and without a state error.                               *)
RecoverExport(x) ==
  /\ pc[x] = "export"
  /\ exported' = IF LoaderAlive(xo[x]) \/ attached = xo[x]
                 THEN exported ELSE exported \cup {xo[x]}
  /\ \/ pos[x] = 1 /\ Goto(x, "unpin") /\ UNCHANGED <<pos, cq, recoverVars>>
     \/ RecoverEnd(x)
  /\ UNCHANGED <<loaderVars, pinned, attached, flags, claims, xskmap, recvVars>>

(* cleanup_recovery_pins, by path.                                         *)
RecoverUnpin(x) ==
  /\ pc[x] = "unpin"
  /\ pinned' = [pinned EXCEPT ![Pins[pos[x]]] = 0]
  /\ IF pos[x] = Len(Pins)
       THEN RecoverEnd(x)
       ELSE /\ pos' = [pos EXCEPT ![x] = @ + 1]
            /\ UNCHANGED <<pc, cq, recoverVars>>
  /\ UNCHANGED <<loaderVars, attached, flags, claims, xskmap, exported, recvVars>>

-----------------------------------------------------------------------------
(* An AF_XDP receiver.                                                     *)

checkerVars == <<epoch, pc, pos, cq, complete, preserve, result, xe, xo, xflags>>

ReceiverGoto(r, label) == rpc' = [rpc EXCEPT ![r] = label]

ReceiverExit(r) ==
  /\ ReceiverGoto(r, "done")
  /\ rfd' = [rfd EXCEPT ![r] = [m \in ReceiverMaps |-> 0]]
  /\ rflags' = [rflags EXCEPT ![r] = {}]

(* bpf_obj_get of the pin m at control point from.                         *)
ReceiverOpen(r, from, m, to) ==
  /\ rpc[r] = from
  /\ pinned[m] # 0
  /\ rfd' = [rfd EXCEPT ![r][m] = pinned[m]]
  /\ ReceiverGoto(r, to)
  /\ UNCHANGED <<checkerVars, pinned, attached, flags, claims, xskmap,
                 exported, rflags>>

ReceiverOpenMaps(r) ==
  \/ ReceiverOpen(r, "idle", "xsk_map", "open_owners")
  \/ ReceiverOpen(r, "open_owners", "xsk_owners", "open_stats")
  \/ ReceiverOpen(r, "open_stats", "stats", "open_runtime")
  \/ ReceiverOpen(r, "open_runtime", "runtime_config", "read")

(* The first copy of runtime_config has to say APPLIED and nothing else.   *)
ReceiverRead(r) ==
  /\ rpc[r] = "read"
  /\ flags[rfd[r]["runtime_config"]] = {"APPLIED"}
  /\ rflags' = [rflags EXCEPT ![r] = flags[rfd[r]["runtime_config"]]]
  /\ ReceiverGoto(r, "live")
  /\ UNCHANGED <<checkerVars, pinned, attached, flags, claims, xskmap,
                 exported, rfd>>

(* require_live_loader_owner                                               *)
ReceiverRequireLive(r, from, to) ==
  /\ rpc[r] = from
  /\ LoaderAlive(rfd[r]["runtime_config"])
  /\ ReceiverGoto(r, to)
  /\ UNCHANGED <<checkerVars, pinned, attached, flags, claims, xskmap,
                 exported, rfd, rflags>>

(* validate_attached_program: the attached program is the one runtime      *)
(* names, and it uses the xsk_map and the stats map that were opened.      *)
ReceiverValidate(r, from, to) ==
  /\ rpc[r] = from
  /\ attached # 0
  /\ attached = rfd[r]["runtime_config"]
  /\ attached = rfd[r]["xsk_map"]
  /\ attached = rfd[r]["stats"]
  /\ ReceiverGoto(r, to)
  /\ UNCHANGED <<checkerVars, pinned, attached, flags, claims, xskmap,
                 exported, rfd, rflags>>

(* claim_xsk_queue, BPF_NOEXIST                                            *)
ReceiverClaim(r) ==
  /\ rpc[r] = "claim"
  /\ claims[rfd[r]["xsk_owners"]][QueueOf[r]] = NoOne
  /\ claims' = [claims EXCEPT ![rfd[r]["xsk_owners"]][QueueOf[r]] = r]
  /\ ReceiverGoto(r, "reread")
  /\ UNCHANGED <<checkerVars, pinned, attached, flags, xskmap, exported, rfd,
                 rflags>>

(* Wrong: the second copy is not compared.                                 *)
ReceiverSkipReread(r) ==
  /\ rpc[r] = "reread"
  /\ ReceiverGoto(r, "live2")
  /\ UNCHANGED <<checkerVars, pinned, attached, flags, claims, xskmap,
                 exported, rfd, rflags>>

(* memcmp of a second copy of runtime_config with the first.               *)
ReceiverReread(r) ==
  /\ rpc[r] = "reread"
  /\ flags[rfd[r]["runtime_config"]] = rflags[r]
  /\ ReceiverGoto(r, "live2")
  /\ UNCHANGED <<checkerVars, pinned, attached, flags, claims, xskmap,
                 exported, rfd, rflags>>

(* register_socket, BPF_NOEXIST                                            *)
ReceiverRegister(r) ==
  /\ rpc[r] = "register"
  /\ xskmap[rfd[r]["xsk_map"]][QueueOf[r]] = NoOne
  /\ xskmap' = [xskmap EXCEPT ![rfd[r]["xsk_map"]][QueueOf[r]] = r]
  /\ ReceiverGoto(r, "capture")
  /\ UNCHANGED <<checkerVars, pinned, attached, flags, claims, exported, rfd,
                 rflags>>

(* Any check that fails, any system call that fails, and the end of the    *)
(* capture lead to the cleanup; owner_claimed tells whether it releases.   *)
ReceiverOut(r) ==
  /\ rpc[r] \notin {"idle", "close", "release", "release_delete", "done"}
  /\ IF rpc[r] \in {"reread", "live2", "validate2", "register", "capture"}
       THEN ReceiverGoto(r, "close") /\ UNCHANGED <<rfd, rflags>>
       ELSE ReceiverExit(r)
  /\ UNCHANGED <<checkerVars, pinned, attached, flags, claims, xskmap,
                 exported>>

(* The kernel removes the entries of a socket that is closed.              *)
WithoutSocket(r) ==
  [e \in Epochs |-> [q \in Queues |-> IF xskmap[e][q] = r THEN NoOne
                                                          ELSE xskmap[e][q]]]

(* xsk_socket__delete                                                      *)
ReceiverClose(r) ==
  /\ rpc[r] = "close"
  /\ xskmap' = WithoutSocket(r)
  /\ ReceiverGoto(r, "release")
  /\ UNCHANGED <<checkerVars, pinned, attached, flags, claims, exported, rfd,
                 rflags>>

(* release_xsk_queue: the lookup that compares the identities ...          *)
ReceiverRelease(r) ==
  /\ rpc[r] = "release"
  /\ IF claims[rfd[r]["xsk_owners"]][QueueOf[r]] = r
       THEN ReceiverGoto(r, "release_delete") /\ UNCHANGED <<rfd, rflags>>
       ELSE ReceiverExit(r)
  /\ UNCHANGED <<checkerVars, pinned, attached, flags, claims, xskmap,
                 exported>>

(* ... and the deletion, by key.                                           *)
ReceiverReleaseDelete(r) ==
  /\ rpc[r] = "release_delete"
  /\ claims' = [claims EXCEPT ![rfd[r]["xsk_owners"]][QueueOf[r]] = NoOne]
  /\ ReceiverExit(r)
  /\ UNCHANGED <<checkerVars, pinned, attached, flags, xskmap, exported>>

(* SIGKILL: the kernel closes the socket, the claim stays.                 *)
ReceiverCrash(r) ==
  /\ ReceiverAlive(r)
  /\ xskmap' = WithoutSocket(r)
  /\ ReceiverExit(r)
  /\ UNCHANGED <<checkerVars, pinned, attached, flags, claims, exported>>

-----------------------------------------------------------------------------
LoaderNext ==
  \/ LoaderStart
  \/ LoaderPin
  \/ LoaderRollbackPin
  \/ LoaderGiveUp
  \/ LoaderAttach
  \/ LoaderPublishApplying
  \/ LoaderPublishApplied
  \/ LoaderReady
  \/ LoaderAbort
  \/ LoaderStop
  \/ LoaderPublishStopping
  \/ InspectClaims(Loader, epoch)
  \/ ClaimVanished(Loader, epoch)
  \/ DeleteClaim(Loader, epoch)
  \/ LoaderLeaveAttached
  \/ LoaderDetach
  \/ LoaderExport
  \/ LoaderRestore
  \/ LoaderUnpin
  \/ LoaderCrash

RecoverNext(x) ==
  \/ RecoverRead(x)
  \/ RecoverPublishStopping(x)
  \/ RecoverOpen(x)
  \/ InspectClaims(x, xo[x])
  \/ ClaimVanished(x, xo[x])
  \/ DeleteClaim(x, xo[x])
  \/ RecoverDetach(x)
  \/ RecoverRestore(x)
  \/ RecoverExport(x)
  \/ RecoverUnpin(x)
  \/ RecoverExit(x)

ReceiverNext(r) ==
  \/ ReceiverOpenMaps(r)
  \/ ReceiverRead(r)
  \/ ReceiverRequireLive(r, "live", "validate")
  \/ ReceiverValidate(r, "validate", "claim")
  \/ ReceiverClaim(r)
  \/ ReceiverReread(r)
  \/ ReceiverRequireLive(r, "live2", "validate2")
  \/ ReceiverValidate(r, "validate2", "register")
  \/ ReceiverRegister(r)
  \/ ReceiverOut(r)
  \/ ReceiverClose(r)
  \/ ReceiverRelease(r)
  \/ ReceiverReleaseDelete(r)
  \/ ReceiverCrash(r)

Next ==
  \/ LoaderNext
  \/ \E x \in Recoverers : RecoverNext(x)
  \/ \E r \in Receivers : ReceiverNext(r)

Spec == Init /\ [][Next]_vars

-----------------------------------------------------------------------------
(* Properties.                                                             *)

Registered(r) == rpc[r] = "capture"

(* A receiver that captures is registered in the XSKMAP of the program     *)
(* that is attached: neither a loader that stops, nor a recovery, nor a    *)
(* later loader takes the program away under it (the claim, re-read and    *)
(* register order of afxdp_recv.c main against the STOPPING, check and     *)
(* detach order of xdp_loader.c).                                          *)
CaptureHasProgram ==
  \A r \in Receivers : Registered(r) => attached = rfd[r]["xsk_map"]

(* A receiver that captures still holds the claim on its queue in the maps *)
(* of that program, although checkers delete claims by key.                *)
CaptureHasClaim ==
  \A r \in Receivers :
    Registered(r) => /\ attached # 0
                     /\ claims[attached][QueueOf[r]] = r
                     /\ xskmap[attached][QueueOf[r]] = r

(* Exit status 0 of a loader that announced itself ready means that its    *)
(* files are saved, its program is detached and its pins are gone.         *)
ExitZeroIsFinal ==
  (pc[Loader] = "end" /\ result = 0 /\ complete) =>
     /\ epoch \in exported
     /\ attached # epoch
     /\ \A m \in PinNames : pinned[m] # epoch

(* Recorded data is never lost: a measurement that was completed is        *)
(* exported before any of its pins is removed.                             *)
NoPinRemovedBeforeExport ==
  [][\A m \in PinNames :
       (pinned[m] = epoch /\ pinned'[m] = 0 /\ complete)
          => epoch \in exported]_vars

(* A recovery removes only pins of the loader whose runtime_config it      *)
(* validated (cleanup_recovery_pins unlinks by path).                      *)
RecoveryRemovesItsOwn ==
  \A x \in Recoverers :
    pc[x] = "unpin" => pinned[Pins[pos[x]]] \in {0, xe[x]}

(* Whatever pins remain once the loader and the receivers are gone can be  *)
(* opened by --recover, which needs every one of them.                     *)
RemainingPinsRecoverable ==
  (/\ pc[Loader] = "end"
   /\ \A x \in Recoverers : pc[x] \in {"off", "end"}
   /\ \E m \in PinNames : pinned[m] # 0)
     => \A m \in PinNames : pinned[m] # 0

(* The claim protocol implements exclusive ownership of the program: it is *)
(* detached only when no receiver captures through it.                     *)
joinedProgram ==
  [r \in Receivers |-> IF Registered(r) THEN rfd[r]["xsk_map"] ELSE 0]

Ownership == INSTANCE XskOwnership WITH
  Users <- Receivers, MaxPrograms <- MaxLoaders,
  program <- attached, joined <- joinedProgram

ImplementsOwnership == Ownership!Spec

-----------------------------------------------------------------------------
(* The inductive invariant behind CaptureHasProgram and CaptureHasClaim.   *)

FullyOpened(r) ==
  rpc[r] \notin {"idle", "open_owners", "open_stats", "open_runtime", "done"}

(* Past the second look at runtime_config.                                 *)
Past(r) == rpc[r] \in {"live2", "validate2", "register", "capture"}

(* Past it, with claim and runtime_config in the maps of incarnation e.    *)
PastIn(r, e) ==
  /\ Past(r)
  /\ rfd[r]["xsk_owners"] = e
  /\ rfd[r]["runtime_config"] = e

(* The maps whose claims checker c inspects.                               *)
ChecksIn(c) == IF c = Loader THEN epoch ELSE xo[c]

(* The maps whose runtime_config it set to STOPPING.                       *)
StopsIn(c) == IF c = Loader THEN epoch ELSE xe[c]

Checking(c) == pc[c] \in {"claims", "recheck", "delete", "detach"}

StoppingIn(e) == "STOPPING" \in flags[e]

NoPastOn(e, q) == \A r \in Receivers : PastIn(r, e) => QueueOf[r] # q

(* Positions in the list of pins.                                          *)
Positions ==
  /\ pc[Loader] = "pin" => pos[Loader] \in 1..5
  /\ pc[Loader] = "rollback" => pos[Loader] \in 0..4
  /\ pc[Loader] = "unpin" => pos[Loader] \in 1..6
  /\ \A x \in Recoverers : pc[x] = "unpin" => pos[x] \in 1..5

(* What is pinned or attached belongs to the current loader.               *)
CurrentOnly ==
  /\ \A m \in PinNames : pinned[m] \in {0, epoch}
  /\ attached \in {0, epoch}

(* A receiver opens its maps in an order that sandwiches xsk_owners.       *)
OpenOrder ==
  \A r \in Receivers :
    /\ rpc[r] \notin {"idle", "done"} =>
         rfd[r]["xsk_map"] \in 1..epoch
    /\ rpc[r] \notin {"idle", "done", "open_owners"} =>
         /\ rfd[r]["xsk_owners"] \in 1..epoch
         /\ rfd[r]["xsk_map"] <= rfd[r]["xsk_owners"]
    /\ FullyOpened(r) =>
         /\ rfd[r]["runtime_config"] \in 1..epoch
         /\ rfd[r]["xsk_owners"] <= rfd[r]["runtime_config"]

(* The first copy of runtime_config said APPLIED and not STOPPING.         *)
FirstCopy ==
  \A r \in Receivers : (Past(r) \/ rpc[r] \in {"live", "validate", "claim", "reread"})
                         => rflags[r] = {"APPLIED"}

(* A checker published STOPPING first; a recoverer keeps it in its copy.   *)
StoppingFirst ==
  /\ pc[Loader] # "off" => epoch \in Epochs
  /\ Checking(Loader) => StoppingIn(epoch)
  /\ \A x \in Recoverers :
       /\ pc[x] \notin {"off", "end"} => xe[x] \in 1..epoch
       /\ pc[x] \notin {"off", "end", "publish"} =>
            "STOPPING" \in xflags[x] /\ StoppingIn(xe[x])
       /\ pc[x] \notin {"off", "end", "publish", "open"} =>
            xo[x] \in xe[x]..epoch

(* Claims are made by receivers that were started.                         *)
ClaimsByStarted ==
  \A e \in Epochs, q \in Queues :
    claims[e][q] # NoOne => rpc[claims[e][q]] # "idle"

(* A claim goes away under its receiver only once STOPPING is published.   *)
ClaimBeforeReread ==
  \A r \in Receivers :
    rpc[r] = "reread" =>
      \/ claims[rfd[r]["xsk_owners"]][QueueOf[r]] = r
      \/ StoppingIn(rfd[r]["xsk_owners"])

(* Past the re-read the claim stays.                                       *)
ClaimHeld ==
  \A r \in Receivers : \A e \in Epochs :
    PastIn(r, e) => claims[e][QueueOf[r]] = r

(* A checker about to delete a claim deletes that of no such receiver.     *)
DeletesDead ==
  \A c \in Checkers :
    pc[c] = "delete" =>
      /\ cq[c] \in Queues
      /\ NoPastOn(ChecksIn(c), cq[c])
      /\ \/ StoppingIn(ChecksIn(c))
         \/ /\ claims[ChecksIn(c)][cq[c]] # NoOne
            /\ rpc[claims[ChecksIn(c)][cq[c]]] = "done"

(* Nor does a receiver about to release its queue.                         *)
ReleasesOwn ==
  \A r \in Receivers :
    rpc[r] = "release_delete" =>
      \/ claims[rfd[r]["xsk_owners"]][QueueOf[r]] = r
      \/ /\ StoppingIn(rfd[r]["xsk_owners"])
         /\ NoPastOn(rfd[r]["xsk_owners"], QueueOf[r])

(* A checker about to detach knows that nobody is past the re-read.        *)
DetachAlone ==
  \A c \in Checkers :
    (pc[c] = "detach" /\ ChecksIn(c) = StopsIn(c)) =>
      \A r \in Receivers : ~PastIn(r, StopsIn(c))

(* Validation is still true when the socket is registered.                 *)
Validated ==
  \A r \in Receivers :
    rpc[r] \in {"register", "capture"} =>
      /\ attached # 0
      /\ attached = rfd[r]["xsk_map"]
      /\ attached = rfd[r]["runtime_config"]

SocketRegistered ==
  \A r \in Receivers :
    rpc[r] = "capture" => xskmap[rfd[r]["xsk_map"]][QueueOf[r]] = r

IInv ==
  /\ TypeOK
  /\ Positions
  /\ CurrentOnly
  /\ OpenOrder
  /\ FirstCopy
  /\ StoppingFirst
  /\ ClaimsByStarted
  /\ ClaimBeforeReread
  /\ ClaimHeld
  /\ DeletesDead
  /\ ReleasesOwn
  /\ DetachAlone
  /\ Validated
  /\ SocketRegistered
=============================================================================
