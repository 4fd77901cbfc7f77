----------------------------- MODULE HwTimestamp ----------------------------
(***************************************************************************)
(* The netdevice-wide timestamp configuration (include/ace_hwtstamp.h), as *)
(* the loader saves, changes and restores it (BPF/xdp_loader.c), and as    *)
(* xdp_loader --recover restores it after a crash, beside another program  *)
(* (ptp4l, an administrator) that sets it too.                             *)
(*                                                                         *)
(* A configuration is its TX mode and RX filter.  Attaching and detaching  *)
(* native XDP resets the MAC without changing the configuration the driver *)
(* reports, so the two are separate variables.                             *)
(***************************************************************************)
EXTENDS Naturals

CONSTANTS MaxChanges,  \* bound on the changes by other programs
          NoConfig     \* no configuration: a MAC that was reset

ASSUME HwTimestampAssumption == MaxChanges \in Nat

Configs == [tx : {"off", "on"}, rx : {"none", "ptp", "all"}]

ASSUME NoConfigAssumption == NoConfig \notin Configs

VARIABLES
  dev,      \* the configuration SIOCGHWTSTAMP reports
  mac,      \* the one the MAC works with
  attached, \* whether the loader's program is attached
  lpc,      \* control point of the loader
  saved,    \* the loader's state->saved
  effective,\* the loader's state->effective
  preserve, \* the loader's preserve_pins
  runtime,  \* the pinned runtime_config, or NoRuntime
  xpc,      \* control point of the recovery
  baseline, \* what the NIC is to have when nobody measures
  changes,  \* changes by other programs so far
  hidden,   \* one of them could not be seen by the loader
  narrows   \* whether the driver may narrow the requested filter

vars == <<dev, mac, attached, lpc, saved, effective, preserve, runtime, xpc,
          baseline, changes, hidden, narrows>>
loaderVars == <<lpc, saved, effective, preserve>>
otherVars  == <<baseline, changes, hidden, narrows>>

NoRuntime == [saved |-> NoConfig, effective |-> NoConfig]
Runtimes == [saved : Configs, effective : Configs]

LoaderPCs == {"capture", "pin", "attach", "verify", "prepare", "query", "set",
              "rollback", "publish", "ready", "detach", "restore_query",
              "restore_set", "restored", "declined", "failed", "crashed"}
RecoveryPCs == {"off", "detach", "query", "set", "publish", "restored", "declined"}

(* Every variable has its type.                                            *)
TypeOK ==
  /\ dev \in Configs
  /\ mac \in Configs \cup {NoConfig}
  /\ attached \in BOOLEAN
  /\ lpc \in LoaderPCs
  /\ saved \in Configs \cup {NoConfig}
  /\ effective \in Configs \cup {NoConfig}
  /\ preserve \in BOOLEAN
  /\ runtime \in Runtimes \cup {NoRuntime}
  /\ xpc \in RecoveryPCs
  /\ baseline \in Configs
  /\ changes \in 0..MaxChanges
  /\ hidden \in BOOLEAN
  /\ narrows \in BOOLEAN

Init ==
  /\ dev \in Configs
  /\ mac = dev
  /\ attached = FALSE
  /\ lpc = "capture"
  /\ saved = NoConfig
  /\ effective = NoConfig
  /\ preserve = FALSE
  /\ runtime = NoRuntime
  /\ xpc = "off"
  /\ baseline = dev
  /\ changes = 0
  /\ hidden = FALSE
  /\ narrows \in BOOLEAN

RxAll(config) == [config EXCEPT !.rx = "all"]

(* SIOCSHWTSTAMP: what the driver makes of a request.                      *)
Adopted(config) ==
  {config} \cup (IF narrows /\ config.rx = "all"
                 THEN {[config EXCEPT !.rx = "ptp"]} ELSE {})

Set(config) == dev' = config /\ mac' = config

(* runtime_set_hwtstamp and update_runtime_config                          *)
Publish(s, e) == runtime' = [saved |-> s, effective |-> e]

-----------------------------------------------------------------------------
(* The loader.                                                             *)

(* ace_hwtstamp_capture                                                    *)
Capture ==
  /\ lpc = "capture"
  /\ saved' = dev
  /\ effective' = dev
  /\ lpc' = "pin"
  /\ UNCHANGED <<dev, mac, attached, preserve, runtime, xpc, otherVars>>

(* configure_maps and pin_measurement_maps                                 *)
Pin ==
  /\ lpc = "pin"
  /\ Publish(saved, effective)
  /\ lpc' = "attach"
  /\ UNCHANGED <<dev, mac, attached, saved, effective, preserve, xpc, otherVars>>

(* bpf_xdp_attach closes and reopens the device.                           *)
Attach ==
  /\ lpc = "attach"
  /\ attached' = TRUE
  /\ mac' = NoConfig
  /\ lpc' = "verify"
  /\ UNCHANGED <<dev, saved, effective, preserve, runtime, xpc, otherVars>>

(* A configuration that changed since the capture becomes the one to       *)
(* restore, and the start is given up.                                     *)
Verify ==
  /\ lpc = "verify"
  /\ IF dev = saved
       THEN lpc' = "prepare" /\ UNCHANGED <<saved, effective, runtime>>
       ELSE /\ saved' = dev
            /\ effective' = dev
            /\ Publish(dev, dev)
            /\ lpc' = "detach"
  /\ UNCHANGED <<dev, mac, attached, preserve, xpc, otherVars>>

(* Wrong: the TX mode is not kept.                                         *)
PrepareFresh ==
  /\ lpc = "prepare"
  /\ effective' = [tx |-> "off", rx |-> "all"]
  /\ Publish(saved, effective')
  /\ lpc' = "query"
  /\ UNCHANGED <<dev, mac, attached, saved, preserve, xpc, otherVars>>

(* ace_hwtstamp_prepare_rx_all, published as APPLYING.                     *)
Prepare ==
  /\ lpc = "prepare"
  /\ effective' = RxAll(saved)
  /\ Publish(saved, RxAll(saved))
  /\ lpc' = "query"
  /\ UNCHANGED <<dev, mac, attached, saved, preserve, xpc, otherVars>>

(* ace_hwtstamp_apply_prepared_rx_all: -ESTALE if it changed again, ...    *)
ApplyQuery ==
  /\ lpc = "query"
  /\ lpc' = IF dev = saved THEN "set" ELSE "detach"
  /\ UNCHANGED <<dev, mac, attached, saved, effective, preserve, runtime, xpc,
                 otherVars>>

(* ... otherwise it is set; a filter that is not FILTER_ALL is taken back. *)
ApplySet ==
  /\ lpc = "set"
  /\ \E config \in Adopted(effective) :
       /\ Set(config)
       /\ effective' = config
       /\ lpc' = IF config.rx = "all" THEN "publish" ELSE "rollback"
  /\ UNCHANGED <<attached, saved, preserve, runtime, xpc, otherVars>>

ApplyRollback ==
  /\ lpc = "rollback"
  /\ Set(saved)
  /\ effective' = saved
  /\ lpc' = "detach"
  /\ UNCHANGED <<attached, saved, preserve, runtime, xpc, otherVars>>

PublishApplied ==
  /\ lpc = "publish"
  /\ Publish(saved, effective)
  /\ lpc' = "ready"
  /\ UNCHANGED <<dev, mac, attached, saved, effective, preserve, xpc, otherVars>>

(* A stop signal, or an ioctl or map update that fails on the way.         *)
GoOut ==
  /\ lpc \in {"verify", "prepare", "query", "set", "rollback", "publish", "ready"}
  /\ lpc' = "detach"
  /\ UNCHANGED <<dev, mac, attached, saved, effective, preserve, runtime, xpc,
                 otherVars>>

(* detach_if_owned and the export; the pins are kept if the export fails.  *)
Detach ==
  /\ lpc = "detach"
  /\ attached' = FALSE
  /\ mac' = NoConfig
  /\ preserve' \in BOOLEAN
  /\ lpc' = "restore_query"
  /\ UNCHANGED <<dev, saved, effective, runtime, xpc, otherVars>>

(* A live claim, or a detach that fails: nothing is restored.              *)
LeaveAttached ==
  /\ lpc = "detach"
  /\ preserve' = TRUE
  /\ lpc' = "failed"
  /\ UNCHANGED <<dev, mac, attached, saved, effective, runtime, xpc, otherVars>>

(* Wrong: what is on the device is not compared.                           *)
RestoreBlindly ==
  /\ lpc \in {"restore_query", "pin", "attach"}
  /\ lpc' = "restore_set"
  /\ UNCHANGED <<dev, mac, attached, saved, effective, preserve, runtime, xpc,
                 otherVars>>

(* ace_hwtstamp_restore_allow_saved(..., true), also of a start that failed*)
(* before the attach.                                                      *)
RestoreQuery ==
  /\ lpc \in {"restore_query", "pin", "attach"}
  /\ IF dev \in {saved, effective}
       THEN lpc' = "restore_set" /\ UNCHANGED preserve
       ELSE lpc' = "declined" /\ preserve' = (runtime # NoRuntime)
  /\ UNCHANGED <<dev, mac, attached, saved, effective, runtime, xpc, otherVars>>

(* Wrong: a configuration that did not change is not set again.            *)
RestoreIfChanged ==
  /\ lpc = "restore_set"
  /\ IF saved = effective THEN UNCHANGED <<dev, mac>> ELSE Set(saved)
  /\ runtime' = IF preserve THEN runtime ELSE NoRuntime
  /\ lpc' = "restored"
  /\ UNCHANGED <<attached, saved, effective, preserve, xpc, otherVars>>

(* The pins are removed, or get the restored state published.              *)
RestoreSet ==
  /\ lpc = "restore_set"
  /\ \/ /\ Set(saved)
        /\ effective' = saved
        /\ IF preserve THEN Publish(saved, saved) \/ UNCHANGED runtime
                       ELSE runtime' = NoRuntime
        /\ lpc' = "restored"
        /\ UNCHANGED preserve
     \/ /\ preserve' = (runtime # NoRuntime)
        /\ lpc' = "failed"
        /\ UNCHANGED <<dev, mac, effective, runtime>>
  /\ UNCHANGED <<attached, saved, xpc, otherVars>>

(* SIGKILL.                                                                *)
Crash ==
  /\ lpc \notin {"capture", "restored", "declined", "failed", "crashed"}
  /\ lpc' = "crashed"
  /\ UNCHANGED <<dev, mac, attached, saved, effective, preserve, runtime, xpc,
                 otherVars>>

-----------------------------------------------------------------------------
(* recover_pinned_measurement, once the loader is gone.                    *)

LoaderGone == lpc \in {"restored", "declined", "failed", "crashed"}

Recover ==
  /\ xpc \in {"off", "restored", "declined"}
  /\ LoaderGone
  /\ runtime # NoRuntime
  /\ xpc' = "detach"
  /\ UNCHANGED <<dev, mac, attached, loaderVars, runtime, otherVars>>

(* It detaches the program if it is still there.                           *)
RecoverDetach ==
  /\ xpc = "detach"
  /\ attached' = FALSE
  /\ mac' = IF attached THEN NoConfig ELSE mac
  /\ xpc' = "query"
  /\ UNCHANGED <<dev, loaderVars, runtime, otherVars>>

(* Wrong: the saved configuration is not accepted.                         *)
RecoverQueryEffective ==
  /\ xpc = "query"
  /\ xpc' = IF dev = runtime.effective THEN "set" ELSE "declined"
  /\ UNCHANGED <<dev, mac, attached, loaderVars, runtime, otherVars>>

(* hwtstamp_state_from_runtime and the restore.                            *)
RecoverQuery ==
  /\ xpc = "query"
  /\ xpc' = IF dev \in {runtime.saved, runtime.effective} THEN "set" ELSE "declined"
  /\ UNCHANGED <<dev, mac, attached, loaderVars, runtime, otherVars>>

RecoverSet ==
  /\ xpc = "set"
  /\ Set(runtime.saved)
  /\ xpc' = "publish"
  /\ UNCHANGED <<attached, loaderVars, runtime, otherVars>>

(* The restored state is published; the pins go under --cleanup-pins.      *)
RecoverPublish ==
  /\ xpc = "publish"
  /\ \/ Publish(runtime.saved, runtime.saved)
     \/ runtime' = NoRuntime
  /\ xpc' = "restored"
  /\ UNCHANGED <<dev, mac, attached, loaderVars, otherVars>>

(* Any system call that fails, and SIGKILL.                                *)
RecoverFail ==
  /\ xpc \in {"detach", "query", "set", "publish"}
  /\ xpc' = "off"
  /\ UNCHANGED <<dev, mac, attached, loaderVars, runtime, otherVars>>

-----------------------------------------------------------------------------
(* Another program sets the configuration.  The loader cannot see it if it *)
(* falls between a query and the ioctl that follows, or sets just what the *)
(* loader sets.                                                            *)
OtherSets ==
  /\ changes < MaxChanges
  /\ changes' = changes + 1
  /\ \E config \in Configs :
       /\ Set(config)
       /\ baseline' = config
       /\ hidden' = \/ hidden
                    \/ lpc \in {"set", "rollback", "restore_set"}
                    \/ xpc = "set"
                    \/ lpc = "prepare" /\ config = RxAll(saved)
                    \/ config \in ({effective, runtime.effective}
                                     \ {saved, runtime.saved})
  /\ UNCHANGED <<attached, loaderVars, runtime, xpc, narrows>>

LoaderNext ==
  \/ Capture \/ Pin \/ Attach \/ Verify \/ Prepare \/ ApplyQuery \/ ApplySet
  \/ ApplyRollback \/ PublishApplied \/ GoOut \/ Detach \/ LeaveAttached
  \/ RestoreQuery \/ RestoreSet \/ Crash

RecoverNext ==
  \/ Recover \/ RecoverDetach \/ RecoverQuery \/ RecoverSet \/ RecoverPublish
  \/ RecoverFail

Next == LoaderNext \/ RecoverNext \/ OtherSets

Spec == Init /\ [][Next]_vars

-----------------------------------------------------------------------------
(* A loader that is ready timestamps every packet with the TX mode it      *)
(* found, although the attach reset the MAC (apply after attach, in main). *)
ReadyMeansStamping ==
  lpc = "ready" /\ changes = 0 => mac = RxAll(baseline) /\ dev = mac

(* When the loader or the recovery says the configuration is restored, NIC *)
(* and driver have the one that was there before, or the newer one another *)
(* program chose, whatever was attached, detached or killed in between.    *)
RestoredIsBaseline ==
  /\ TypeOK
  /\ (/\ \/ lpc = "restored" /\ xpc = "off"
         \/ LoaderGone /\ xpc = "restored"
      /\ ~hidden)
       => dev = baseline /\ mac = dev

(* A change by another program that the loader could see, to something     *)
(* other than what it will restore anyway, survives every step of the      *)
(* loader and of the recovery: nothing is "knowingly overwritten".         *)
OthersSurvive ==
  [][(/\ changes > 0
      /\ dev = baseline /\ dev \notin {saved, runtime.saved}
      /\ ~hidden')
       => dev' = baseline']_vars

(* "This closes the crash window between changing the device and publishing*)
(* enough state to restore it": on a driver that adopts a request as it is *)
(* the recovery declines to restore only if another program changed the    *)
(* configuration.  (One that narrows it leaves, for a moment, a            *)
(* configuration that is neither the saved nor the published one.)         *)
DeclinesOnlyForOthers == xpc = "declined" /\ ~narrows => changes > 0
=============================================================================
