----------------------------- MODULE Environment ----------------------------
(***************************************************************************)
(* What a receiver run changes on its machine outside its own processes,   *)
(* and takes back: the cpuset partition of the CPUMAP CPU                  *)
(* (monitor/cpu_partition.sh), the CPU governors and the NIC interrupts    *)
(* (monitor/prepare_env.sh, set_irq_affinity.sh) and the interrupt         *)
(* coalescing (monitor/rx_coalesce.sh), as experiment/ace-run.c runs these *)
(* helpers, one at a time.                                                 *)
(*                                                                         *)
(* A helper is a shell script: each write it makes is a step, each write   *)
(* can fail, a stop of the supervisor interrupts it between any two steps  *)
(* (its traps roll back), and a timeout kills it at any step.  Another     *)
(* administrator may start to use the cpuset controller at any time.       *)
(***************************************************************************)
EXTENDS Naturals, Sequences

CONSTANTS Policies,  \* CPUFreq policies
          Irqs,      \* interrupts of the NIC
          Runs,      \* runs of the suite
          MaxFaults  \* bound on failing writes, failed readbacks and timeouts

ASSUME EnvironmentAssumption == Runs \in Nat \ {0} /\ MaxFaults \in Nat

VARIABLES
  ctl,       \* cpuset is in the root's cgroup.subtree_control
  grp,       \* the group /ace-rx-PID
  other,     \* another administrator's use of the controller
  late,      \* that use began between controller_in_use and -cpuset
  procs,     \* whether the group has a live process
  gov, irq,  \* setting of each policy and of each interrupt
  usecs,     \* rx-usecs of the NIC
  state,     \* cpu-partition.state: absent, or the recorded `added`
  before,    \* rx-coalesce-before.txt
  evidence,  \* cpu-partition-active.json, cpu-partition-restored.json
  sup,       \* control point of the supervisor
  run,       \* run of the suite
  attempted, \* x->partition_attempted
  coalesced, \* x->coalesce_active
  stopping,  \* a SIGINT or SIGTERM reached the supervisor
  job, pc,   \* the helper that runs, and its control point
  sh,        \* the helper's shell variables
  term,      \* a SIGTERM is pending for the helper
  faults     \* phase of the supervisor at each fault so far

cgroup == <<ctl, grp, other, late, procs>>
device == <<gov, irq, usecs>>
files  == <<state, before, evidence>>
super  == <<sup, run, attempted, coalesced, stopping>>
helper == <<job, pc, sh, term>>
vars   == <<cgroup, device, files, super, helper, faults>>

Groups == {"none", "empty", "cpus", "isolated", "invalid"}
Values == {"boot", "run", "odd"}
HelperPhases == {"acquire", "prepare", "save", "apply", "restore", "release",
                 "failed_restore", "failed_release", "operator"}
Phases == HelperPhases \cup
          {"check", "join", "run", "cleanup", "failed", "complete", "crashed"}
AcquirePCs == {"state", "enable", "enabled", "mkdir", "made", "cpus", "isolate",
               "verify", "active"}
ReleasePCs == {"start", "member", "rmdir", "root", "in_use", "disable", "json"}
PCs == AcquirePCs \cup ReleasePCs \cup
       {"check", "rollback", "unused", "undo", "read", "governor", "irq", "irq_verify",
        "irq_exit", "irq_done", "prepare_exit", "save", "apply", "readback", "restore",
        "retry", "restored", "ok", "fail"}
Ended == {"ok", "fail"}

(* added, enabled_added, created; GOVERNOR_CHANGED, and the originals       *)
NoShell == [added |-> FALSE, enabled |-> FALSE, created |-> FALSE,
            changed |-> FALSE, killed |-> FALSE, gov |-> [p \in Policies |-> "boot"],
            irq |-> [i \in Irqs |-> "boot"]]

(* Every variable has its type.                                            *)
TypeOK ==
  /\ {ctl, late, procs, attempted, coalesced, stopping, term} \subseteq BOOLEAN
  /\ grp \in Groups
  /\ other \in {"none", "cpus", "isolated"}
  /\ gov \in [Policies -> Values] /\ irq \in [Irqs -> Values]
  /\ usecs \in Values
  /\ state \in {"none", "kept", "added"}
  /\ before \in Values \cup {"none"}
  /\ evidence \subseteq {"active", "restored"}
  /\ sup \in Phases
  /\ run \in 1..Runs
  /\ job \in {"none", "acquire", "prepare", "save", "apply", "restore", "release"}
  /\ pc \in PCs
  /\ DOMAIN sh = DOMAIN NoShell
  /\ faults \in UNION {[1..n -> Phases] : n \in 0..MaxFaults}

Init ==
  /\ ctl \in BOOLEAN
  /\ grp = "none"
  /\ other = "none"
  /\ late = FALSE
  /\ procs = FALSE
  /\ gov = [p \in Policies |-> "boot"]
  /\ irq = [i \in Irqs |-> "boot"]
  /\ usecs = "boot"
  /\ state = "none"
  /\ before = "none"
  /\ evidence = {}
  /\ sup = "check"
  /\ run = 1
  /\ attempted = FALSE
  /\ coalesced = FALSE
  /\ stopping = FALSE
  /\ job = "none"
  /\ pc = "ok"
  /\ sh = NoShell
  /\ term = FALSE
  /\ faults = <<>>

(* cpuset.cpus.effective of the root is the complete set of CPUs.          *)
RootComplete == grp # "isolated" /\ other # "isolated"

(* controller_in_use, over the groups below the root                       *)
InUse == other # "none" \/ (ctl /\ grp \in {"cpus", "isolated", "invalid"})

Fault == Len(faults) < MaxFaults /\ faults' = Append(faults, sup)

-----------------------------------------------------------------------------
(* Steps of a helper.  At(j, p) is the helper j at p, Goto moves it, and   *)
(* Fails is a write that fails: the helper moves to p instead.             *)
At(j, p) == job = j /\ pc = p
Goto(p)  == pc' = p /\ UNCHANGED <<job, sh, term>>
Fails(p) == Fault /\ Goto(p) /\ UNCHANGED <<cgroup, device, files, super>>

(* Writes to the cgroup tree: -cpuset takes the group's settings with it.  *)
SetGroup(g) == grp' = g /\ UNCHANGED <<ctl, other, late, procs>>
Disable ==
  /\ ctl' = FALSE
  /\ grp' = IF grp = "none" THEN "none" ELSE "empty"
  /\ UNCHANGED <<other, late, procs>>

(* acquire_partition up to its traps: the refusals, and `added`            *)
AcquireCheck ==
  /\ At("acquire", "check")
  /\ \/ /\ RootComplete /\ grp = "none" /\ state = "none"
        /\ pc' = "state"
        /\ sh' = [sh EXCEPT !.added = ~ctl]
     \/ /\ ~(RootComplete /\ grp = "none" /\ state = "none")
        /\ pc' = "fail"
        /\ sh' = sh
  /\ UNCHANGED <<cgroup, device, files, super, job, term, faults>>

(* Wrong: ownership is recorded only once the group exists.                *)
AcquireStateLate ==
  /\ At("acquire", "state")
  /\ Goto(IF sh.added THEN "enable" ELSE "mkdir")
  /\ UNCHANGED <<cgroup, device, files, super, faults>>

(* "Record ownership before the first mutation."                           *)
AcquireState ==
  /\ At("acquire", "state")
  /\ \/ /\ state' = IF sh.added THEN "added" ELSE "kept"
        /\ Goto(IF sh.added THEN "enable" ELSE "mkdir")
        /\ UNCHANGED <<cgroup, device, before, evidence, super, faults>>
     \/ Fails("rollback")

(* +cpuset, and enabled_added=1 in a step of its own                       *)
AcquireEnable ==
  \/ /\ At("acquire", "enable")
     /\ ctl' = TRUE
     /\ Goto("enabled")
     /\ UNCHANGED <<grp, other, late, procs, device, files, super, faults>>
  \/ /\ At("acquire", "enable")
     /\ Fails("rollback")
  \/ /\ At("acquire", "enabled")
     /\ pc' = "mkdir"
     /\ sh' = [sh EXCEPT !.enabled = TRUE]
     /\ UNCHANGED <<cgroup, device, files, super, job, term, faults>>

(* mkdir, and created=1 in a step of its own                               *)
AcquireMkdir ==
  \/ /\ At("acquire", "mkdir")
     /\ SetGroup("empty")
     /\ Goto("made")
     /\ UNCHANGED <<device, files, super, faults>>
  \/ /\ At("acquire", "mkdir")
     /\ Fails("rollback")
  \/ /\ At("acquire", "made")
     /\ pc' = "cpus"
     /\ sh' = [sh EXCEPT !.created = TRUE]
     /\ UNCHANGED <<cgroup, device, files, super, job, term, faults>>

(* cpuset.cpus and cpuset.cpus.partition; the kernel may accept the        *)
(* partition as invalid.                                                   *)
AcquireIsolate ==
  \/ /\ At("acquire", "cpus")
     /\ SetGroup("cpus")
     /\ Goto("isolate")
     /\ UNCHANGED <<device, files, super, faults>>
  \/ /\ At("acquire", "isolate")
     /\ \/ SetGroup("isolated") /\ UNCHANGED faults
        \/ SetGroup("invalid") /\ Fault
     /\ Goto("verify")
     /\ UNCHANGED <<device, files, super>>
  \/ /\ job = "acquire" /\ pc \in {"cpus", "isolate"}
     /\ Fails("rollback")

(* Wrong: the partition is not read back.                                  *)
AcquireVerifySkipped ==
  \/ /\ At("acquire", "verify")
     /\ Goto("active")
     /\ UNCHANGED <<cgroup, device, files, super, faults>>
  \/ /\ At("acquire", "active")
     /\ evidence' = evidence \cup {"active"}
     /\ Goto("ok")
     /\ UNCHANGED <<cgroup, device, state, before, super, faults>>

(* The readback, and cpu-partition-active.json                             *)
AcquireVerify ==
  \/ /\ At("acquire", "verify")
     /\ Goto(IF grp = "isolated" /\ other # "isolated" THEN "active" ELSE "rollback")
     /\ UNCHANGED <<cgroup, device, files, super, faults>>
  \/ /\ At("acquire", "active")
     /\ evidence' = evidence \cup {"active"}
     /\ Goto("ok")
     /\ UNCHANGED <<cgroup, device, state, before, super, faults>>
  \/ /\ At("acquire", "active")
     /\ Fails("rollback")

(* rollback: the whole release once the group is ours, else the controller *)
Rollback ==
  /\ job = "acquire"
  /\ \/ /\ pc = "rollback"
        /\ Goto(CASE sh.created -> "start"
                  [] ~sh.created /\ sh.enabled -> "unused"
                  [] OTHER -> "fail")
        /\ UNCHANGED <<cgroup, super, faults>>
     \/ /\ pc = "unused"
        /\ Goto(IF InUse THEN "fail" ELSE "undo")
        /\ UNCHANGED <<cgroup, super, faults>>
     \/ /\ pc = "undo"
        /\ \/ Disable /\ Goto("fail") /\ UNCHANGED <<super, faults>>
           \/ Fails("fail")
  /\ UNCHANGED <<device, files>>

-----------------------------------------------------------------------------
(* release_partition, by the release helper or from rollback               *)
Releasing == job \in {"release", "acquire"}
Released == IF job = "acquire" THEN "fail" ELSE "ok"

(* Wrong: a missing group is taken for a completed release.                *)
ReleaseStartGroup ==
  /\ Releasing /\ pc = "start"
  /\ Goto(CASE grp = "none" -> Released
            [] state = "none" /\ grp # "none" -> "fail"
            [] OTHER -> IF procs THEN "fail" ELSE "member")
  /\ UNCHANGED <<cgroup, device, files, super, faults>>

(* The ownership state, and the processes of the group                     *)
ReleaseStart ==
  /\ Releasing /\ pc = "start"
  /\ Goto(CASE state = "none" -> IF grp = "none" THEN Released ELSE "fail"
            [] state # "none" /\ grp = "none" -> "root"
            [] OTHER -> IF procs THEN "fail" ELSE "member")
  /\ UNCHANGED <<cgroup, device, files, super, faults>>

(* cpuset.cpus.partition exists only under the controller.                 *)
ReleaseMember ==
  /\ Releasing /\ pc = "member"
  /\ \/ /\ ctl
        /\ SetGroup(IF grp = "empty" THEN "empty" ELSE "cpus")
        /\ Goto("rmdir")
        /\ UNCHANGED <<device, files, super, faults>>
     \/ /\ ~ctl
        /\ Goto("fail")
        /\ UNCHANGED <<cgroup, device, files, super, faults>>
     \/ Fails("fail")

ReleaseRmdir ==
  /\ Releasing /\ pc = "rmdir"
  /\ \/ /\ SetGroup("none")
        /\ Goto("root")
        /\ UNCHANGED <<device, files, super, faults>>
     \/ Fails("fail")

ReleaseRoot ==
  /\ Releasing /\ pc = "root"
  /\ Goto(CASE ~RootComplete -> "fail"
            [] RootComplete /\ state = "added" /\ ctl -> "in_use"
            [] OTHER -> "json")
  /\ UNCHANGED <<cgroup, device, files, super, faults>>

(* Wrong: the controller is removed whoever uses it.                       *)
ReleaseControllerAlways ==
  /\ Releasing
  /\ \/ pc = "in_use" /\ Goto("disable") /\ UNCHANGED <<cgroup, faults>>
     \/ pc = "disable" /\ Disable /\ Goto("json") /\ UNCHANGED faults
  /\ UNCHANGED <<device, files, super>>

(* controller_in_use, and -cpuset in a step of its own                     *)
ReleaseController ==
  /\ Releasing
  /\ \/ /\ pc = "in_use"
        /\ Goto(IF InUse THEN "json" ELSE "disable")
        /\ UNCHANGED <<cgroup, faults>>
     \/ /\ pc = "disable"
        /\ \/ Disable /\ Goto("json") /\ UNCHANGED faults
           \/ Fails("fail")
  /\ UNCHANGED <<device, files, super>>

(* cpu-partition-restored.json, kept when it exists                        *)
ReleaseJson ==
  /\ Releasing /\ pc = "json"
  /\ \/ /\ evidence' = evidence \cup {"restored"}
        /\ Goto(Released)
        /\ UNCHANGED <<cgroup, device, state, before, super, faults>>
     \/ "restored" \notin evidence /\ Fails("fail")

-----------------------------------------------------------------------------
(* prepare_env.sh with set_irq_affinity.sh.                                *)

(* The originals (sh.gov, sh.irq) are read before the traps are set.       *)
PrepareRead ==
  /\ At("prepare", "read")
  /\ \/ /\ Goto("governor")
        /\ UNCHANGED <<cgroup, device, files, super, faults>>
     \/ Fails("fail")

(* Wrong: GOVERNOR_CHANGED is set after the write.                         *)
PrepareGovernorUnmarked ==
  /\ At("prepare", "governor")
  /\ \/ \E p \in Policies :
          /\ gov[p] # "run"
          /\ gov' = [gov EXCEPT ![p] = "run"]
          /\ Goto("governor")
          /\ UNCHANGED <<cgroup, irq, usecs, files, super, faults>>
     \/ /\ \A p \in Policies : gov[p] = "run"
        /\ pc' = "irq"
        /\ sh' = [sh EXCEPT !.changed = TRUE]
        /\ UNCHANGED <<cgroup, device, files, super, job, term, faults>>
     \/ Fails("prepare_exit")

(* Each policy: GOVERNOR_CHANGED, the write and its readback               *)
PrepareGovernor ==
  /\ At("prepare", "governor")
  /\ \/ \E p \in Policies :
          /\ gov[p] # "run"
          /\ gov' = [gov EXCEPT ![p] = "run"]
          /\ sh' = [sh EXCEPT !.changed = TRUE]
          /\ UNCHANGED <<cgroup, irq, usecs, files, super, job, pc, term, faults>>
     \/ /\ \A p \in Policies : gov[p] = "run"
        /\ Goto("irq")
        /\ UNCHANGED <<cgroup, device, files, super, faults>>
     \/ Fails("prepare_exit")

(* Each interrupt is written, even when unchanged, then all are read back. *)
PrepareIrq ==
  \/ /\ At("prepare", "irq")
     /\ \/ \E i \in Irqs :
             /\ irq[i] # "run"
             /\ irq' = [irq EXCEPT ![i] = "run"]
             /\ Goto("irq")
             /\ UNCHANGED <<cgroup, gov, usecs, files, super, faults>>
        \/ /\ \A i \in Irqs : irq[i] = "run"
           /\ Goto("irq_verify")
           /\ UNCHANGED <<cgroup, device, files, super, faults>>
        \/ Fails("irq_exit")
  \/ /\ At("prepare", "irq_verify")
     /\ \/ /\ Goto("irq_done")
           /\ UNCHANGED <<cgroup, device, files, super, faults>>
        \/ Fails("irq_exit")

(* irq_exit with restore_irq_requests, prepare_exit, and GOVERNOR_CHANGED=0 *)
PrepareExit ==
  /\ job = "prepare"
  /\ \/ /\ pc = "irq_exit"
        /\ irq' = sh.irq
        /\ Goto("prepare_exit")
        /\ UNCHANGED <<gov, usecs>>
     \/ /\ pc = "prepare_exit"
        /\ gov' = IF sh.changed THEN sh.gov ELSE gov
        /\ Goto("fail")
        /\ UNCHANGED <<irq, usecs>>
     \/ /\ pc = "irq_done"
        /\ Goto("ok")
        /\ UNCHANGED device
  /\ UNCHANGED <<cgroup, files, super, faults>>

-----------------------------------------------------------------------------
(* rx_coalesce.sh: the driver may quantise what is written, so that it     *)
(* reads back less.                                                        *)
SetUsecs(v) == usecs' \in {v, "odd"} /\ UNCHANGED <<gov, irq>>

Save ==
  /\ At("save", "save")
  /\ \/ /\ before' = usecs
        /\ Goto("ok")
        /\ UNCHANGED <<cgroup, device, state, evidence, super, faults>>
     \/ Fails("fail")

Apply ==
  \/ /\ At("apply", "apply")
     /\ before # "none"
     /\ SetUsecs("run")
     /\ Goto("readback")
     /\ UNCHANGED <<cgroup, files, super, faults>>
  \/ /\ At("apply", "apply")
     /\ Fails("fail")
  \/ /\ At("apply", "readback")
     /\ Goto(IF usecs = "run" THEN "ok" ELSE "fail")
     /\ UNCHANGED <<cgroup, device, files, super, faults>>

(* Written again with one more when the readback is quantised downwards    *)
Restore ==
  \/ /\ At("restore", "restore")
     /\ \/ before \in {"none", usecs} /\ Goto("restored") /\ UNCHANGED device
        \/ before \notin {"none", usecs} /\ SetUsecs(before) /\ Goto("retry")
     /\ UNCHANGED <<cgroup, files, super, faults>>
  \/ /\ At("restore", "retry")
     /\ usecs' = before
     /\ Goto("restored")
     /\ UNCHANGED <<cgroup, gov, irq, files, super, faults>>
  \/ /\ At("restore", "restored")
     /\ Goto(IF before \in {"none", usecs} THEN "ok" ELSE "fail")
     /\ UNCHANGED <<cgroup, device, files, super, faults>>
  \/ /\ job = "restore" /\ pc \in {"restore", "retry"}
     /\ before \notin {"none", usecs}
     /\ Fails("fail")

HelperStep ==
  \/ AcquireCheck \/ AcquireState \/ AcquireEnable \/ AcquireMkdir
  \/ AcquireIsolate \/ AcquireVerify \/ Rollback
  \/ ReleaseStart \/ ReleaseMember \/ ReleaseRmdir \/ ReleaseRoot
  \/ ReleaseController \/ ReleaseJson
  \/ PrepareRead \/ PrepareGovernor \/ PrepareIrq \/ PrepareExit
  \/ Save \/ Apply \/ Restore

-----------------------------------------------------------------------------
(* Signals to the helper.  acquire_partition runs in a subshell: SIGTERM   *)
(* ends its parent at once and the subshell at its trap; the supervisor    *)
(* adopts the subshell and sends SIGTERM again, which ends a rollback (its *)
(* traps are reset) wherever it is.  The coalescing helper has no traps.   *)
InRollback == pc \in ReleasePCs \cup {"rollback", "unused", "undo"}

TermTo ==
  CASE job = "acquire" /\ pc \in AcquirePCs -> {"rollback"}
    [] job = "acquire" /\ InRollback        -> {"fail"}
    [] job = "prepare" /\ pc \in {"governor", "irq_done"} -> {"prepare_exit"}
    [] job = "prepare" /\ pc \in {"irq", "irq_verify"} -> {"irq_exit"}
    [] job = "prepare" /\ pc = "irq_exit"   -> {"prepare_exit"}
    [] OTHER -> {"fail"}

Term ==
  /\ term /\ pc \notin Ended
  /\ pc' \in TermTo
  /\ term' = (job = "acquire")
  /\ UNCHANGED <<cgroup, device, files, super, job, sh, faults>>

(* wait_child's timeout: SIGKILL to the helper's process group             *)
Timeout ==
  /\ sup \in HelperPhases \cup {"cleanup"}
  /\ sup # "operator"
  /\ pc \notin Ended
  /\ Fault
  /\ pc' = "fail"
  /\ sh' = [sh EXCEPT !.killed = TRUE]
  /\ UNCHANGED <<cgroup, device, files, super, job, term>>

-----------------------------------------------------------------------------
(* The supervisor.                                                         *)
Start(j, p) ==
  /\ job' = j /\ pc' = p /\ term' = FALSE
  /\ sh' = [NoShell EXCEPT !.gov = gov, !.irq = irq]

(* prepare_environment's check and reserve_cpu_partition, which sets       *)
(* partition_attempted before the helper runs                              *)
Reserve ==
  /\ sup = "check"
  /\ \/ /\ RootComplete /\ ~stopping
        /\ sup' = "acquire"
        /\ attempted' = TRUE
        /\ Start("acquire", "check")
     \/ /\ ~RootComplete \/ stopping
        /\ sup' = "cleanup"
        /\ UNCHANGED <<attempted, helper>>
  /\ UNCHANGED <<cgroup, device, files, run, coalesced, stopping, faults>>

(* The next helper of the run, after one that succeeded                    *)
Continue ==
  /\ pc = "ok"
  /\ \/ sup = "acquire" /\ sup' = "prepare" /\ Start("prepare", "read")
        /\ UNCHANGED <<attempted, coalesced>>
     \/ sup = "prepare" /\ sup' = "save" /\ Start("save", "save")
        /\ UNCHANGED <<attempted, coalesced>>
     \/ sup = "save" /\ sup' = "join" /\ coalesced' = TRUE
        /\ UNCHANGED <<attempted, helper>>
     \/ sup = "apply" /\ sup' = "run"
        /\ UNCHANGED <<attempted, coalesced, helper>>
     \/ sup = "restore" /\ sup' = "release" /\ coalesced' = FALSE
        /\ Start("release", "start") /\ UNCHANGED attempted
     \/ sup = "release" /\ sup' = "complete" /\ attempted' = FALSE
        /\ UNCHANGED <<coalesced, helper>>
  /\ UNCHANGED <<cgroup, device, files, run, stopping, faults>>

(* The receiver of the CPUMAP flow enters the group; coalescing is applied *)
(* after the receivers are ready.                                          *)
Join ==
  /\ sup = "join"
  /\ procs' = TRUE
  /\ sup' = "apply"
  /\ Start("apply", "apply")
  /\ UNCHANGED <<ctl, grp, other, late, device, files, run, attempted, coalesced,
                 stopping, faults>>

(* Wrong: the receiver of the group is not waited for.                     *)
StopPipelineEarly ==
  /\ sup = "run" /\ ~stopping
  /\ sup' = "restore"
  /\ Start("restore", "restore")
  /\ UNCHANGED <<cgroup, device, files, run, attempted, coalesced, stopping, faults>>

(* The receivers and the loader have stopped; coalescing is restored.      *)
StopPipeline ==
  /\ sup = "run" /\ ~stopping
  /\ procs' = FALSE
  /\ sup' = "restore"
  /\ Start("restore", "restore")
  /\ UNCHANGED <<ctl, grp, other, late, device, files, run, attempted, coalesced,
                 stopping, faults>>

(* A helper that failed, or a failure of the run                           *)
Fail ==
  /\ \/ sup \in {"acquire", "prepare", "save", "apply", "restore", "release"}
        /\ pc = "fail"
     \/ sup \in {"join", "run"}
  /\ sup' = "cleanup"
  /\ UNCHANGED <<cgroup, device, files, run, attempted, coalesced, stopping,
                 helper, faults>>

(* wait_child sees a stop, unless the helper is a restoration;             *)
(* cleanup_children then sends SIGTERM.                                    *)
NoticeStop ==
  /\ stopping
  /\ sup \in {"acquire", "prepare", "save", "apply"}
  /\ sup' = "cleanup"
  /\ term' = (pc \notin Ended)
  /\ UNCHANGED <<cgroup, device, files, run, attempted, coalesced, stopping,
                 job, pc, sh, faults>>

(* cleanup_children: every child has ended, then the coalescing            *)
Cleanup ==
  /\ sup = "cleanup" /\ pc \in Ended
  /\ procs' = FALSE
  /\ \/ coalesced /\ sup' = "failed_restore" /\ Start("restore", "restore")
     \/ ~coalesced /\ sup' = "failed_release" /\ Start("none", "ok")
  /\ UNCHANGED <<ctl, grp, other, late, device, files, run, attempted, coalesced,
                 stopping, faults>>

(* Wrong: the partition is released only when the helper had succeeded.    *)
FailedReleaseIfActive ==
  \/ /\ sup = "failed_restore" /\ pc \in Ended
     /\ sup' = "failed_release"
     /\ coalesced' = (pc = "fail")
     /\ Start("none", "ok")
     /\ UNCHANGED <<cgroup, device, files, run, attempted, stopping, faults>>
  \/ /\ sup = "failed_release" /\ pc \in Ended
     /\ \/ /\ attempted /\ job # "release" /\ "active" \in evidence
           /\ Start("release", "start")
           /\ UNCHANGED <<sup, attempted>>
        \/ /\ ~attempted \/ job = "release" \/ "active" \notin evidence
           /\ sup' = "failed"
           /\ attempted' = (attempted /\ pc = "fail")
           /\ UNCHANGED helper
     /\ UNCHANGED <<cgroup, device, files, run, coalesced, stopping, faults>>

(* main's failure path: restore_cpu_partition when it was attempted        *)
FailedRelease ==
  \/ /\ sup = "failed_restore" /\ pc \in Ended
     /\ sup' = "failed_release"
     /\ coalesced' = (pc = "fail")
     /\ Start("none", "ok")
     /\ UNCHANGED <<cgroup, device, files, run, attempted, stopping, faults>>
  \/ /\ sup = "failed_release" /\ pc \in Ended
     /\ \/ /\ attempted /\ job # "release"
           /\ Start("release", "start")
           /\ UNCHANGED <<sup, attempted>>
        \/ /\ ~attempted \/ job = "release"
           /\ sup' = "failed"
           /\ attempted' = (attempted /\ pc = "fail")
           /\ UNCHANGED helper
     /\ UNCHANGED <<cgroup, device, files, run, coalesced, stopping, faults>>

(* begin_run: a new directory, so new files                                *)
NextRun ==
  /\ sup = "complete" /\ run < Runs
  /\ run' = run + 1
  /\ sup' = "check"
  /\ state' = "none" /\ before' = "none" /\ evidence' = {}
  /\ UNCHANGED <<cgroup, device, attempted, coalesced, stopping, helper, faults>>

Stop ==
  /\ ~stopping /\ sup \notin {"failed", "crashed", "operator", "complete"}
  /\ stopping' = TRUE
  /\ UNCHANGED <<cgroup, device, files, sup, run, attempted, coalesced, helper, faults>>

(* The supervisor is killed; a helper and the receiver go on.              *)
Crash ==
  /\ sup \notin {"failed", "complete", "crashed", "operator"}
  /\ sup' = "crashed"
  /\ UNCHANGED <<cgroup, device, files, run, attempted, coalesced, stopping,
                 helper, faults>>

(* cpu_partition.sh release, run by hand once the helper has ended         *)
OperatorRelease ==
  /\ sup = "crashed" \/ (sup = "operator" /\ pc = "fail")
  /\ pc \in Ended
  /\ state # "none"
  /\ sup' = "operator"
  /\ Start("release", "start")
  /\ UNCHANGED <<cgroup, device, files, run, attempted, coalesced, stopping, faults>>

ReceiverEnds ==
  /\ sup \in {"crashed", "operator"} /\ procs
  /\ procs' = FALSE
  /\ UNCHANGED <<ctl, grp, other, late, device, files, super, helper, faults>>

(* Another administrator enables and uses the controller.                  *)
OtherUse ==
  /\ other = "none"
  /\ other' \in {"cpus", "isolated"}
  /\ ctl' = TRUE
  /\ late' = (late \/ pc \in {"disable", "undo"})
  /\ UNCHANGED <<grp, procs, device, files, super, helper, faults>>

(* Nothing is left to do.                                                  *)
Finished ==
  /\ \/ sup = "complete" /\ run = Runs
     \/ sup = "failed"
     \/ sup \in {"crashed", "operator"} /\ pc \in Ended
  /\ UNCHANGED vars

Supervisor ==
  \/ Reserve \/ Continue \/ Join \/ StopPipeline \/ Fail \/ NoticeStop
  \/ Cleanup \/ FailedRelease \/ NextRun

Next ==
  \/ HelperStep \/ Term \/ Timeout \/ Supervisor \/ Stop \/ Crash
  \/ OperatorRelease \/ ReceiverEnds \/ OtherUse \/ Finished

Spec == Init /\ [][Next]_vars

-----------------------------------------------------------------------------
(* Properties.                                                             *)

(* A group or a controller enabled by the helper always has its ownership  *)
(* state on disk, so that a later release may remove it: acquire_partition *)
(* records ownership before the first mutation, whatever stops it.         *)
OwnershipRecorded ==
  /\ TypeOK
  /\ grp # "none" \/ (job = "acquire" /\ sh.enabled) => state # "none"

(* From the environment's preparation until the pipeline has stopped, the  *)
(* CPUMAP CPU is isolated in the group, and the evidence says so: neither  *)
(* a fault, nor another administrator, nor a helper in between undoes it.  *)
ReservedWhileRunning ==
  sup \in {"prepare", "save", "join", "apply", "run", "restore"} =>
    ctl /\ grp = "isolated" /\ "active" \in evidence

(* A release that succeeds has removed the group and, unless someone else  *)
(* uses it, the controller it had enabled, whichever part of it an earlier *)
(* rollback or an interrupted release had already done.                    *)
ReleaseIsTrue ==
  job = "release" /\ pc = "ok" =>
    /\ grp = "none"
    /\ state = "added" /\ ctl => other # "none"
    /\ state # "none" => "restored" \in evidence

(* A release fails, when no write of it fails, only for a cause: a live    *)
(* receiver when run by hand, an administrator's own isolated CPUs, or a   *)
(* group whose controller is gone.  The supervisor never meets the first:  *)
(* it stops its children before it releases.                               *)
ReleaseFailsForCause ==
  [][job = "release" /\ pc \notin Ended /\ pc' = "fail" /\ faults' = faults =>
       \/ sup = "operator" /\ procs
       \/ other = "isolated"
       \/ grp = "empty" /\ ~ctl]_vars

(* Another administrator's use of the controller survives every rollback   *)
(* and release, unless it began between controller_in_use and the write.   *)
OthersSurvive ==
  other # "none" /\ ~late => ctl

(* A helper that prepares the environment and fails, without being killed  *)
(* and in no second adversity, leaves every governor as it was and the     *)
(* interrupts all as they were or all applied.                             *)
PrepareAllOrNothing ==
  job = "prepare" /\ pc = "fail" /\ ~sh.killed /\ (faults = <<>> \/ ~stopping) =>
    gov = sh.gov /\ (irq = sh.irq \/ \A i \in Irqs : irq[i] = "run")

(* A completed run has returned the CPU, the coalescing and its receiver,  *)
(* and holds the evidence of the reservation and of its return.  A failed  *)
(* run has returned them whenever the restorations of the failure path     *)
(* meet no fault themselves: whatever failed, was stopped or was killed    *)
(* before, at whichever step.                                              *)
EndRestores ==
  /\ sup = "complete" =>
       /\ grp = "none" /\ ~procs
       /\ usecs = "boot"
       /\ evidence = {"active", "restored"}
  /\ (/\ sup = "failed"
      /\ \A n \in DOMAIN faults : faults[n] \notin {"failed_restore", "failed_release"})
       => /\ grp \in {"none", "empty"} /\ ~procs
          /\ usecs = "boot"
          /\ ~attempted => grp = "none"

(* "test_invalid_partition_and_signal_roll_back": a stop leaves no group   *)
(* behind (tests/test_cpu_partition.py).                                   *)
StopRemovesGroup ==
  sup = "failed" /\ faults = <<>> => grp = "none"

====
