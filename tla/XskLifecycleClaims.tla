------------------------- MODULE XskLifecycleClaims -------------------------
(***************************************************************************)
(* First the part of IInv that needs nobody's claims: which loader's       *)
(* objects are pinned and attached, the order in which a receiver opens    *)
(* its maps, and STOPPING published in a runtime_config before its claims  *)
(* are checked.  Then who may change a claim: a receiver that passed its   *)
(* second reading of runtime_config holds its queue until it releases it,  *)
(* and deletes only a claim of its own.                                    *)
(***************************************************************************)
EXTENDS XskLifecycleTypes

(* Zenon is tried first on every leaf, the SMT solver on what it leaves.   *)
USE ZenonT(5), SMTT(30)

-----------------------------------------------------------------------------
(* Objects and STOPPING.                                                   *)

(* A receiver changes the control point and the memory of nobody else.     *)
LEMMA ReceiverLocal ==
  ASSUME TypeOK, NEW r \in Receivers, ReceiverNext(r), NEW s \in Receivers, s # r
  PROVE  rpc'[s] = rpc[s] /\ rfd'[s] = rfd[s] /\ rflags'[s] = rflags[s]
  <1> USE DEF TypeOK, ReceiverType, ReceiverGoto, ReceiverExit
  <1>1. CASE ReceiverOpenMaps(r)
    BY <1>1 DEF ReceiverOpenMaps, ReceiverOpen
  <1>2. CASE ReceiverRead(r)
    BY <1>2 DEF ReceiverRead
  <1>3. CASE ReceiverRequireLive(r, "live", "validate")
    BY <1>3 DEF ReceiverRequireLive
  <1>4. CASE ReceiverValidate(r, "validate", "claim")
    BY <1>4 DEF ReceiverValidate
  <1>5. CASE ReceiverClaim(r)
    BY <1>5 DEF ReceiverClaim
  <1>6. CASE ReceiverReread(r)
    BY <1>6 DEF ReceiverReread
  <1>7. CASE ReceiverRequireLive(r, "live2", "validate2")
    BY <1>7 DEF ReceiverRequireLive
  <1>8. CASE ReceiverValidate(r, "validate2", "register")
    BY <1>8 DEF ReceiverValidate
  <1>9. CASE ReceiverRegister(r)
    BY <1>9 DEF ReceiverRegister
  <1>10. CASE ReceiverOut(r)
    BY <1>10 DEF ReceiverOut
  <1>11. CASE ReceiverClose(r)
    BY <1>11 DEF ReceiverClose
  <1>12. CASE ReceiverRelease(r)
    BY <1>12 DEF ReceiverRelease
  <1>13. CASE ReceiverReleaseDelete(r)
    BY <1>13 DEF ReceiverReleaseDelete
  <1>14. CASE ReceiverCrash(r)
    BY <1>14 DEF ReceiverCrash
  <1> QED
    BY <1>1, <1>2, <1>3, <1>4, <1>5, <1>6, <1>7, <1>8, <1>9, <1>10,
       <1>11, <1>12, <1>13, <1>14
    DEF ReceiverNext

(* A recovery changes the control point and the memory of no other process *)
(* that inspects claims.                                                   *)
LEMMA RecoverLocal ==
  ASSUME TypeOK, NEW x \in Recoverers, RecoverNext(x), NEW c \in Checkers, c # x
  PROVE  pc'[c] = pc[c] /\ cq'[c] = cq[c]
  <1> USE DEF TypeOK, CheckerType, Checkers, Goto, Exit, RecoverEnd
  <1>1. CASE RecoverRead(x)
    BY <1>1 DEF RecoverRead
  <1>2. CASE RecoverPublishStopping(x)
    BY <1>2 DEF RecoverPublishStopping
  <1>3. CASE RecoverOpen(x)
    BY <1>3 DEF RecoverOpen
  <1>4. CASE RecoverDetach(x)
    BY <1>4 DEF RecoverDetach
  <1>5. CASE RecoverRestore(x)
    BY <1>5 DEF RecoverRestore
  <1>6. CASE RecoverExport(x)
    BY <1>6 DEF RecoverExport
  <1>7. CASE RecoverUnpin(x)
    BY <1>7 DEF RecoverUnpin
  <1>8. CASE RecoverExit(x)
    BY <1>8 DEF RecoverExit
  <1>9. CASE InspectClaims(x, xo[x])
    BY <1>9 DEF InspectClaims
  <1>10. CASE ClaimVanished(x, xo[x])
    BY <1>10 DEF ClaimVanished
  <1>11. CASE DeleteClaim(x, xo[x])
    BY <1>11 DEF DeleteClaim
  <1> QED
    BY <1>1, <1>2, <1>3, <1>4, <1>5, <1>6, <1>7, <1>8, <1>9, <1>10,
       <1>11
    DEF RecoverNext

(* Nor does the loader.                                                    *)
LEMMA LoaderLocal ==
  ASSUME TypeOK, LoaderNext, NEW x \in Recoverers
  PROVE  pc'[x] = pc[x] /\ cq'[x] = cq[x]
  <1> USE ConstantsAssumption DEF TypeOK, CheckerType, Checkers, Goto, Exit
  <1>1. CASE LoaderStart
    BY <1>1 DEF LoaderStart
  <1>2. CASE LoaderPin
    BY <1>2 DEF LoaderPin
  <1>3. CASE LoaderRollbackPin
    BY <1>3 DEF LoaderRollbackPin
  <1>4. CASE LoaderGiveUp
    BY <1>4 DEF LoaderGiveUp
  <1>5. CASE LoaderAttach
    BY <1>5 DEF LoaderAttach
  <1>6. CASE LoaderPublishApplying
    BY <1>6 DEF LoaderPublishApplying
  <1>7. CASE LoaderPublishApplied
    BY <1>7 DEF LoaderPublishApplied
  <1>8. CASE LoaderReady
    BY <1>8 DEF LoaderReady
  <1>9. CASE LoaderAbort
    BY <1>9 DEF LoaderAbort
  <1>10. CASE LoaderStop
    BY <1>10 DEF LoaderStop
  <1>11. CASE LoaderPublishStopping
    BY <1>11 DEF LoaderPublishStopping
  <1>12. CASE LoaderLeaveAttached
    BY <1>12 DEF LoaderLeaveAttached
  <1>13. CASE LoaderDetach
    BY <1>13 DEF LoaderDetach
  <1>14. CASE LoaderExport
    BY <1>14 DEF LoaderExport
  <1>15. CASE LoaderRestore
    BY <1>15 DEF LoaderRestore
  <1>16. CASE LoaderUnpin
    BY <1>16 DEF LoaderUnpin
  <1>17. CASE LoaderCrash
    BY <1>17 DEF LoaderCrash
  <1>18. CASE InspectClaims(Loader, epoch)
    BY <1>18 DEF InspectClaims
  <1>19. CASE ClaimVanished(Loader, epoch)
    BY <1>19 DEF ClaimVanished
  <1>20. CASE DeleteClaim(Loader, epoch)
    BY <1>20 DEF DeleteClaim
  <1> QED
    BY <1>1, <1>2, <1>3, <1>4, <1>5, <1>6, <1>7, <1>8, <1>9, <1>10,
       <1>11, <1>12, <1>13, <1>14, <1>15, <1>16, <1>17, <1>18, <1>19,
       <1>20
    DEF LoaderNext

-----------------------------------------------------------------------------
(* CurrentOnly: a loader starts only when nothing is pinned or attached.   *)
LEMMA CurrentOnlyStep == TypeOK /\ CurrentOnly /\ [Next]_vars => CurrentOnly'
  <1> SUFFICES ASSUME TypeOK, CurrentOnly, [Next]_vars PROVE CurrentOnly'
    OBVIOUS
  <1> USE ConstantsAssumption DEF TypeOK, CurrentOnly, KernelType
  <1>1. CASE LoaderNext
    <2>1. CASE LoaderStart
      BY <2>1 DEF LoaderStart
    <2>2. CASE LoaderPin
      BY <2>2 DEF LoaderPin, loaderVars
    <2>3. CASE LoaderRollbackPin
      BY <2>3 DEF LoaderRollbackPin, loaderVars
    <2>4. CASE LoaderUnpin
      BY <2>4 DEF LoaderUnpin
    <2>5. CASE LoaderAttach
      BY <2>5 DEF LoaderAttach, loaderVars
    <2>6. CASE LoaderDetach
      BY <2>6 DEF LoaderDetach, loaderVars
    <2>7. CASE UNCHANGED <<epoch, pinned, attached>>
      BY <2>7
    <2> QED
      BY <1>1, <2>1, <2>2, <2>3, <2>4, <2>5, <2>6, <2>7, LoaderChanges
  <1>2. ASSUME NEW x \in Recoverers, RecoverNext(x) PROVE CurrentOnly'
    <2>1. CASE RecoverUnpin(x)
      <3>1. /\ pinned' = [pinned EXCEPT ![Pins[pos[x]]] = 0]
            /\ UNCHANGED <<epoch, attached>>
        BY <2>1 DEF RecoverUnpin, loaderVars
      <3> QED
        BY <3>1
    <2>2. CASE RecoverDetach(x)
      BY <2>2 DEF RecoverDetach, loaderVars
    <2>3. CASE UNCHANGED <<epoch, pinned, attached>>
      BY <2>3
    <2> QED
      BY <1>2, <2>1, <2>2, <2>3, RecoverChanges DEF loaderVars
  <1>3. ASSUME NEW r \in Receivers, ReceiverNext(r) PROVE CurrentOnly'
    BY <1>3, ReceiverChanges DEF checkerVars
  <1>4. CASE UNCHANGED vars
    BY <1>4 DEF vars
  <1> QED
    BY <1>1, <1>2, <1>3, <1>4 DEF Next

(* OpenOrder: the pins a receiver opens later belong to the same loader or *)
(* to a later one.                                                         *)
LEMMA OpenOrderStep ==
  TypeOK /\ CurrentOnly /\ OpenOrder /\ [Next]_vars => OpenOrder'
  <1> SUFFICES ASSUME TypeOK, CurrentOnly, OpenOrder, [Next]_vars PROVE OpenOrder'
    OBVIOUS
  <1>0. epoch \in Nat
    BY ConstantsAssumption DEF TypeOK, LoaderType
  <1>1. CASE LoaderNext
    <2>1. epoch' \in Nat /\ epoch <= epoch'
      <3>1. CASE LoaderStart
        BY <1>0, <3>1 DEF LoaderStart
      <3> QED
        BY <1>0, <1>1, <3>1, LoaderChanges
    <2> QED
      BY <1>0, <1>1, <2>1, LoaderChanges DEF OpenOrder, FullyOpened, recvVars
  <1>2. ASSUME NEW x \in Recoverers, RecoverNext(x) PROVE OpenOrder'
    BY <1>2, RecoverChanges DEF OpenOrder, FullyOpened, recvVars, loaderVars
  <1>3. ASSUME NEW r \in Receivers, ReceiverNext(r) PROVE OpenOrder'
    <2> DEFINE Ordered(s) ==
          /\ rpc[s] \notin {"idle", "done"} => rfd[s]["xsk_map"] \in 1..epoch
          /\ rpc[s] \notin {"idle", "done", "open_owners"} =>
               /\ rfd[s]["xsk_owners"] \in 1..epoch
               /\ rfd[s]["xsk_map"] <= rfd[s]["xsk_owners"]
          /\ FullyOpened(s) =>
               /\ rfd[s]["runtime_config"] \in 1..epoch
               /\ rfd[s]["xsk_owners"] <= rfd[s]["runtime_config"]
    <2>0. epoch' = epoch
      BY <1>3, ReceiverChanges DEF checkerVars
    <2>1. ASSUME NEW s \in Receivers, s # r PROVE Ordered(s)'
      BY <1>3, <2>0, <2>1, ReceiverLocal DEF OpenOrder, FullyOpened
    <2>2. Ordered(r)'
      <3> USE <2>0 DEF OpenOrder, FullyOpened, TypeOK, ReceiverType, ReceiverGoto,
                       ReceiverExit, ReceiverMaps
      <3>a. \A m \in PinNames : pinned[m] # 0 => pinned[m] = epoch
        BY DEF CurrentOnly
      <3>1. CASE ReceiverOpenMaps(r)
        <4>1. CASE ReceiverOpen(r, "idle", "xsk_map", "open_owners")
          BY <4>1, <1>0, <3>a DEF ReceiverOpen, PinNames
        <4>2. CASE ReceiverOpen(r, "open_owners", "xsk_owners", "open_stats")
          BY <4>2, <1>0, <3>a DEF ReceiverOpen, PinNames
        <4>3. CASE ReceiverOpen(r, "open_stats", "stats", "open_runtime")
          BY <4>3, <1>0, <3>a DEF ReceiverOpen, PinNames
        <4>4. CASE ReceiverOpen(r, "open_runtime", "runtime_config", "read")
          BY <4>4, <1>0, <3>a DEF ReceiverOpen, PinNames
        <4> QED
          BY <3>1, <4>1, <4>2, <4>3, <4>4 DEF ReceiverOpenMaps
      <3>2. CASE ReceiverRead(r)
        BY <3>2, <1>0, <1>3, <3>a DEF ReceiverRead
      <3>3. CASE ReceiverRequireLive(r, "live", "validate")
        BY <3>3, <1>0, <1>3, <3>a DEF ReceiverRequireLive
      <3>4. CASE ReceiverValidate(r, "validate", "claim")
        BY <3>4, <1>0, <1>3, <3>a DEF ReceiverValidate
      <3>5. CASE ReceiverClaim(r)
        BY <3>5, <1>0, <1>3, <3>a DEF ReceiverClaim
      <3>6. CASE ReceiverReread(r)
        BY <3>6, <1>0, <1>3, <3>a DEF ReceiverReread
      <3>7. CASE ReceiverRequireLive(r, "live2", "validate2")
        BY <3>7, <1>0, <1>3, <3>a DEF ReceiverRequireLive
      <3>8. CASE ReceiverValidate(r, "validate2", "register")
        BY <3>8, <1>0, <1>3, <3>a DEF ReceiverValidate
      <3>9. CASE ReceiverRegister(r)
        BY <3>9, <1>0, <1>3, <3>a DEF ReceiverRegister
      <3>10. CASE ReceiverOut(r)
        BY <3>10, <1>0, <1>3, <3>a DEF ReceiverOut
      <3>11. CASE ReceiverClose(r)
        BY <3>11, <1>0, <1>3, <3>a DEF ReceiverClose
      <3>12. CASE ReceiverRelease(r)
        BY <3>12, <1>0, <1>3, <3>a DEF ReceiverRelease
      <3>13. CASE ReceiverReleaseDelete(r)
        BY <3>13, <1>0, <1>3, <3>a DEF ReceiverReleaseDelete
      <3>14. CASE ReceiverCrash(r)
        BY <3>14, <1>0, <1>3, <3>a DEF ReceiverCrash
      <3> QED
        BY <1>3, <3>1, <3>2, <3>3, <3>4, <3>5, <3>6, <3>7, <3>8, <3>9,
           <3>10, <3>11, <3>12, <3>13, <3>14
        DEF ReceiverNext
    <2> QED
      BY <2>1, <2>2 DEF OpenOrder
  <1>4. CASE UNCHANGED vars
    BY <1>4 DEF vars, OpenOrder, FullyOpened
  <1> QED
    BY <1>1, <1>2, <1>3, <1>4 DEF Next

(* FirstCopy: ReceiverRead accepts only APPLIED.                           *)
LEMMA FirstCopyStep == TypeOK /\ FirstCopy /\ [Next]_vars => FirstCopy'
  <1> SUFFICES ASSUME TypeOK, FirstCopy, [Next]_vars PROVE FirstCopy'
    OBVIOUS
  <1>1. CASE LoaderNext
    BY <1>1, LoaderChanges DEF FirstCopy, Past, recvVars
  <1>2. ASSUME NEW x \in Recoverers, RecoverNext(x) PROVE FirstCopy'
    BY <1>2, RecoverChanges DEF FirstCopy, Past, recvVars
  <1>3. ASSUME NEW r \in Receivers, ReceiverNext(r) PROVE FirstCopy'
    <2> DEFINE Copied(s) ==
          (Past(s) \/ rpc[s] \in {"live", "validate", "claim", "reread"})
             => rflags[s] = {"APPLIED"}
    <2>1. ASSUME NEW s \in Receivers, s # r PROVE Copied(s)'
      BY <1>3, <2>1, ReceiverLocal DEF FirstCopy, Past
    <2>2. Copied(r)'
      <3> USE DEF FirstCopy, Past, TypeOK, ReceiverType, ReceiverGoto, ReceiverExit
      <3>1. CASE ReceiverOpenMaps(r)
        BY <3>1 DEF ReceiverOpenMaps, ReceiverOpen
      <3>2. CASE ReceiverRead(r)
        BY <3>2 DEF ReceiverRead
      <3>3. CASE ReceiverRequireLive(r, "live", "validate")
        BY <3>3 DEF ReceiverRequireLive
      <3>4. CASE ReceiverValidate(r, "validate", "claim")
        BY <3>4 DEF ReceiverValidate
      <3>5. CASE ReceiverClaim(r)
        BY <3>5 DEF ReceiverClaim
      <3>6. CASE ReceiverReread(r)
        BY <3>6 DEF ReceiverReread
      <3>7. CASE ReceiverRequireLive(r, "live2", "validate2")
        BY <3>7 DEF ReceiverRequireLive
      <3>8. CASE ReceiverValidate(r, "validate2", "register")
        BY <3>8 DEF ReceiverValidate
      <3>9. CASE ReceiverRegister(r)
        BY <3>9 DEF ReceiverRegister
      <3>10. CASE ReceiverOut(r)
        BY <3>10 DEF ReceiverOut
      <3>11. CASE ReceiverClose(r)
        BY <3>11 DEF ReceiverClose
      <3>12. CASE ReceiverRelease(r)
        BY <3>12 DEF ReceiverRelease
      <3>13. CASE ReceiverReleaseDelete(r)
        BY <3>13 DEF ReceiverReleaseDelete
      <3>14. CASE ReceiverCrash(r)
        BY <3>14 DEF ReceiverCrash
      <3> QED
        BY <1>3, <3>1, <3>2, <3>3, <3>4, <3>5, <3>6, <3>7, <3>8, <3>9,
           <3>10, <3>11, <3>12, <3>13, <3>14
        DEF ReceiverNext
    <2> QED
      BY <2>1, <2>2 DEF FirstCopy
  <1>4. CASE UNCHANGED vars
    BY <1>4 DEF vars, FirstCopy, Past
  <1> QED
    BY <1>1, <1>2, <1>3, <1>4 DEF Next

(* Once STOPPING is published in a runtime_config it stays there: a        *)
(* recovery writes back a copy that has it.                                *)
LEMMA StoppingStays ==
  ASSUME TypeOK, StoppingFirst, [Next]_vars, NEW e \in Epochs, StoppingIn(e)
  PROVE  StoppingIn(e)'
  <1> USE DEF TypeOK, KernelType, StoppingIn
  <1>1. CASE LoaderNext
    <2>1. CASE LoaderPublishApplying
      BY <2>1 DEF LoaderPublishApplying
    <2>2. CASE LoaderPublishApplied
      BY <2>2 DEF LoaderPublishApplied
    <2>3. CASE LoaderPublishStopping
      BY <2>3 DEF LoaderPublishStopping
    <2>4. CASE LoaderRestore
      BY <2>4 DEF LoaderRestore
    <2> QED
      BY <1>1, <2>1, <2>2, <2>3, <2>4, LoaderChanges
  <1>2. ASSUME NEW x \in Recoverers, RecoverNext(x) PROVE StoppingIn(e)'
    <2>1. CASE RecoverPublishStopping(x)
      BY <2>1 DEF RecoverPublishStopping
    <2>2. CASE RecoverRestore(x)
      <3>1. "STOPPING" \in xflags[x] \ {"APPLYING", "APPLIED"}
        BY <2>2 DEF RecoverRestore, StoppingFirst
      <3>2. \/ flags' = [flags EXCEPT ![xe[x]] =
                                  xflags[x] \ {"APPLYING", "APPLIED"}]
            \/ flags' = flags
        BY <2>2 DEF RecoverRestore
      <3> QED
        BY <3>1, <3>2
    <2> QED
      BY <1>2, <2>1, <2>2, RecoverChanges
  <1>3. ASSUME NEW r \in Receivers, ReceiverNext(r) PROVE StoppingIn(e)'
    BY <1>3, ReceiverChanges
  <1>4. CASE UNCHANGED vars
    BY <1>4 DEF vars
  <1> QED
    BY <1>1, <1>2, <1>3, <1>4 DEF Next

(* The part of StoppingFirst that is about recoverer x.                    *)
RecoverStopped(x) ==
  /\ pc[x] \notin {"off", "end"} => xe[x] \in 1..epoch
  /\ pc[x] \notin {"off", "end", "publish"} =>
       "STOPPING" \in xflags[x] /\ StoppingIn(xe[x])
  /\ pc[x] \notin {"off", "end", "publish", "open"} => xo[x] \in xe[x]..epoch

(* StoppingFirst is kept by the loader, ...                                *)
LEMMA StoppingFirstLoader ==
  ASSUME TypeOK, StoppingFirst, LoaderNext
  PROVE  StoppingFirst'
  <1>0. epoch \in Nat /\ epoch' \in Nat /\ epoch <= epoch' /\ epoch \in 0..MaxLoaders
    <2>1. CASE LoaderStart
      BY <2>1, ConstantsAssumption DEF LoaderStart, TypeOK, LoaderType
    <2> QED
      BY <2>1, ConstantsAssumption, LoaderChanges DEF TypeOK, LoaderType
  <1>1. (pc[Loader] # "off" => epoch \in Epochs)'
    <2>1. CASE LoaderStart
      BY <2>1, <1>0, ConstantsAssumption DEF LoaderStart, Epochs
    <2>2. CASE pc[Loader] # "off" /\ UNCHANGED epoch
      BY <2>2 DEF StoppingFirst
    <2> QED
      BY <2>1, <2>2
      DEF LoaderNext, LoaderPin, LoaderRollbackPin, LoaderGiveUp,
          LoaderAttach, LoaderPublishApplying, LoaderPublishApplied,
          LoaderReady, LoaderAbort, LoaderStop, LoaderPublishStopping,
          LoaderLeaveAttached, LoaderDetach, LoaderExport, LoaderRestore,
          LoaderUnpin, LoaderCrash, InspectClaims, ClaimVanished, DeleteClaim,
          loaderVars
  <1>2. (Checking(Loader) => StoppingIn(epoch))'
    <2> USE DEF TypeOK, CheckerType, KernelType, Checkers, Goto, Exit, Checking,
                StoppingIn, StoppingFirst, loaderVars
    <2>1. CASE LoaderStart
      BY <2>1 DEF LoaderStart
    <2>2. CASE LoaderPin
      BY <2>2 DEF LoaderPin
    <2>3. CASE LoaderRollbackPin
      BY <2>3 DEF LoaderRollbackPin
    <2>4. CASE LoaderGiveUp
      BY <2>4 DEF LoaderGiveUp
    <2>5. CASE LoaderAttach
      BY <2>5 DEF LoaderAttach
    <2>6. CASE LoaderPublishApplying
      BY <2>6 DEF LoaderPublishApplying
    <2>7. CASE LoaderPublishApplied
      BY <2>7 DEF LoaderPublishApplied
    <2>8. CASE LoaderReady
      BY <2>8 DEF LoaderReady
    <2>9. CASE LoaderAbort
      BY <2>9 DEF LoaderAbort
    <2>10. CASE LoaderStop
      BY <2>10 DEF LoaderStop
    <2>11. CASE LoaderPublishStopping
      BY <2>11 DEF LoaderPublishStopping
    <2>12. CASE LoaderLeaveAttached
      BY <2>12 DEF LoaderLeaveAttached
    <2>13. CASE LoaderDetach
      BY <2>13 DEF LoaderDetach
    <2>14. CASE LoaderExport
      BY <2>14 DEF LoaderExport
    <2>15. CASE LoaderRestore
      BY <2>15 DEF LoaderRestore
    <2>16. CASE LoaderUnpin
      BY <2>16 DEF LoaderUnpin
    <2>17. CASE LoaderCrash
      BY <2>17 DEF LoaderCrash
    <2>18. CASE InspectClaims(Loader, epoch)
      BY <2>18 DEF InspectClaims
    <2>19. CASE ClaimVanished(Loader, epoch)
      BY <2>19 DEF ClaimVanished
    <2>20. CASE DeleteClaim(Loader, epoch)
      BY <2>20 DEF DeleteClaim
    <2> QED
      BY <2>1, <2>2, <2>3, <2>4, <2>5, <2>6, <2>7, <2>8, <2>9, <2>10,
         <2>11, <2>12, <2>13, <2>14, <2>15, <2>16, <2>17, <2>18,
         <2>19, <2>20
      DEF LoaderNext
  <1>3. ASSUME NEW x \in Recoverers PROVE RecoverStopped(x)'
    <2>1. /\ pc'[x] = pc[x]
          /\ xe'[x] = xe[x] /\ xo'[x] = xo[x] /\ xflags'[x] = xflags[x]
          /\ xe[x] \in Nat /\ xo[x] \in Nat
      <3>1. pc'[x] = pc[x]
        BY LoaderLocal
      <3>2. UNCHANGED <<xe, xo, xflags>>
        BY LoaderChanges DEF recoverVars
      <3>3. xe[x] \in 0..MaxLoaders /\ xo[x] \in 0..MaxLoaders
        BY DEF TypeOK, RecovererType
      <3> QED
        BY <3>1, <3>2, <3>3
    <2>2. xe[x] \in 1..epoch => (StoppingIn(xe[x]) => StoppingIn(xe[x])')
      <3>1. ASSUME NEW n \in Nat, n \in 1..epoch PROVE n \in Epochs
        BY <1>0, <3>1, ConstantsAssumption DEF Epochs
      <3> QED
        BY <2>1, <3>1, StoppingStays DEF Next, StoppingIn
    <2> QED
      BY <1>0, <2>1, <2>2 DEF RecoverStopped, StoppingFirst, StoppingIn
  <1> QED
    BY <1>1, <1>2, <1>3 DEF StoppingFirst, RecoverStopped

(* ... by a recovery ...                                                   *)
LEMMA StoppingFirstRecover ==
  ASSUME TypeOK, CurrentOnly, StoppingFirst, NEW x \in Recoverers, RecoverNext(x)
  PROVE  StoppingFirst'
  <1>0. epoch \in Nat /\ epoch' = epoch /\ epoch \in 0..MaxLoaders
    BY ConstantsAssumption, RecoverChanges DEF TypeOK, LoaderType, loaderVars
  <1>1. pc'[Loader] = pc[Loader]
    BY RecoverLocal, ConstantsAssumption DEF Checkers
  <1>2. (pc[Loader] # "off" => epoch \in Epochs)'
    BY <1>0, <1>1 DEF StoppingFirst
  <1>3. (Checking(Loader) => StoppingIn(epoch))'
    <2>1. CASE Checking(Loader)
      <3>1. epoch \in Epochs /\ StoppingIn(epoch)
        BY <2>1 DEF StoppingFirst, Checking
      <3> QED
        BY <1>0, <3>1, StoppingStays DEF Next, StoppingIn
    <2>2. CASE ~Checking(Loader)
      BY <1>1, <2>2 DEF Checking
    <2> QED
      BY <2>1, <2>2
  <1>4. RecoverStopped(x)'
    <2>0. /\ pinned["runtime_config"] \in {0, epoch}
          /\ pinned["xsk_owners"] \in {0, epoch}
          /\ xe[x] \in Nat /\ xo[x] \in Nat
      BY ConstantsAssumption DEF CurrentOnly, PinNames, TypeOK, RecovererType
    <2>a. xe[x] \in 1..epoch => xe[x] \in Epochs
      BY <1>0, <2>0, ConstantsAssumption DEF Epochs
    <2> USE <1>0, <2>0, <2>a
        DEF RecoverStopped, StoppingFirst, StoppingIn, TypeOK, CheckerType,
            Checkers, KernelType, RecovererType, Goto, Exit, RecoverEnd,
            recoverVars
    <2>1. CASE RecoverRead(x)
      BY <2>1 DEF RecoverRead
    <2>2. CASE RecoverPublishStopping(x)
      BY <2>2 DEF RecoverPublishStopping
    <2>3. CASE RecoverOpen(x)
      BY <2>3 DEF RecoverOpen, PinNames
    <2>4. CASE RecoverDetach(x)
      BY <2>4 DEF RecoverDetach
    <2>5. CASE RecoverRestore(x)
      BY <2>5 DEF RecoverRestore
    <2>6. CASE RecoverExport(x)
      BY <2>6 DEF RecoverExport
    <2>7. CASE RecoverUnpin(x)
      BY <2>7 DEF RecoverUnpin
    <2>8. CASE RecoverExit(x)
      BY <2>8 DEF RecoverExit
    <2>9. CASE InspectClaims(x, xo[x])
      BY <2>9 DEF InspectClaims
    <2>10. CASE ClaimVanished(x, xo[x])
      BY <2>10 DEF ClaimVanished
    <2>11. CASE DeleteClaim(x, xo[x])
      BY <2>11 DEF DeleteClaim
    <2> QED
      BY <2>1, <2>2, <2>3, <2>4, <2>5, <2>6, <2>7, <2>8, <2>9, <2>10,
         <2>11
      DEF RecoverNext
  <1> QED
    BY <1>2, <1>3, <1>4, OneRecovery
    DEF StoppingFirst, RecoverStopped

(* ... and by everybody.                                                   *)
LEMMA StoppingFirstStep ==
  TypeOK /\ CurrentOnly /\ StoppingFirst /\ [Next]_vars => StoppingFirst'
  <1> SUFFICES ASSUME TypeOK, CurrentOnly, StoppingFirst, [Next]_vars
               PROVE  StoppingFirst'
    OBVIOUS
  <1>1. ASSUME NEW r \in Receivers, ReceiverNext(r) PROVE StoppingFirst'
    BY <1>1, ReceiverChanges
    DEF StoppingFirst, Checking, StoppingIn, checkerVars
  <1>2. CASE UNCHANGED vars
    BY <1>2 DEF StoppingFirst, Checking, StoppingIn, vars
  <1> QED
    BY <1>1, <1>2, StoppingFirstLoader, StoppingFirstRecover DEF Next

-----------------------------------------------------------------------------
(* Claims.                                                                 *)

(* The maps of a receiver that has claimed its queue exist.                *)
LEMMA OpenedEpochs ==
  ASSUME TypeOK, OpenOrder, NEW r \in Receivers,
         rpc[r] \notin {"idle", "done", "open_owners"}
  PROVE  /\ rfd[r]["xsk_map"] \in Epochs
         /\ rfd[r]["xsk_owners"] \in Epochs
         /\ FullyOpened(r) => rfd[r]["runtime_config"] \in Epochs
  <1>1. epoch \in Nat /\ MaxLoaders \in Nat /\ epoch <= MaxLoaders
    BY ConstantsAssumption DEF TypeOK, LoaderType
  <1> QED
    BY <1>1 DEF OpenOrder, Epochs

(* The maps whose claims a checker inspects exist; those it stops too.     *)
LEMMA CheckedEpochs ==
  ASSUME TypeOK, StoppingFirst, NEW c \in Checkers, Checking(c)
  PROVE  /\ ChecksIn(c) \in Epochs
         /\ StopsIn(c) \in Epochs
         /\ StoppingIn(StopsIn(c))
  <1>1. epoch \in Nat /\ MaxLoaders \in Nat /\ epoch <= MaxLoaders
    BY ConstantsAssumption DEF TypeOK, LoaderType
  <1>2. CASE c = Loader
    BY <1>2 DEF StoppingFirst, Checking, ChecksIn, StopsIn
  <1>3. CASE c # Loader
    <2>1. c \in Recoverers /\ xe[c] \in Nat /\ xo[c] \in Nat
      BY <1>3, ConstantsAssumption DEF Checkers, TypeOK, RecovererType
    <2> QED
      BY <1>1, <1>3, <2>1 DEF StoppingFirst, Checking, ChecksIn, StopsIn, Epochs
  <1> QED
    BY <1>2, <1>3

(* A receiver takes no step once it is done, and none back to idle.        *)
LEMMA ReceiverActive ==
  ASSUME TypeOK, NEW r \in Receivers, ReceiverNext(r)
  PROVE  rpc[r] # "done" /\ rpc'[r] # "idle"
  <1> USE DEF TypeOK, ReceiverType, ReceiverGoto, ReceiverExit
  <1>1. CASE ReceiverOpenMaps(r)
    BY <1>1 DEF ReceiverOpenMaps, ReceiverOpen
  <1>2. CASE ReceiverRead(r)
    BY <1>2 DEF ReceiverRead
  <1>3. CASE ReceiverRequireLive(r, "live", "validate")
    BY <1>3 DEF ReceiverRequireLive
  <1>4. CASE ReceiverValidate(r, "validate", "claim")
    BY <1>4 DEF ReceiverValidate
  <1>5. CASE ReceiverClaim(r)
    BY <1>5 DEF ReceiverClaim
  <1>6. CASE ReceiverReread(r)
    BY <1>6 DEF ReceiverReread
  <1>7. CASE ReceiverRequireLive(r, "live2", "validate2")
    BY <1>7 DEF ReceiverRequireLive
  <1>8. CASE ReceiverValidate(r, "validate2", "register")
    BY <1>8 DEF ReceiverValidate
  <1>9. CASE ReceiverRegister(r)
    BY <1>9 DEF ReceiverRegister
  <1>10. CASE ReceiverOut(r)
    BY <1>10 DEF ReceiverOut
  <1>11. CASE ReceiverClose(r)
    BY <1>11 DEF ReceiverClose
  <1>12. CASE ReceiverRelease(r)
    BY <1>12 DEF ReceiverRelease
  <1>13. CASE ReceiverReleaseDelete(r)
    BY <1>13 DEF ReceiverReleaseDelete
  <1>14. CASE ReceiverCrash(r)
    BY <1>14 DEF ReceiverCrash, ReceiverAlive
  <1> QED
    BY <1>1, <1>2, <1>3, <1>4, <1>5, <1>6, <1>7, <1>8, <1>9, <1>10,
       <1>11, <1>12, <1>13, <1>14
    DEF ReceiverNext

(* Whoever gets past the re-read of runtime_config found no STOPPING there *)
(* and holds the claim.                                                    *)
LEMMA NewlyPast ==
  ASSUME IInv, NEW r \in Receivers, ReceiverNext(r),
         NEW s \in Receivers, NEW e \in Epochs, PastIn(s, e)'
  PROVE  \/ PastIn(s, e)
         \/ /\ s = r
            /\ rpc[r] = "reread" /\ rpc'[r] = "live2"
            /\ ~StoppingIn(e)
            /\ claims[e][QueueOf[r]] = r
            /\ UNCHANGED claims
  <1> USE DEF PastIn, Past
  <1>1. CASE s # r
    BY <1>1, ReceiverLocal DEF IInv
  <1>2. CASE s = r
    <2> USE <1>2 DEF IInv, TypeOK, ReceiverType, ReceiverGoto, ReceiverExit
    <2>1. CASE ReceiverOpenMaps(r)
      BY <2>1 DEF ReceiverOpenMaps, ReceiverOpen
    <2>2. CASE ReceiverRead(r)
      BY <2>2 DEF ReceiverRead
    <2>3. CASE ReceiverRequireLive(r, "live", "validate")
      BY <2>3 DEF ReceiverRequireLive
    <2>4. CASE ReceiverValidate(r, "validate", "claim")
      BY <2>4 DEF ReceiverValidate
    <2>5. CASE ReceiverClaim(r)
      BY <2>5 DEF ReceiverClaim
    <2>6. CASE ReceiverReread(r)
      BY <2>6 DEF ReceiverReread, FirstCopy, ClaimBeforeReread, StoppingIn
    <2>7. CASE ReceiverRequireLive(r, "live2", "validate2")
      BY <2>7 DEF ReceiverRequireLive
    <2>8. CASE ReceiverValidate(r, "validate2", "register")
      BY <2>8 DEF ReceiverValidate
    <2>9. CASE ReceiverRegister(r)
      BY <2>9 DEF ReceiverRegister
    <2>10. CASE ReceiverOut(r)
      BY <2>10 DEF ReceiverOut
    <2>11. CASE ReceiverClose(r)
      BY <2>11 DEF ReceiverClose
    <2>12. CASE ReceiverRelease(r)
      BY <2>12 DEF ReceiverRelease
    <2>13. CASE ReceiverReleaseDelete(r)
      BY <2>13 DEF ReceiverReleaseDelete
    <2>14. CASE ReceiverCrash(r)
      BY <2>14 DEF ReceiverCrash
    <2> QED
      BY <2>1, <2>2, <2>3, <2>4, <2>5, <2>6, <2>7, <2>8, <2>9, <2>10,
         <2>11, <2>12, <2>13, <2>14
      DEF ReceiverNext
  <1> QED
    BY <1>1, <1>2

(* The loader and a recovery leave every receiver where it is.             *)
LEMMA SamePast ==
  ASSUME UNCHANGED recvVars, NEW r, NEW e
  PROVE  (PastIn(r, e)' <=> PastIn(r, e)) /\ (Past(r)' <=> Past(r))
  BY DEF PastIn, Past, recvVars

(* A step of the loader or of a recovery.                                  *)
CheckerNext == LoaderNext \/ \E x \in Recoverers : RecoverNext(x)

(* Such a step deletes at most the claim its process was about to delete.  *)
LEMMA CheckerClaims ==
  ASSUME IInv, CheckerNext
  PROVE  /\ UNCHANGED recvVars
         /\ UNCHANGED xskmap
         /\ \/ UNCHANGED claims
            \/ \E c \in Checkers :
                 /\ pc[c] = "delete" /\ pc'[c] = "claims"
                 /\ ChecksIn(c) \in Epochs
                 /\ cq[c] \in Queues
                 /\ \A e \in Epochs, q \in Queues :
                      claims'[e][q] = IF e = ChecksIn(c) /\ q = cq[c]
                                      THEN NoOne ELSE claims[e][q]
  <1> DEFINE Deletes(c) ==
        /\ pc[c] = "delete" /\ pc'[c] = "claims"
        /\ ChecksIn(c) \in Epochs
        /\ cq[c] \in Queues
        /\ \A e \in Epochs, q \in Queues :
             claims'[e][q] = IF e = ChecksIn(c) /\ q = cq[c]
                             THEN NoOne ELSE claims[e][q]
  <1>1. ASSUME NEW c \in Checkers, DeleteClaim(c, ChecksIn(c)) PROVE Deletes(c)
    <2>1. pc[c] = "delete" /\ pc'[c] = "claims" /\ cq[c] \in Queues
      BY <1>1 DEF DeleteClaim, Goto, IInv, DeletesDead, TypeOK, CheckerType
    <2>2. ChecksIn(c) \in Epochs
      BY <2>1, CheckedEpochs DEF Checking, IInv
    <2>3. /\ claims \in [Epochs -> [Queues -> Receivers \cup {NoOne}]]
          /\ claims' = [claims EXCEPT ![ChecksIn(c)][cq[c]] = NoOne]
      BY <1>1 DEF DeleteClaim, IInv, TypeOK, KernelType
    <2> QED
      BY <2>1, <2>2, <2>3
  <1>2. CASE LoaderNext
    <2>1. Loader \in Checkers /\ ChecksIn(Loader) = epoch
      BY DEF Checkers, ChecksIn
    <2>2. UNCHANGED claims \/ DeleteClaim(Loader, ChecksIn(Loader))
      BY <1>2, <2>1, LoaderChanges
    <2> QED
      BY <1>1, <1>2, <2>1, <2>2, LoaderChanges
  <1>3. ASSUME NEW x \in Recoverers, RecoverNext(x)
        PROVE  /\ UNCHANGED recvVars
               /\ UNCHANGED xskmap
               /\ UNCHANGED claims \/ \E c \in Checkers : Deletes(c)
    <2>1. x \in Checkers /\ ChecksIn(x) = xo[x]
      BY ConstantsAssumption DEF Checkers, ChecksIn
    <2>2. UNCHANGED claims \/ DeleteClaim(x, ChecksIn(x))
      BY <1>3, <2>1, RecoverChanges
    <2> QED
      BY <1>1, <1>3, <2>1, <2>2, RecoverChanges
  <1> QED
    BY <1>2, <1>3 DEF CheckerNext

(* A receiver changes at most its own entry: it fills an empty one with    *)
(* itself, or empties it.                                                  *)
LEMMA ReceiverClaims ==
  ASSUME IInv, NEW r \in Receivers, ReceiverNext(r)
  PROVE  \/ UNCHANGED claims
         \/ /\ rpc[r] = "claim" /\ rpc'[r] = "reread" /\ rfd' = rfd
            /\ claims[rfd[r]["xsk_owners"]][QueueOf[r]] = NoOne
            /\ \A e \in Epochs, q \in Queues :
                 claims'[e][q] = IF e = rfd[r]["xsk_owners"] /\ q = QueueOf[r]
                                 THEN r ELSE claims[e][q]
         \/ /\ rpc[r] = "release_delete" /\ rpc'[r] = "done"
            /\ \A e \in Epochs, q \in Queues :
                 claims'[e][q] = IF e = rfd[r]["xsk_owners"] /\ q = QueueOf[r]
                                 THEN NoOne ELSE claims[e][q]
  <1>0. /\ claims \in [Epochs -> [Queues -> Receivers \cup {NoOne}]]
        /\ rpc \in [Receivers -> ReceiverPCs]
        /\ QueueOf[r] \in Queues
    BY ConstantsAssumption DEF IInv, TypeOK, KernelType, ReceiverType
  <1>1. CASE ReceiverClaim(r)
    <2>1. rfd[r]["xsk_owners"] \in Epochs
      BY <1>1, OpenedEpochs DEF ReceiverClaim, IInv
    <2> QED
      BY <1>0, <1>1, <2>1 DEF ReceiverClaim, ReceiverGoto
  <1>2. CASE ReceiverReleaseDelete(r)
    <2>1. rfd[r]["xsk_owners"] \in Epochs
      BY <1>2, OpenedEpochs DEF ReceiverReleaseDelete, IInv
    <2> QED
      BY <1>0, <1>2, <2>1 DEF ReceiverReleaseDelete, ReceiverGoto, ReceiverExit
  <1> QED
    BY <1>1, <1>2, ReceiverChanges

-----------------------------------------------------------------------------
(* ClaimsByStarted: no receiver returns to its idle state.                 *)
LEMMA ClaimsByStartedStep == IInv /\ [Next]_vars => ClaimsByStarted'
  <1> SUFFICES ASSUME IInv, [Next]_vars,
                      NEW e \in Epochs, NEW q \in Queues, claims'[e][q] # NoOne
               PROVE  rpc'[claims'[e][q]] # "idle"
    BY DEF ClaimsByStarted
  <1>0. claims[e][q] # NoOne => rpc[claims[e][q]] # "idle"
    BY DEF IInv, ClaimsByStarted
  <1>1. CASE CheckerNext
    BY <1>0, <1>1, CheckerClaims DEF recvVars
  <1>2. ASSUME NEW r \in Receivers, ReceiverNext(r)
        PROVE  rpc'[claims'[e][q]] # "idle"
    <2>1. claims'[e][q] = r \/ claims'[e][q] = claims[e][q]
      BY <1>2, ReceiverClaims
    <2>2. claims[e][q] \in Receivers \cup {NoOne}
      BY DEF IInv, TypeOK, KernelType
    <2>3. rpc'[r] # "idle"
      BY <1>2, ReceiverActive DEF IInv
    <2>4. CASE claims'[e][q] = r
      BY <2>3, <2>4
    <2>5. CASE claims'[e][q] # r
      BY <1>0, <1>2, <2>1, <2>2, <2>5, ReceiverLocal DEF IInv
    <2> QED
      BY <2>4, <2>5
  <1>3. CASE UNCHANGED vars
    BY <1>0, <1>3 DEF vars
  <1> QED
    BY <1>1, <1>2, <1>3 DEF Next, CheckerNext

(* ClaimBeforeReread: the claim of a live receiver is deleted by others    *)
(* only under STOPPING.                                                    *)
LEMMA ClaimBeforeRereadStep == IInv /\ [Next]_vars => ClaimBeforeReread'
  <1> SUFFICES ASSUME IInv, [Next]_vars, NEW s \in Receivers, rpc'[s] = "reread"
               PROVE  \/ claims'[rfd'[s]["xsk_owners"]][QueueOf[s]] = s
                      \/ StoppingIn(rfd[s]["xsk_owners"])'
    BY DEF ClaimBeforeReread, StoppingIn
  <1> DEFINE own == rfd[s]["xsk_owners"]
             q == QueueOf[s]
  <1>0. q \in Queues
    BY ConstantsAssumption
  <1>1. ASSUME rpc[s] = "reread", rfd'[s] = rfd[s]
        PROVE  /\ own \in Epochs
               /\ claims[own][q] = s \/ StoppingIn(own)
               /\ StoppingIn(own) => StoppingIn(own)'
    <2>1. own \in Epochs
      BY <1>1, OpenedEpochs DEF IInv
    <2>2. claims[own][q] = s \/ StoppingIn(own)
      BY <1>1 DEF IInv, ClaimBeforeReread
    <2>3. StoppingIn(own) => StoppingIn(own)'
      BY <1>1, <2>1, StoppingStays DEF IInv, StoppingIn
    <2> QED
      BY <2>1, <2>2, <2>3
  <1>2. CASE CheckerNext
    <2>1. rpc[s] = "reread" /\ rfd'[s] = rfd[s]
      BY <1>2, CheckerClaims DEF recvVars
    <2>2. CASE UNCHANGED claims
      BY <1>1, <2>1, <2>2 DEF StoppingIn
    <2>3. ASSUME NEW c \in Checkers,
                 pc[c] = "delete", ChecksIn(c) \in Epochs, cq[c] \in Queues,
                 \A e \in Epochs, k \in Queues :
                   claims'[e][k] = IF e = ChecksIn(c) /\ k = cq[c]
                                   THEN NoOne ELSE claims[e][k]
          PROVE  claims'[own][q] = s \/ StoppingIn(own)
      <3>1. CASE own = ChecksIn(c) /\ q = cq[c]
        <4>1. \/ StoppingIn(ChecksIn(c))
              \/ rpc[claims[ChecksIn(c)][cq[c]]] = "done"
          BY <2>3 DEF IInv, DeletesDead
        <4> QED
          BY <1>1, <2>1, <3>1, <4>1
      <3>2. CASE ~(own = ChecksIn(c) /\ q = cq[c])
        BY <1>0, <1>1, <2>1, <2>3, <3>2
      <3> QED
        BY <3>1, <3>2
    <2>4. claims'[own][q] = s \/ StoppingIn(own)
      BY <1>1, <1>2, <2>1, <2>2, <2>3, CheckerClaims
    <2> QED
      BY <1>1, <2>1, <2>4 DEF StoppingIn
  <1>3. ASSUME NEW r \in Receivers, ReceiverNext(r)
        PROVE  \/ claims'[rfd'[s]["xsk_owners"]][QueueOf[s]] = s
               \/ StoppingIn(rfd[s]["xsk_owners"])'
    <2>1. CASE s # r
      <3>1. rpc[s] = "reread" /\ rfd'[s] = rfd[s]
        BY <1>3, <2>1, ReceiverLocal DEF IInv
      <3>2. CASE claims'[own][q] = claims[own][q]
        BY <1>1, <3>1, <3>2 DEF StoppingIn
      <3>3. CASE claims'[own][q] # claims[own][q]
        <4>1. /\ own = rfd[r]["xsk_owners"] /\ q = QueueOf[r]
              /\ claims[own][q] = NoOne \/ rpc[r] = "release_delete"
          BY <1>0, <1>1, <1>3, <3>1, <3>3, ReceiverClaims
        <4>2. rpc[r] = "release_delete" => claims[own][q] = r \/ StoppingIn(own)
          BY <4>1 DEF IInv, ReleasesOwn
        <4>3. StoppingIn(own)
          BY <1>1, <2>1, <3>1, <4>1, <4>2, ConstantsAssumption
        <4> QED
          BY <1>1, <3>1, <4>3 DEF StoppingIn
      <3> QED
        BY <3>2, <3>3
    <2>2. CASE s = r
      <3>1. ReceiverClaim(r)
        <4> USE <1>3, <2>2 DEF IInv, TypeOK, ReceiverType, ReceiverGoto, ReceiverExit
        <4>1. CASE ReceiverOpenMaps(r)
          BY <4>1 DEF ReceiverOpenMaps, ReceiverOpen
        <4>2. CASE ReceiverRead(r)
          BY <4>2 DEF ReceiverRead
        <4>3. CASE ReceiverRequireLive(r, "live", "validate")
          BY <4>3 DEF ReceiverRequireLive
        <4>4. CASE ReceiverValidate(r, "validate", "claim")
          BY <4>4 DEF ReceiverValidate
        <4>5. CASE ReceiverClaim(r)
          BY <4>5 DEF ReceiverClaim
        <4>6. CASE ReceiverReread(r)
          BY <4>6 DEF ReceiverReread
        <4>7. CASE ReceiverRequireLive(r, "live2", "validate2")
          BY <4>7 DEF ReceiverRequireLive
        <4>8. CASE ReceiverValidate(r, "validate2", "register")
          BY <4>8 DEF ReceiverValidate
        <4>9. CASE ReceiverRegister(r)
          BY <4>9 DEF ReceiverRegister
        <4>10. CASE ReceiverOut(r)
          BY <4>10 DEF ReceiverOut
        <4>11. CASE ReceiverClose(r)
          BY <4>11 DEF ReceiverClose
        <4>12. CASE ReceiverRelease(r)
          BY <4>12 DEF ReceiverRelease
        <4>13. CASE ReceiverReleaseDelete(r)
          BY <4>13 DEF ReceiverReleaseDelete
        <4>14. CASE ReceiverCrash(r)
          BY <4>14 DEF ReceiverCrash
        <4> QED
          BY <4>1, <4>2, <4>3, <4>4, <4>5, <4>6, <4>7, <4>8, <4>9,
             <4>10, <4>11, <4>12, <4>13, <4>14
          DEF ReceiverNext
      <3>2. own \in Epochs
        BY <2>2, <3>1, OpenedEpochs DEF IInv, ReceiverClaim
      <3> QED
        BY <1>0, <2>2, <3>1, <3>2 DEF ReceiverClaim, IInv, TypeOK, KernelType
    <2> QED
      BY <2>1, <2>2
  <1>4. CASE UNCHANGED vars
    BY <1>4 DEF vars, IInv, ClaimBeforeReread, StoppingIn
  <1> QED
    BY <1>2, <1>3, <1>4 DEF Next, CheckerNext

(* ClaimHeld: nobody deletes the claim of a receiver past the re-read.     *)
LEMMA ClaimHeldStep == IInv /\ [Next]_vars => ClaimHeld'
  <1> SUFFICES ASSUME IInv, [Next]_vars, NEW s \in Receivers, NEW e \in Epochs,
                      PastIn(s, e)'
               PROVE  claims'[e][QueueOf[s]] = s
    BY DEF ClaimHeld
  <1>0. QueueOf[s] \in Queues /\ s # NoOne
    BY ConstantsAssumption
  <1>1. PastIn(s, e) => claims[e][QueueOf[s]] = s
    BY DEF IInv, ClaimHeld
  <1>2. CASE CheckerNext
    <2>1. PastIn(s, e)
      BY <1>2, CheckerClaims, SamePast
    <2>2. ASSUME NEW c \in Checkers, pc[c] = "delete"
          PROVE  ~(e = ChecksIn(c) /\ QueueOf[s] = cq[c])
      BY <2>1, <2>2 DEF IInv, DeletesDead, NoPastOn
    <2> QED
      BY <1>0, <1>1, <1>2, <2>1, <2>2, CheckerClaims
  <1>3. ASSUME NEW r \in Receivers, ReceiverNext(r)
        PROVE  claims'[e][QueueOf[s]] = s
    <2>1. CASE PastIn(s, e)
      <3>1. claims[e][QueueOf[s]] = s
        BY <1>1, <2>1
      <3>2. CASE claims'[e][QueueOf[s]] # claims[e][QueueOf[s]]
        <4>1. /\ e = rfd[r]["xsk_owners"] /\ QueueOf[s] = QueueOf[r]
              /\ rpc[r] = "release_delete"
          BY <1>0, <1>3, <3>1, <3>2, ReceiverClaims
        <4>2. claims[e][QueueOf[r]] = r \/ NoPastOn(e, QueueOf[r])
          BY <4>1 DEF IInv, ReleasesOwn
        <4>3. s = r
          BY <2>1, <3>1, <4>1, <4>2 DEF NoPastOn
        <4> QED
          BY <2>1, <4>1, <4>3 DEF PastIn, Past
      <3> QED
        BY <3>1, <3>2
    <2>2. CASE ~PastIn(s, e)
      BY <1>3, <2>2, NewlyPast
    <2> QED
      BY <2>1, <2>2
  <1>4. CASE UNCHANGED vars
    BY <1>1, <1>4 DEF vars, PastIn, Past
  <1> QED
    BY <1>2, <1>3, <1>4 DEF Next, CheckerNext

(* ReleasesOwn: the claim a receiver is about to delete by key is its own, *)
(* or nobody can have taken the queue since.                               *)
LEMMA ReleasesOwnStep == IInv /\ [Next]_vars => ReleasesOwn'
  <1> SUFFICES ASSUME IInv, [Next]_vars, NEW s \in Receivers,
                      rpc'[s] = "release_delete"
               PROVE  \/ claims'[rfd'[s]["xsk_owners"]][QueueOf[s]] = s
                      \/ /\ StoppingIn(rfd[s]["xsk_owners"])'
                         /\ NoPastOn(rfd[s]["xsk_owners"], QueueOf[s])'
    BY DEF ReleasesOwn
  <1> DEFINE own == rfd[s]["xsk_owners"]
             q == QueueOf[s]
             Mine == claims[own][q] = s
             Nobody == StoppingIn(own) /\ NoPastOn(own, q)
  <1> SUFFICES Mine' \/ Nobody'
    OBVIOUS
  <1>0. q \in Queues /\ s # NoOne
    BY ConstantsAssumption
  <1>1. ASSUME rpc[s] = "release_delete"
        PROVE  own \in Epochs /\ (Mine \/ Nobody)
    BY <1>1, OpenedEpochs DEF IInv, ReleasesOwn
  <1>2. ASSUME rpc[s] = "release_delete", rfd'[s] = rfd[s], Nobody
        PROVE  Nobody'
    <2>1. StoppingIn(own)'
      BY <1>1, <1>2, StoppingStays DEF IInv, StoppingIn
    <2>2. ASSUME NEW t \in Receivers, PastIn(t, own)' PROVE QueueOf[t] # q
      <3>1. rfd'[t]["xsk_owners"] = own /\ rfd'[t]["runtime_config"] = own
        BY <1>2, <2>2 DEF PastIn
      <3>2. PastIn(t, own)
        <4>1. CASE CheckerNext
          BY <1>2, <2>2, <4>1, CheckerClaims DEF PastIn, Past, recvVars
        <4>2. ASSUME NEW r \in Receivers, ReceiverNext(r) PROVE PastIn(t, own)
          <5>0. ASSUME NEW e \in Epochs, e = own PROVE PastIn(t, e)'
            BY <1>2, <2>2, <5>0 DEF PastIn, Past
          <5> QED
            BY <1>1, <1>2, <4>2, <5>0, NewlyPast
        <4>3. CASE UNCHANGED vars
          BY <2>2, <4>3 DEF vars, PastIn, Past
        <4> QED
          BY <4>1, <4>2, <4>3 DEF Next, CheckerNext
      <3> QED
        BY <1>2, <3>2 DEF NoPastOn
    <2>3. NoPastOn(own, q)'
      BY <2>2 DEF NoPastOn
    <2> QED
      BY <2>1, <2>3
  <1>3. CASE CheckerNext
    <2>1. rpc[s] = "release_delete" /\ rfd'[s] = rfd[s]
      BY <1>3, CheckerClaims DEF recvVars
    <2>2. CASE UNCHANGED claims
      BY <1>1, <1>2, <2>1, <2>2
    <2>3. ASSUME NEW c \in Checkers,
                 pc[c] = "delete", ChecksIn(c) \in Epochs, cq[c] \in Queues,
                 \A e \in Epochs, k \in Queues :
                   claims'[e][k] = IF e = ChecksIn(c) /\ k = cq[c]
                                   THEN NoOne ELSE claims[e][k]
          PROVE  Mine' \/ Nobody
      <3>1. CASE own = ChecksIn(c) /\ q = cq[c]
        <4>1. /\ NoPastOn(ChecksIn(c), cq[c])
              /\ \/ StoppingIn(ChecksIn(c))
                 \/ rpc[claims[ChecksIn(c)][cq[c]]] = "done"
          BY <2>3 DEF IInv, DeletesDead
        <4> QED
          BY <1>1, <2>1, <3>1, <4>1
      <3>2. CASE ~(own = ChecksIn(c) /\ q = cq[c])
        BY <1>0, <1>1, <2>1, <2>3, <3>2
      <3> QED
        BY <3>1, <3>2
    <2>4. Mine' \/ Nobody
      BY <1>1, <1>3, <2>1, <2>2, <2>3, CheckerClaims
    <2> QED
      BY <1>2, <2>1, <2>4
  <1>4. ASSUME NEW r \in Receivers, ReceiverNext(r) PROVE Mine' \/ Nobody'
    <2>1. CASE s # r
      <3>1. rpc[s] = "release_delete" /\ rfd'[s] = rfd[s]
        BY <1>4, <2>1, ReceiverLocal DEF IInv
      <3>2. CASE claims'[own][q] = claims[own][q]
        BY <1>1, <1>2, <3>1, <3>2
      <3>3. CASE claims'[own][q] # claims[own][q]
        <4>1. /\ own = rfd[r]["xsk_owners"] /\ q = QueueOf[r]
              /\ claims[own][q] = NoOne \/ rpc[r] = "release_delete"
          BY <1>0, <1>1, <1>4, <3>1, <3>3, ReceiverClaims
        <4>2. rpc[r] = "release_delete" => claims[own][q] = r \/ Nobody
          BY <4>1 DEF IInv, ReleasesOwn
        <4>3. Nobody
          BY <1>0, <1>1, <2>1, <3>1, <4>1, <4>2
        <4> QED
          BY <1>2, <3>1, <4>3
      <3> QED
        BY <3>2, <3>3
    <2>2. CASE s = r
      <3>1. ReceiverRelease(r)
        <4> USE <1>4, <2>2 DEF IInv, TypeOK, ReceiverType, ReceiverGoto, ReceiverExit
        <4>1. CASE ReceiverOpenMaps(r)
          BY <4>1 DEF ReceiverOpenMaps, ReceiverOpen
        <4>2. CASE ReceiverRead(r)
          BY <4>2 DEF ReceiverRead
        <4>3. CASE ReceiverRequireLive(r, "live", "validate")
          BY <4>3 DEF ReceiverRequireLive
        <4>4. CASE ReceiverValidate(r, "validate", "claim")
          BY <4>4 DEF ReceiverValidate
        <4>5. CASE ReceiverClaim(r)
          BY <4>5 DEF ReceiverClaim
        <4>6. CASE ReceiverReread(r)
          BY <4>6 DEF ReceiverReread
        <4>7. CASE ReceiverRequireLive(r, "live2", "validate2")
          BY <4>7 DEF ReceiverRequireLive
        <4>8. CASE ReceiverValidate(r, "validate2", "register")
          BY <4>8 DEF ReceiverValidate
        <4>9. CASE ReceiverRegister(r)
          BY <4>9 DEF ReceiverRegister
        <4>10. CASE ReceiverOut(r)
          BY <4>10 DEF ReceiverOut
        <4>11. CASE ReceiverClose(r)
          BY <4>11 DEF ReceiverClose
        <4>12. CASE ReceiverRelease(r)
          BY <4>12 DEF ReceiverRelease
        <4>13. CASE ReceiverReleaseDelete(r)
          BY <4>13 DEF ReceiverReleaseDelete
        <4>14. CASE ReceiverCrash(r)
          BY <4>14 DEF ReceiverCrash
        <4> QED
          BY <4>1, <4>2, <4>3, <4>4, <4>5, <4>6, <4>7, <4>8, <4>9,
             <4>10, <4>11, <4>12, <4>13, <4>14
          DEF ReceiverNext
      <3> QED
        BY <2>2, <3>1 DEF ReceiverRelease, ReceiverExit, ReceiverGoto, IInv, TypeOK,
                          ReceiverType
    <2> QED
      BY <2>1, <2>2
  <1>5. CASE UNCHANGED vars
    <2>1. rpc[s] = "release_delete" /\ rfd'[s] = rfd[s]
      BY <1>5 DEF vars
    <2> QED
      BY <1>1, <1>2, <1>5, <2>1 DEF vars
  <1> QED
    BY <1>3, <1>4, <1>5 DEF Next, CheckerNext
=============================================================================
