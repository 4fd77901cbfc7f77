------------------------- MODULE XskLifecycleTypes --------------------------
(***************************************************************************)
(* Which steps of XskLifecycle change which variables, and type            *)
(* correctness.  The frame lemmas let each invariant of XskLifecycleProofs *)
(* look only at the steps that matter to it.                               *)
(***************************************************************************)
EXTENDS XskLifecycle, TLAPS

(* Zenon is tried first on every leaf, the SMT solver on what it leaves.   *)
USE ZenonT(5), SMTT(30)

(* A function stays in its type when one value is replaced.                *)
LEMMA UpdateType ==
  ASSUME NEW D, NEW R, NEW f \in [D -> R], NEW k, NEW v \in R
  PROVE  [f EXCEPT ![k] = v] \in [D -> R]
  OBVIOUS

(* A step of the loader (xdp_loader.c main) touches no receiver and no     *)
(* recoverer, and changes each shared object only in the named actions.    *)
LEMMA LoaderChanges ==
  ASSUME LoaderNext
  PROVE  /\ UNCHANGED <<recvVars, recoverVars, xskmap>>
         /\ UNCHANGED <<epoch>> \/ LoaderStart
         /\ UNCHANGED pinned \/ LoaderPin \/ LoaderRollbackPin \/ LoaderUnpin
         /\ UNCHANGED attached \/ LoaderAttach \/ LoaderDetach
         /\ \/ UNCHANGED flags
            \/ LoaderPublishApplying \/ LoaderPublishApplied
            \/ LoaderPublishStopping \/ LoaderRestore
         /\ UNCHANGED claims \/ DeleteClaim(Loader, epoch)
         /\ UNCHANGED exported \/ LoaderExport
  BY DEF LoaderNext, LoaderStart, LoaderPin, LoaderRollbackPin, LoaderGiveUp,
         LoaderAttach, LoaderPublishApplying, LoaderPublishApplied,
         LoaderReady, LoaderAbort, LoaderStop, LoaderPublishStopping,
         LoaderLeaveAttached, LoaderDetach, LoaderExport, LoaderRestore,
         LoaderUnpin, LoaderCrash, InspectClaims, ClaimVanished, DeleteClaim,
         loaderVars, recvVars, recoverVars

(* A step of a recovery (recover_pinned_measurement) touches no receiver   *)
(* and no loader.                                                          *)
LEMMA RecoverChanges ==
  ASSUME NEW x \in Recoverers, RecoverNext(x)
  PROVE  /\ UNCHANGED <<recvVars, loaderVars, xskmap>>
         /\ UNCHANGED pinned \/ RecoverUnpin(x)
         /\ UNCHANGED attached \/ RecoverDetach(x)
         /\ UNCHANGED flags \/ RecoverPublishStopping(x) \/ RecoverRestore(x)
         /\ UNCHANGED claims \/ DeleteClaim(x, xo[x])
         /\ UNCHANGED exported \/ RecoverExport(x)
  BY DEF RecoverNext, RecoverRead, RecoverPublishStopping, RecoverOpen,
         RecoverDetach, RecoverRestore, RecoverExport, RecoverUnpin,
         RecoverExit, InspectClaims, ClaimVanished, DeleteClaim, loaderVars,
         recvVars, recoverVars

(* A step of a receiver (afxdp_recv.c main) changes only its own state and *)
(* the two XSK maps.                                                       *)
LEMMA ReceiverChanges ==
  ASSUME NEW r \in Receivers, ReceiverNext(r)
  PROVE  /\ UNCHANGED <<checkerVars, pinned, attached, flags, exported>>
         /\ UNCHANGED claims \/ ReceiverClaim(r) \/ ReceiverReleaseDelete(r)
         /\ \/ UNCHANGED xskmap
            \/ ReceiverRegister(r) \/ ReceiverClose(r) \/ ReceiverCrash(r)
  BY DEF ReceiverNext, ReceiverOpenMaps, ReceiverRead, ReceiverRequireLive,
         ReceiverValidate, ReceiverClaim, ReceiverReread, ReceiverRegister,
         ReceiverOut, ReceiverClose, ReceiverRelease, ReceiverReleaseDelete,
         ReceiverCrash, ReceiverOpen, checkerVars

-----------------------------------------------------------------------------
(* The initial values have their types.                                    *)
LEMMA TypeInit == Init => TypeOK
  <1> SUFFICES ASSUME Init PROVE TypeOK
    OBVIOUS
  <1> USE ConstantsAssumption DEF Init
  <1>1. LoaderType
    <2>1. epoch \in 0..MaxLoaders /\ result \in {0, 1}
      OBVIOUS
    <2>2. complete \in BOOLEAN /\ preserve \in BOOLEAN
      OBVIOUS
    <2> QED
      BY <2>1, <2>2 DEF LoaderType
  <1>2. CheckerType
    BY DEF CheckerType, CheckerPCs
  <1>3. KernelType
    <2>1. pinned \in [PinNames -> 0..MaxLoaders] /\ attached \in 0..MaxLoaders
      OBVIOUS
    <2>2. flags \in [Epochs -> SUBSET Flags] /\ exported \in SUBSET (0..MaxLoaders)
      OBVIOUS
    <2>3. /\ claims \in [Epochs -> [Queues -> Receivers \cup {NoOne}]]
          /\ xskmap \in [Epochs -> [Queues -> Receivers \cup {NoOne}]]
      OBVIOUS
    <2> QED
      BY <2>1, <2>2, <2>3 DEF KernelType
  <1>4. ReceiverType
    BY DEF ReceiverType, ReceiverPCs
  <1>5. RecovererType
    BY DEF RecovererType
  <1> QED
    BY <1>1, <1>2, <1>3, <1>4, <1>5 DEF TypeOK

(* The control points, positions and keys of the checkers, in each action  *)
(* of the loader ...                                                       *)
LEMMA CheckerTypeLoader ==
  ASSUME TypeOK, Positions, LoaderNext
  PROVE  CheckerType'
  <1> USE DEF TypeOK, CheckerType, Checkers, CheckerPCs, Goto, Exit
  <1>1. CASE LoaderStart
    BY <1>1 DEF LoaderStart
  <1>2. CASE LoaderPin
    BY <1>2 DEF LoaderPin, Positions, Pins
  <1>3. CASE LoaderRollbackPin
    BY <1>3 DEF LoaderRollbackPin, Positions, Pins
  <1>4. CASE LoaderGiveUp
    BY <1>4 DEF LoaderGiveUp
  <1>5. CASE LoaderAttach
    BY <1>5 DEF LoaderAttach
  <1>6. CASE LoaderPublishApplying
    BY <1>6 DEF LoaderPublishApplying
  <1>7. CASE LoaderPublishApplied
    BY <1>7 DEF LoaderPublishApplied
  <1>8. CASE LoaderReady
    BY <1>8 DEF LoaderReady
  <1>9. CASE LoaderAbort
    BY <1>9 DEF LoaderAbort
  <1>10. CASE LoaderStop
    BY <1>10 DEF LoaderStop
  <1>11. CASE LoaderPublishStopping
    BY <1>11 DEF LoaderPublishStopping
  <1>12. CASE LoaderLeaveAttached
    BY <1>12 DEF LoaderLeaveAttached
  <1>13. CASE LoaderDetach
    BY <1>13 DEF LoaderDetach
  <1>14. CASE LoaderExport
    BY <1>14 DEF LoaderExport
  <1>15. CASE LoaderRestore
    BY <1>15 DEF LoaderRestore
  <1>16. CASE LoaderUnpin
    BY <1>16 DEF LoaderUnpin, Positions, Pins
  <1>17. CASE LoaderCrash
    BY <1>17 DEF LoaderCrash
  <1>18. CASE InspectClaims(Loader, epoch)
    BY <1>18 DEF InspectClaims, Keys
  <1>19. CASE ClaimVanished(Loader, epoch)
    BY <1>19 DEF ClaimVanished
  <1>20. CASE DeleteClaim(Loader, epoch)
    BY <1>20 DEF DeleteClaim
  <1> QED
    BY <1>1, <1>2, <1>3, <1>4, <1>5, <1>6, <1>7, <1>8, <1>9, <1>10, <1>11,
       <1>12, <1>13, <1>14, <1>15, <1>16, <1>17, <1>18, <1>19, <1>20
    DEF LoaderNext

(* ... and of a recovery.                                                  *)
LEMMA CheckerTypeRecover ==
  ASSUME TypeOK, Positions, NEW x \in Recoverers, RecoverNext(x)
  PROVE  CheckerType'
  <1> USE DEF TypeOK, CheckerType, Checkers, CheckerPCs, Goto, Exit, RecoverEnd
  <1>1. CASE RecoverRead(x)
    BY <1>1 DEF RecoverRead
  <1>2. CASE RecoverPublishStopping(x)
    BY <1>2 DEF RecoverPublishStopping
  <1>3. CASE RecoverOpen(x)
    BY <1>3 DEF RecoverOpen
  <1>4. CASE RecoverDetach(x)
    BY <1>4 DEF RecoverDetach
  <1>5. CASE RecoverRestore(x)
    BY <1>5 DEF RecoverRestore
  <1>6. CASE RecoverExport(x)
    BY <1>6 DEF RecoverExport
  <1>7. CASE RecoverUnpin(x)
    BY <1>7 DEF RecoverUnpin, Positions, Pins
  <1>8. CASE RecoverExit(x)
    BY <1>8 DEF RecoverExit
  <1>9. CASE InspectClaims(x, xo[x])
    BY <1>9 DEF InspectClaims, Keys
  <1>10. CASE ClaimVanished(x, xo[x])
    BY <1>10 DEF ClaimVanished
  <1>11. CASE DeleteClaim(x, xo[x])
    BY <1>11 DEF DeleteClaim
  <1> QED
    BY <1>1, <1>2, <1>3, <1>4, <1>5, <1>6, <1>7, <1>8, <1>9, <1>10, <1>11
    DEF RecoverNext

(* What a recovery keeps in its memory.                                    *)
LEMMA RecovererTypeStep ==
  ASSUME TypeOK, NEW x \in Recoverers, RecoverNext(x)
  PROVE  RecovererType'
  <1> USE ConstantsAssumption DEF TypeOK, RecovererType, recoverVars, RecoverEnd
  <1>1. CASE RecoverRead(x)
    BY <1>1 DEF RecoverRead, KernelType, Flags, PinNames, Epochs
  <1>2. CASE RecoverPublishStopping(x)
    BY <1>2 DEF RecoverPublishStopping, Flags
  <1>3. CASE RecoverOpen(x)
    BY <1>3 DEF RecoverOpen, KernelType, PinNames
  <1>4. CASE RecoverDetach(x)
    BY <1>4 DEF RecoverDetach
  <1>5. CASE RecoverRestore(x)
    BY <1>5 DEF RecoverRestore, Flags
  <1>6. CASE RecoverExport(x)
    BY <1>6 DEF RecoverExport
  <1>7. CASE RecoverUnpin(x)
    <2>1. CASE pos[x] = Len(Pins)
      <3>1. RecoverEnd(x)
        BY <1>7, <2>1 DEF RecoverUnpin
      <3> QED
        BY <3>1
    <2>2. CASE pos[x] # Len(Pins)
      BY <1>7, <2>2 DEF RecoverUnpin
    <2> QED
      BY <2>1, <2>2
  <1>8. CASE RecoverExit(x)
    BY <1>8 DEF RecoverExit
  <1>9. CASE InspectClaims(x, xo[x])
    BY <1>9 DEF InspectClaims
  <1>10. CASE ClaimVanished(x, xo[x])
    BY <1>10 DEF ClaimVanished
  <1>11. CASE DeleteClaim(x, xo[x])
    BY <1>11 DEF DeleteClaim
  <1> QED
    BY <1>1, <1>2, <1>3, <1>4, <1>5, <1>6, <1>7, <1>8, <1>9, <1>10, <1>11
    DEF RecoverNext

(* What a receiver keeps in its memory.                                    *)
LEMMA ReceiverTypeStep ==
  ASSUME TypeOK, NEW r \in Receivers, ReceiverNext(r)
  PROVE  ReceiverType'
  <1> USE ConstantsAssumption
          DEF TypeOK, ReceiverType, ReceiverPCs, ReceiverGoto, ReceiverExit
  <1>1. CASE ReceiverOpenMaps(r)
    <2>1. ASSUME NEW m \in PinNames, NEW from, NEW to \in ReceiverPCs,
                 ReceiverOpen(r, from, m, to)
          PROVE  ReceiverType'
      <3>1. rpc' \in [Receivers -> ReceiverPCs]
        BY <2>1 DEF ReceiverOpen
      <3>2. rfd' \in [Receivers -> [ReceiverMaps -> 0..MaxLoaders]]
        BY <2>1 DEF ReceiverOpen, KernelType
      <3> QED
        BY <2>1, <3>1, <3>2 DEF ReceiverOpen
    <2> QED
      BY <1>1, <2>1 DEF ReceiverOpenMaps, PinNames
  <1>2. CASE ReceiverRead(r)
    BY <1>2 DEF ReceiverRead, Flags
  <1>3. CASE ReceiverRequireLive(r, "live", "validate")
    BY <1>3 DEF ReceiverRequireLive
  <1>4. CASE ReceiverValidate(r, "validate", "claim")
    BY <1>4 DEF ReceiverValidate
  <1>5. CASE ReceiverClaim(r)
    BY <1>5 DEF ReceiverClaim
  <1>6. CASE ReceiverReread(r)
    BY <1>6 DEF ReceiverReread
  <1>7. CASE ReceiverRequireLive(r, "live2", "validate2")
    BY <1>7 DEF ReceiverRequireLive
  <1>8. CASE ReceiverValidate(r, "validate2", "register")
    BY <1>8 DEF ReceiverValidate
  <1>9. CASE ReceiverRegister(r)
    BY <1>9 DEF ReceiverRegister
  <1>10. CASE ReceiverOut(r)
    <2>1. CASE UNCHANGED <<rfd, rflags>>
      BY <1>10, <2>1 DEF ReceiverOut
    <2>2. CASE ReceiverExit(r)
      BY <2>2
    <2> QED
      BY <1>10, <2>1, <2>2 DEF ReceiverOut
  <1>11. CASE ReceiverClose(r)
    BY <1>11 DEF ReceiverClose
  <1>12. CASE ReceiverRelease(r)
    <2>1. CASE UNCHANGED <<rfd, rflags>>
      BY <1>12, <2>1 DEF ReceiverRelease
    <2>2. CASE ReceiverExit(r)
      BY <2>2
    <2> QED
      BY <1>12, <2>1, <2>2 DEF ReceiverRelease
  <1>13. CASE ReceiverReleaseDelete(r)
    BY <1>13 DEF ReceiverReleaseDelete
  <1>14. CASE ReceiverCrash(r)
    BY <1>14 DEF ReceiverCrash
  <1> QED
    BY <1>1, <1>2, <1>3, <1>4, <1>5, <1>6, <1>7, <1>8, <1>9, <1>10, <1>11,
       <1>12, <1>13, <1>14
    DEF ReceiverNext

(* What the kernel holds: the pins, the program, and the maps.             *)
LEMMA KernelTypeLoader ==
  ASSUME TypeOK, LoaderNext
  PROVE  KernelType'
  <1> USE ConstantsAssumption DEF TypeOK, LoaderType, KernelType
  <1>1. pinned' \in [PinNames -> 0..MaxLoaders]
    <2>1. CASE LoaderPin
      BY <2>1 DEF LoaderPin
    <2>2. CASE LoaderRollbackPin
      BY <2>2 DEF LoaderRollbackPin
    <2>3. CASE LoaderUnpin
      BY <2>3 DEF LoaderUnpin
    <2> QED
      BY <2>1, <2>2, <2>3, LoaderChanges
  <1>2. attached' \in 0..MaxLoaders
    BY LoaderChanges DEF LoaderAttach, LoaderDetach
  <1>3. flags' \in [Epochs -> SUBSET Flags]
    <2>1. CASE LoaderPublishApplying
      BY <2>1 DEF LoaderPublishApplying, Flags
    <2>2. CASE LoaderPublishApplied
      BY <2>2 DEF LoaderPublishApplied, Flags
    <2>3. CASE LoaderPublishStopping
      BY <2>3 DEF LoaderPublishStopping, Flags
    <2>4. CASE LoaderRestore
      BY <2>4 DEF LoaderRestore, Flags
    <2> QED
      BY <2>1, <2>2, <2>3, <2>4, LoaderChanges
  <1>4. claims' \in [Epochs -> [Queues -> Receivers \cup {NoOne}]]
    <2>1. CASE DeleteClaim(Loader, epoch)
      <3>1. claims' = [claims EXCEPT ![epoch][cq[Loader]] = NoOne]
        BY <2>1 DEF DeleteClaim
      <3> QED
        BY <3>1
    <2> QED
      BY <2>1, LoaderChanges
  <1>5. exported' \in SUBSET (0..MaxLoaders)
    BY LoaderChanges DEF LoaderExport
  <1> QED
    BY <1>1, <1>2, <1>3, <1>4, <1>5, LoaderChanges

(* The same for the steps of a recoverer.                                  *)
LEMMA KernelTypeRecover ==
  ASSUME TypeOK, NEW x \in Recoverers, RecoverNext(x)
  PROVE  KernelType'
  <1> USE ConstantsAssumption DEF TypeOK, KernelType, RecovererType
  <1>1. pinned' \in [PinNames -> 0..MaxLoaders]
    <2>1. UNCHANGED pinned \/ RecoverUnpin(x)
      BY RecoverChanges
    <2>2. CASE RecoverUnpin(x)
      <3>1. pinned' = [pinned EXCEPT ![Pins[pos[x]]] = 0]
        BY <2>2 DEF RecoverUnpin
      <3>2. 0 \in 0..MaxLoaders
        OBVIOUS
      <3> QED
        BY <3>1, <3>2, UpdateType
    <2>3. CASE UNCHANGED pinned
      BY <2>3
    <2> QED
      BY <2>1, <2>2, <2>3
  <1>2. attached' \in 0..MaxLoaders
    BY RecoverChanges DEF RecoverDetach
  <1>3. flags' \in [Epochs -> SUBSET Flags]
    <2>1. CASE RecoverPublishStopping(x)
      BY <2>1 DEF RecoverPublishStopping, Flags
    <2>2. CASE RecoverRestore(x)
      BY <2>2 DEF RecoverRestore, Flags
    <2> QED
      BY <2>1, <2>2, RecoverChanges
  <1>4. claims' \in [Epochs -> [Queues -> Receivers \cup {NoOne}]]
    <2>1. UNCHANGED claims \/ DeleteClaim(x, xo[x])
      BY RecoverChanges
    <2>2. CASE DeleteClaim(x, xo[x])
      BY <2>2 DEF DeleteClaim
    <2>3. CASE UNCHANGED claims
      BY <2>3
    <2> QED
      BY <2>1, <2>2, <2>3
  <1>5. exported' \in SUBSET (0..MaxLoaders)
    <2>1. UNCHANGED exported \/ RecoverExport(x)
      BY RecoverChanges
    <2>2. CASE RecoverExport(x)
      BY <2>2 DEF RecoverExport
    <2>3. CASE UNCHANGED exported
      BY <2>3
    <2> QED
      BY <2>1, <2>2, <2>3
  <1> QED
    BY <1>1, <1>2, <1>3, <1>4, <1>5, RecoverChanges

(* The same for the steps of a receiver.                                   *)
LEMMA KernelTypeReceiver ==
  ASSUME TypeOK, NEW r \in Receivers, ReceiverNext(r)
  PROVE  KernelType'
  <1> USE ConstantsAssumption DEF TypeOK, KernelType
  <1>1. claims' \in [Epochs -> [Queues -> Receivers \cup {NoOne}]]
    <2>1. UNCHANGED claims \/ ReceiverClaim(r) \/ ReceiverReleaseDelete(r)
      BY ReceiverChanges
    <2>2. CASE ReceiverClaim(r)
      BY <2>2 DEF ReceiverClaim
    <2>3. CASE ReceiverReleaseDelete(r)
      BY <2>3 DEF ReceiverReleaseDelete
    <2>4. CASE UNCHANGED claims
      BY <2>4
    <2> QED
      BY <2>1, <2>2, <2>3, <2>4
  <1>2. xskmap' \in [Epochs -> [Queues -> Receivers \cup {NoOne}]]
    <2>1. UNCHANGED xskmap \/ ReceiverRegister(r) \/ ReceiverClose(r) \/ ReceiverCrash(r)
      BY ReceiverChanges
    <2>2. CASE ReceiverRegister(r)
      BY <2>2 DEF ReceiverRegister
    <2>3. CASE ReceiverClose(r)
      BY <2>3 DEF ReceiverClose, WithoutSocket
    <2>4. CASE ReceiverCrash(r)
      BY <2>4 DEF ReceiverCrash, WithoutSocket
    <2>5. CASE UNCHANGED xskmap
      BY <2>5
    <2> QED
      BY <2>1, <2>2, <2>3, <2>4, <2>5
  <1> QED
    BY <1>1, <1>2, ReceiverChanges

(* The loader's own variables.                                             *)
LEMMA LoaderTypeStep ==
  ASSUME TypeOK, LoaderNext
  PROVE  LoaderType'
  <1> USE DEF TypeOK, LoaderType
  <1>1. epoch' \in 0..MaxLoaders
    <2>1. CASE LoaderStart
      BY <2>1, ConstantsAssumption DEF LoaderStart
    <2> QED
      BY <2>1, LoaderChanges
  <1>2. complete' \in BOOLEAN /\ preserve' \in BOOLEAN /\ result' \in {0, 1}
    <2>1. CASE LoaderStart
      BY <2>1 DEF LoaderStart, loaderVars
    <2>2. CASE LoaderPin
      BY <2>2 DEF LoaderPin, loaderVars
    <2>3. CASE LoaderRollbackPin
      BY <2>3 DEF LoaderRollbackPin, loaderVars
    <2>4. CASE LoaderGiveUp
      BY <2>4 DEF LoaderGiveUp, loaderVars
    <2>5. CASE LoaderAttach
      BY <2>5 DEF LoaderAttach, loaderVars
    <2>6. CASE LoaderPublishApplying
      BY <2>6 DEF LoaderPublishApplying, loaderVars
    <2>7. CASE LoaderPublishApplied
      BY <2>7 DEF LoaderPublishApplied, loaderVars
    <2>8. CASE LoaderReady
      BY <2>8 DEF LoaderReady, loaderVars
    <2>9. CASE LoaderAbort
      BY <2>9 DEF LoaderAbort, loaderVars
    <2>10. CASE LoaderStop
      BY <2>10 DEF LoaderStop, loaderVars
    <2>11. CASE LoaderPublishStopping
      BY <2>11 DEF LoaderPublishStopping, loaderVars
    <2>12. CASE LoaderLeaveAttached
      BY <2>12 DEF LoaderLeaveAttached, loaderVars
    <2>13. CASE LoaderDetach
      BY <2>13 DEF LoaderDetach, loaderVars
    <2>14. CASE LoaderExport
      BY <2>14 DEF LoaderExport, loaderVars
    <2>15. CASE LoaderRestore
      BY <2>15 DEF LoaderRestore, loaderVars
    <2>16. CASE LoaderUnpin
      BY <2>16 DEF LoaderUnpin, loaderVars
    <2>17. CASE LoaderCrash
      BY <2>17 DEF LoaderCrash, loaderVars
    <2>18. CASE InspectClaims(Loader, epoch)
      BY <2>18 DEF InspectClaims, loaderVars
    <2>19. CASE ClaimVanished(Loader, epoch)
      BY <2>19 DEF ClaimVanished, loaderVars
    <2>20. CASE DeleteClaim(Loader, epoch)
      BY <2>20 DEF DeleteClaim, loaderVars
    <2> QED
      BY <2>1, <2>2, <2>3, <2>4, <2>5, <2>6, <2>7, <2>8, <2>9, <2>10, <2>11,
         <2>12, <2>13, <2>14, <2>15, <2>16, <2>17, <2>18, <2>19, <2>20
      DEF LoaderNext
  <1> QED
    BY <1>1, <1>2

(* Every step keeps the types (with Positions, which bounds the list of    *)
(* pins).                                                                  *)
LEMMA TypeStep == TypeOK /\ Positions /\ [Next]_vars => TypeOK'
  <1> SUFFICES ASSUME TypeOK, Positions, [Next]_vars PROVE TypeOK'
    OBVIOUS
  <1>1. CASE LoaderNext
    <2>1. ReceiverType' /\ RecovererType'
      BY <1>1, LoaderChanges DEF TypeOK, ReceiverType, RecovererType, recvVars, recoverVars
    <2> QED
      BY <1>1, <2>1, LoaderTypeStep, CheckerTypeLoader, KernelTypeLoader DEF TypeOK
  <1>2. ASSUME NEW x \in Recoverers, RecoverNext(x) PROVE TypeOK'
    <2>1. LoaderType' /\ ReceiverType'
      BY <1>2, RecoverChanges DEF TypeOK, LoaderType, ReceiverType, loaderVars, recvVars
    <2> QED
      BY <1>2, <2>1, CheckerTypeRecover, KernelTypeRecover, RecovererTypeStep DEF TypeOK
  <1>3. ASSUME NEW r \in Receivers, ReceiverNext(r) PROVE TypeOK'
    <2>1. LoaderType' /\ CheckerType' /\ RecovererType'
      BY <1>3, ReceiverChanges
      DEF TypeOK, LoaderType, CheckerType, RecovererType, checkerVars
    <2> QED
      BY <1>3, <2>1, KernelTypeReceiver, ReceiverTypeStep DEF TypeOK
  <1>4. CASE UNCHANGED vars
    BY <1>4 DEF vars, TypeOK, LoaderType, CheckerType, KernelType, ReceiverType,
                RecovererType
  <1> QED
    BY <1>1, <1>2, <1>3, <1>4 DEF Next

(* Positions stay within the list of pins.                                 *)
LEMMA PositionsLoader ==
  ASSUME TypeOK, Positions, LoaderNext
  PROVE  Positions'
  <1> USE ConstantsAssumption
      DEF TypeOK, CheckerType, Checkers, Positions, Goto, Exit
  <1>1. CASE LoaderStart
    BY <1>1 DEF LoaderStart
  <1>2. CASE LoaderPin
    BY <1>2 DEF LoaderPin, Pins
  <1>3. CASE LoaderRollbackPin
    BY <1>3 DEF LoaderRollbackPin
  <1>4. CASE LoaderGiveUp
    BY <1>4 DEF LoaderGiveUp
  <1>5. CASE LoaderAttach
    BY <1>5 DEF LoaderAttach
  <1>6. CASE LoaderPublishApplying
    BY <1>6 DEF LoaderPublishApplying
  <1>7. CASE LoaderPublishApplied
    BY <1>7 DEF LoaderPublishApplied
  <1>8. CASE LoaderReady
    BY <1>8 DEF LoaderReady
  <1>9. CASE LoaderAbort
    BY <1>9 DEF LoaderAbort
  <1>10. CASE LoaderStop
    BY <1>10 DEF LoaderStop
  <1>11. CASE LoaderPublishStopping
    BY <1>11 DEF LoaderPublishStopping
  <1>12. CASE LoaderLeaveAttached
    BY <1>12 DEF LoaderLeaveAttached
  <1>13. CASE LoaderDetach
    BY <1>13 DEF LoaderDetach
  <1>14. CASE LoaderExport
    BY <1>14 DEF LoaderExport
  <1>15. CASE LoaderRestore
    BY <1>15 DEF LoaderRestore
  <1>16. CASE LoaderUnpin
    BY <1>16 DEF LoaderUnpin, Pins
  <1>17. CASE LoaderCrash
    BY <1>17 DEF LoaderCrash
  <1>18. CASE InspectClaims(Loader, epoch)
    BY <1>18 DEF InspectClaims
  <1>19. CASE ClaimVanished(Loader, epoch)
    BY <1>19 DEF ClaimVanished
  <1>20. CASE DeleteClaim(Loader, epoch)
    BY <1>20 DEF DeleteClaim
  <1> QED
    BY <1>1, <1>2, <1>3, <1>4, <1>5, <1>6, <1>7, <1>8, <1>9, <1>10,
       <1>11, <1>12, <1>13, <1>14, <1>15, <1>16, <1>17, <1>18, <1>19,
       <1>20
    DEF LoaderNext

(* The steps of a recoverer keep the positions in range.                   *)
LEMMA PositionsRecover ==
  ASSUME TypeOK, Positions, NEW x \in Recoverers, RecoverNext(x)
  PROVE  Positions'
  <1> USE ConstantsAssumption
      DEF TypeOK, CheckerType, Checkers, Positions, Goto, Exit, RecoverEnd
  <1>1. CASE RecoverRead(x)
    BY <1>1 DEF RecoverRead
  <1>2. CASE RecoverPublishStopping(x)
    BY <1>2 DEF RecoverPublishStopping
  <1>3. CASE RecoverOpen(x)
    BY <1>3 DEF RecoverOpen
  <1>4. CASE RecoverDetach(x)
    BY <1>4 DEF RecoverDetach
  <1>5. CASE RecoverRestore(x)
    BY <1>5 DEF RecoverRestore
  <1>6. CASE RecoverExport(x)
    BY <1>6 DEF RecoverExport
  <1>7. CASE RecoverUnpin(x)
    BY <1>7 DEF RecoverUnpin, Pins
  <1>8. CASE RecoverExit(x)
    BY <1>8 DEF RecoverExit
  <1>9. CASE InspectClaims(x, xo[x])
    BY <1>9 DEF InspectClaims
  <1>10. CASE ClaimVanished(x, xo[x])
    BY <1>10 DEF ClaimVanished
  <1>11. CASE DeleteClaim(x, xo[x])
    BY <1>11 DEF DeleteClaim
  <1> QED
    BY <1>1, <1>2, <1>3, <1>4, <1>5, <1>6, <1>7, <1>8, <1>9, <1>10,
       <1>11
    DEF RecoverNext

(* Every step keeps the positions in range.                                *)
LEMMA PositionsStep == TypeOK /\ Positions /\ [Next]_vars => Positions'
  <1> SUFFICES ASSUME TypeOK, Positions, [Next]_vars PROVE Positions'
    OBVIOUS
  <1>1. ASSUME NEW r \in Receivers, ReceiverNext(r) PROVE Positions'
    BY <1>1, ReceiverChanges DEF checkerVars, Positions
  <1>2. CASE UNCHANGED vars
    BY <1>2 DEF vars, Positions
  <1> QED
    BY <1>1, <1>2, PositionsLoader, PositionsRecover DEF Next

(* The positions are in range at the start.                                *)
LEMMA PositionsInit == Init => Positions
  BY DEF Init, Positions, Checkers

(* Type correctness of the whole lifecycle: every pin, map entry, flag and *)
(* file descriptor stays in its type, and no process walks off the list of *)
(* pins (pin_measurement_maps, cleanup_recovery_pins).                     *)
THEOREM TypeCorrect == Spec => []TypeOK
  <1>1. Init => TypeOK /\ Positions
    BY TypeInit, PositionsInit
  <1>2. TypeOK /\ Positions /\ [Next]_vars => (TypeOK /\ Positions)'
    BY TypeStep, PositionsStep
  <1> QED
    BY <1>1, <1>2, PTL DEF Spec
=============================================================================
