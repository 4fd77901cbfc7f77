------------------------- MODULE XskLifecycleProofs -------------------------
(***************************************************************************)
(* The claim protocol of XskLifecycle is safe: IInv is inductive, and with *)
(* it a receiver that captures keeps its program and its claim, and the    *)
(* lifecycle implements XskOwnership.                                      *)
(***************************************************************************)
EXTENDS XskLifecycleClaims

(* Zenon is tried first on every leaf, the SMT solver on what it leaves.   *)
USE ZenonT(5), SMTT(30)

(* A checker comes to a deletion or to the detach only by inspecting.      *)
LEMMA LoaderInspects ==
  ASSUME TypeOK, LoaderNext, pc'[Loader] \in {"delete", "detach"}
  PROVE  InspectClaims(Loader, ChecksIn(Loader))
  <1> USE DEF TypeOK, CheckerType, Checkers, Goto, Exit, ChecksIn
  <1>1. CASE LoaderStart
    BY <1>1 DEF LoaderStart
  <1>2. CASE LoaderPin
    BY <1>2 DEF LoaderPin
  <1>3. CASE LoaderRollbackPin
    BY <1>3 DEF LoaderRollbackPin
  <1>4. CASE LoaderGiveUp
    BY <1>4 DEF LoaderGiveUp
  <1>5. CASE LoaderAttach
    BY <1>5 DEF LoaderAttach
  <1>6. CASE LoaderPublishApplying
    BY <1>6 DEF LoaderPublishApplying
  <1>7. CASE LoaderPublishApplied
    BY <1>7 DEF LoaderPublishApplied
  <1>8. CASE LoaderReady
    BY <1>8 DEF LoaderReady
  <1>9. CASE LoaderAbort
    BY <1>9 DEF LoaderAbort
  <1>10. CASE LoaderStop
    BY <1>10 DEF LoaderStop
  <1>11. CASE LoaderPublishStopping
    BY <1>11 DEF LoaderPublishStopping
  <1>12. CASE LoaderLeaveAttached
    BY <1>12 DEF LoaderLeaveAttached
  <1>13. CASE LoaderDetach
    BY <1>13 DEF LoaderDetach
  <1>14. CASE LoaderExport
    BY <1>14 DEF LoaderExport
  <1>15. CASE LoaderRestore
    BY <1>15 DEF LoaderRestore
  <1>16. CASE LoaderUnpin
    BY <1>16 DEF LoaderUnpin
  <1>17. CASE LoaderCrash
    BY <1>17 DEF LoaderCrash
  <1>18. CASE InspectClaims(Loader, epoch)
    BY <1>18 DEF InspectClaims
  <1>19. CASE ClaimVanished(Loader, epoch)
    BY <1>19 DEF ClaimVanished
  <1>20. CASE DeleteClaim(Loader, epoch)
    BY <1>20 DEF DeleteClaim
  <1> QED
    BY <1>1, <1>2, <1>3, <1>4, <1>5, <1>6, <1>7, <1>8, <1>9, <1>10,
       <1>11, <1>12, <1>13, <1>14, <1>15, <1>16, <1>17, <1>18, <1>19,
       <1>20
    DEF LoaderNext

(* So does a recovery.                                                     *)
LEMMA RecoverInspects ==
  ASSUME TypeOK, NEW x \in Recoverers, RecoverNext(x), pc'[x] \in {"delete", "detach"}
  PROVE  InspectClaims(x, ChecksIn(x))
  <1>1. ChecksIn(x) = xo[x]
    BY ConstantsAssumption DEF ChecksIn
  <1>2. InspectClaims(x, xo[x])
    <2> USE DEF TypeOK, CheckerType, Checkers, Goto, Exit, RecoverEnd
    <2>1. CASE RecoverRead(x)
      BY <2>1 DEF RecoverRead
    <2>2. CASE RecoverPublishStopping(x)
      BY <2>2 DEF RecoverPublishStopping
    <2>3. CASE RecoverOpen(x)
      BY <2>3 DEF RecoverOpen
    <2>4. CASE RecoverDetach(x)
      BY <2>4 DEF RecoverDetach
    <2>5. CASE RecoverRestore(x)
      BY <2>5 DEF RecoverRestore
    <2>6. CASE RecoverExport(x)
      BY <2>6 DEF RecoverExport
    <2>7. CASE RecoverUnpin(x)
      BY <2>7 DEF RecoverUnpin
    <2>8. CASE RecoverExit(x)
      BY <2>8 DEF RecoverExit
    <2>9. CASE InspectClaims(x, xo[x])
      BY <2>9 DEF InspectClaims
    <2>10. CASE ClaimVanished(x, xo[x])
      BY <2>10 DEF ClaimVanished
    <2>11. CASE DeleteClaim(x, xo[x])
      BY <2>11 DEF DeleteClaim
    <2> QED
      BY <2>1, <2>2, <2>3, <2>4, <2>5, <2>6, <2>7, <2>8, <2>9, <2>10,
         <2>11
      DEF RecoverNext
  <1> QED
    BY <1>1, <1>2

(* A checker that is about to delete or to detach either has just          *)
(* inspected the claims or was already there before the step.              *)
LEMMA CheckerInspects ==
  ASSUME IInv, CheckerNext, NEW c \in Checkers, pc'[c] \in {"delete", "detach"}
  PROVE  \/ InspectClaims(c, ChecksIn(c)) /\ ChecksIn(c)' = ChecksIn(c)
         \/ /\ pc'[c] = pc[c] /\ cq'[c] = cq[c]
            /\ ChecksIn(c)' = ChecksIn(c) /\ StopsIn(c)' = StopsIn(c)
  <1>1. CASE LoaderNext
    <2>1. CASE c = Loader
      <3>1. InspectClaims(Loader, ChecksIn(Loader))
        BY <1>1, <2>1, LoaderInspects DEF IInv
      <3> QED
        BY <2>1, <3>1 DEF InspectClaims, ChecksIn, loaderVars
    <2>2. CASE c # Loader
      <3>1. c \in Recoverers
        BY <2>2 DEF Checkers
      <3> QED
        BY <1>1, <2>2, <3>1, LoaderLocal, LoaderChanges
        DEF IInv, ChecksIn, StopsIn, recoverVars
    <2> QED
      BY <2>1, <2>2
  <1>2. ASSUME NEW x \in Recoverers, RecoverNext(x)
        PROVE  \/ InspectClaims(c, ChecksIn(c)) /\ ChecksIn(c)' = ChecksIn(c)
               \/ /\ pc'[c] = pc[c] /\ cq'[c] = cq[c]
                  /\ ChecksIn(c)' = ChecksIn(c) /\ StopsIn(c)' = StopsIn(c)
    <2>1. CASE c = x
      <3>1. InspectClaims(x, ChecksIn(x))
        BY <1>2, <2>1, RecoverInspects DEF IInv
      <3> QED
        BY <2>1, <3>1, ConstantsAssumption DEF InspectClaims, ChecksIn, recoverVars
    <2>2. CASE c # x
      <3>1. c = Loader
        BY <2>2, OneRecovery DEF Checkers
      <3> QED
        BY <1>2, <2>2, <3>1, RecoverLocal, RecoverChanges
        DEF IInv, ChecksIn, StopsIn, loaderVars
    <2> QED
      BY <2>1, <2>2
  <1> QED
    BY <1>1, <1>2 DEF CheckerNext

(* DeletesDead: the holder of an inspected claim is dead, and stays dead.  *)
LEMMA DeletesDeadStep == IInv /\ [Next]_vars => DeletesDead'
  <1> SUFFICES ASSUME IInv, [Next]_vars, NEW c \in Checkers, pc'[c] = "delete"
               PROVE  /\ cq'[c] \in Queues
                      /\ NoPastOn(ChecksIn(c), cq[c])'
                      /\ \/ StoppingIn(ChecksIn(c))'
                         \/ /\ claims'[ChecksIn(c)'][cq'[c]] # NoOne
                            /\ rpc'[claims'[ChecksIn(c)'][cq'[c]]] = "done"
    BY DEF DeletesDead
  <1> DEFINE e == ChecksIn(c)
             q == cq[c]
             Dead == claims[e][q] # NoOne /\ rpc[claims[e][q]] = "done"
  <1> SUFFICES q' \in Queues /\ NoPastOn(e, q)' /\ (StoppingIn(e)' \/ Dead')
    OBVIOUS
  <1>1. pc[c] = "delete" =>
          e \in Epochs /\ q \in Queues /\ NoPastOn(e, q) /\ (StoppingIn(e) \/ Dead)
    BY CheckedEpochs DEF IInv, DeletesDead, Checking
  <1>2. CASE CheckerNext
    <2>1. CASE InspectClaims(c, e) /\ e' = e
      <3>0. e \in Epochs
        BY <2>1, CheckedEpochs DEF InspectClaims, IInv, Checking
      <3>1. /\ q' \in Queues /\ claims[e][q'] # NoOne
            /\ ~ReceiverAlive(claims[e][q'])
            /\ UNCHANGED <<claims, recvVars>>
        BY <2>1 DEF InspectClaims, Goto, Keys, IInv, TypeOK, CheckerType
      <3>2. claims[e][q'] \in Receivers /\ rpc[claims[e][q']] = "done"
        BY <3>0, <3>1 DEF ReceiverAlive, IInv, ClaimsByStarted, TypeOK, KernelType,
                          ReceiverType
      <3>3. ASSUME NEW r \in Receivers, PastIn(r, e) PROVE QueueOf[r] # q'
        BY <3>0, <3>2, <3>3 DEF IInv, ClaimHeld, PastIn, Past
      <3>4. NoPastOn(e, q)'
        BY <2>1, <3>1, <3>3 DEF NoPastOn, PastIn, Past, recvVars
      <3> QED
        BY <2>1, <3>1, <3>2, <3>4 DEF recvVars
    <2>2. CASE pc'[c] = pc[c] /\ q' = q /\ e' = e
      <3>1. pc[c] = "delete"
        BY <2>2
      <3>2. NoPastOn(e, q)'
        BY <1>1, <1>2, <2>2, <3>1, CheckerClaims DEF NoPastOn, PastIn, Past, recvVars
      <3>3. StoppingIn(e) => StoppingIn(e)'
        BY <1>1, <2>2, <3>1, StoppingStays DEF IInv, StoppingIn
      <3>4. CASE UNCHANGED claims
        BY <1>1, <1>2, <2>2, <3>1, <3>2, <3>3, <3>4, CheckerClaims DEF recvVars
      <3>5. ASSUME NEW d \in Checkers, pc[d] = "delete", pc'[d] = "claims",
                   ChecksIn(d) \in Epochs, cq[d] \in Queues,
                   \A f \in Epochs, k \in Queues :
                     claims'[f][k] = IF f = ChecksIn(d) /\ k = cq[d]
                                     THEN NoOne ELSE claims[f][k]
            PROVE  StoppingIn(e)' \/ Dead'
        <4>1. CASE d = Loader /\ e = ChecksIn(d)
          BY <3>3, <3>5, <4>1 DEF IInv, StoppingFirst, Checking, ChecksIn
        <4>2. CASE c = Loader
          BY <3>1, <3>3, <4>2 DEF IInv, StoppingFirst, Checking, ChecksIn
        <4>3. CASE e # ChecksIn(d)
          BY <1>1, <1>2, <2>2, <3>1, <3>3, <3>5, <4>3, CheckerClaims DEF recvVars
        <4>4. d = Loader \/ c = Loader
          <5>1. d # c
            BY <3>5
          <5> QED
            BY <5>1, OneRecovery DEF Checkers
        <4> QED
          BY <4>1, <4>2, <4>3, <4>4
      <3> QED
        BY <1>1, <1>2, <2>2, <3>1, <3>2, <3>3, <3>4, <3>5, CheckerClaims
    <2> QED
      BY <1>2, <2>1, <2>2, CheckerInspects
  <1>3. ASSUME NEW r \in Receivers, ReceiverNext(r)
        PROVE  q' \in Queues /\ NoPastOn(e, q)' /\ (StoppingIn(e)' \/ Dead')
    <2>0. pc[c] = "delete" /\ q' = q /\ e' = e /\ UNCHANGED flags
      BY <1>3, ReceiverChanges DEF checkerVars, ChecksIn
    <2>1. ASSUME NEW s \in Receivers, PastIn(s, e)' PROVE QueueOf[s] # q
      <3>1. PastIn(s, e) => QueueOf[s] # q
        BY <1>1, <2>0 DEF NoPastOn
      <3>2. ASSUME NEW f \in Epochs, f = e PROVE PastIn(s, f)'
        BY <2>0, <2>1, <3>2 DEF PastIn
      <3>3. CASE ~PastIn(s, e)
        <4>1. /\ s = r /\ rpc[r] = "reread" /\ ~StoppingIn(e)
              /\ claims[e][QueueOf[r]] = r
          BY <1>1, <1>3, <2>0, <3>2, <3>3, NewlyPast
        <4> QED
          BY <1>1, <2>0, <4>1
      <3> QED
        BY <3>1, <3>3
    <2>2. NoPastOn(e, q)'
      BY <2>0, <2>1 DEF NoPastOn
    <2>3. StoppingIn(e)' \/ Dead'
      <3>1. CASE StoppingIn(e)
        BY <2>0, <3>1 DEF StoppingIn
      <3>2. CASE ~StoppingIn(e)
        <4>1. Dead /\ e \in Epochs /\ q \in Queues
          BY <1>1, <2>0, <3>2
        <4>2. claims[e][q] # r /\ claims[e][q] \in Receivers
          BY <1>3, <4>1, ReceiverActive DEF IInv, TypeOK, KernelType
        <4>3. rpc[r] = "release_delete" /\ e = rfd[r]["xsk_owners"] /\ q = QueueOf[r]
                => FALSE
          BY <3>2, <4>2 DEF IInv, ReleasesOwn
        <4>4. claims'[e][q] = claims[e][q]
          BY <1>3, <4>1, <4>3, ReceiverClaims
        <4> QED
          BY <1>3, <2>0, <4>1, <4>2, <4>4, ReceiverLocal DEF IInv
      <3> QED
        BY <3>1, <3>2
    <2> QED
      BY <1>1, <2>0, <2>2, <2>3
  <1>4. CASE UNCHANGED vars
    <2>1. pc[c] = "delete" /\ q' = q /\ e' = e
      BY <1>4 DEF vars, ChecksIn
    <2>2. NoPastOn(e, q)'
      BY <1>1, <1>4, <2>1 DEF vars, NoPastOn, PastIn, Past
    <2> QED
      BY <1>1, <1>4, <2>1, <2>2 DEF vars, StoppingIn
  <1> QED
    BY <1>2, <1>3, <1>4 DEF Next, CheckerNext

(* DetachAlone: with no claim left nobody is past the re-read, and under   *)
(* STOPPING nobody gets there.                                             *)
LEMMA DetachAloneStep == IInv /\ [Next]_vars => DetachAlone'
  <1> SUFFICES ASSUME IInv, [Next]_vars, NEW c \in Checkers, pc'[c] = "detach",
                      ChecksIn(c)' = StopsIn(c)', NEW s \in Receivers,
                      PastIn(s, StopsIn(c))'
               PROVE  FALSE
    BY DEF DetachAlone
  <1> DEFINE e == StopsIn(c)
  <1>1. pc[c] = "detach" =>
          /\ e \in Epochs /\ StoppingIn(e)
          /\ ChecksIn(c) = e => ~PastIn(s, e)
    BY CheckedEpochs DEF IInv, DetachAlone, Checking
  <1>2. CASE CheckerNext
    <2>1. CASE InspectClaims(c, ChecksIn(c)) /\ ChecksIn(c)' = ChecksIn(c)
      <3>0. ChecksIn(c) \in Epochs
        BY <2>1, CheckedEpochs DEF InspectClaims, IInv, Checking
      <3>1. Keys(ChecksIn(c)) = {}
        BY <2>1 DEF InspectClaims, Goto, IInv, TypeOK, CheckerType
      <3>2. PastIn(s, ChecksIn(c))
        BY <1>2, <2>1, CheckerClaims DEF PastIn, Past, recvVars
      <3>3. claims[ChecksIn(c)][QueueOf[s]] = s
        BY <3>0, <3>2 DEF IInv, ClaimHeld
      <3> QED
        BY <3>1, <3>3, ConstantsAssumption DEF Keys
    <2>2. CASE pc'[c] = pc[c] /\ ChecksIn(c)' = ChecksIn(c) /\ StopsIn(c)' = StopsIn(c)
      BY <1>1, <1>2, <2>2, CheckerClaims DEF PastIn, Past, recvVars
    <2> QED
      BY <1>2, <2>1, <2>2, CheckerInspects
  <1>3. ASSUME NEW r \in Receivers, ReceiverNext(r) PROVE FALSE
    <2>0. pc[c] = "detach" /\ e' = e /\ ChecksIn(c) = e
      BY <1>3, ReceiverChanges DEF checkerVars, ChecksIn, StopsIn
    <2>1. ASSUME NEW f \in Epochs, f = e PROVE PastIn(s, f)'
      BY <2>0, <2>1 DEF PastIn
    <2> QED
      BY <1>1, <1>3, <2>0, <2>1, NewlyPast
  <1>4. CASE UNCHANGED vars
    BY <1>1, <1>4 DEF vars, ChecksIn, StopsIn, PastIn, Past
  <1> QED
    BY <1>2, <1>3, <1>4 DEF Next, CheckerNext

(* The claim of a receiver that validated the current program lies in the  *)
(* current maps.                                                           *)
LEMMA ValidatedPast ==
  ASSUME IInv, NEW s \in Receivers, rpc[s] \in {"register", "capture"}
  PROVE  attached = epoch /\ attached \in Epochs /\ PastIn(s, epoch)
  <1>1. /\ attached # 0 /\ attached \in {0, epoch}
        /\ rfd[s]["xsk_map"] = epoch /\ rfd[s]["runtime_config"] = epoch
    BY DEF IInv, Validated, CurrentOnly
  <1>2. /\ epoch \in Nat /\ epoch <= MaxLoaders /\ MaxLoaders \in Nat
        /\ rfd[s]["xsk_owners"] \in 1..epoch
        /\ rfd[s]["xsk_map"] <= rfd[s]["xsk_owners"]
    BY ConstantsAssumption DEF IInv, TypeOK, LoaderType, OpenOrder, FullyOpened
  <1> QED
    BY <1>1, <1>2 DEF PastIn, Past, Epochs

(* Nobody detaches the program of such a receiver.                         *)
LEMMA NotDetached ==
  ASSUME IInv, CheckerNext, NEW s \in Receivers, rpc[s] \in {"register", "capture"}
  PROVE  attached' = attached
  <1>0. attached = epoch /\ attached # 0 /\ PastIn(s, epoch)
    BY ValidatedPast DEF IInv, Validated
  <1>1. CASE LoaderNext
    <2>1. CASE LoaderAttach
      BY <1>0, <2>1 DEF LoaderAttach
    <2>2. CASE LoaderDetach
      BY <1>0, <2>2 DEF LoaderDetach, IInv, DetachAlone, ChecksIn, StopsIn, Checkers
    <2> QED
      BY <1>1, <2>1, <2>2, LoaderChanges
  <1>2. ASSUME NEW x \in Recoverers, RecoverNext(x) PROVE attached' = attached
    <2>1. CASE RecoverDetach(x)
      <3>1. xe[x] = epoch
        BY <1>0, <2>1 DEF RecoverDetach
      <3>2. xo[x] \in Nat /\ epoch \in Nat /\ xo[x] \in xe[x]..epoch
        BY <2>1, ConstantsAssumption
        DEF RecoverDetach, IInv, StoppingFirst, TypeOK, LoaderType, RecovererType
      <3>3. xo[x] = epoch
        BY <3>1, <3>2
      <3>4. x \in Checkers /\ ChecksIn(x) = epoch /\ StopsIn(x) = epoch
        BY <3>1, <3>3, ConstantsAssumption DEF Checkers, ChecksIn, StopsIn
      <3> QED
        BY <1>0, <2>1, <3>4 DEF RecoverDetach, IInv, DetachAlone
    <2> QED
      BY <1>2, <2>1, RecoverChanges
  <1> QED
    BY <1>1, <1>2 DEF CheckerNext

(* Validated: the second validate_attached_program stays true.             *)
LEMMA ValidatedStep == IInv /\ [Next]_vars => Validated'
  <1> SUFFICES ASSUME IInv, [Next]_vars, NEW s \in Receivers,
                      rpc'[s] \in {"register", "capture"}
               PROVE  /\ attached' # 0
                      /\ attached' = rfd'[s]["xsk_map"]
                      /\ attached' = rfd'[s]["runtime_config"]
    BY DEF Validated
  <1>0. rpc[s] \in {"register", "capture"} =>
          /\ attached # 0
          /\ attached = rfd[s]["xsk_map"]
          /\ attached = rfd[s]["runtime_config"]
    BY DEF IInv, Validated
  <1>1. CASE CheckerNext
    BY <1>0, <1>1, NotDetached, CheckerClaims DEF recvVars
  <1>2. ASSUME NEW r \in Receivers, ReceiverNext(r)
        PROVE  /\ attached' # 0
               /\ attached' = rfd'[s]["xsk_map"]
               /\ attached' = rfd'[s]["runtime_config"]
    <2>1. CASE s # r
      BY <1>0, <1>2, <2>1, ReceiverChanges, ReceiverLocal DEF IInv
    <2>2. CASE s = r
      <3> USE <1>0, <1>2, <2>2 DEF IInv, TypeOK, ReceiverType, ReceiverGoto,
                                   ReceiverExit
      <3>1. CASE ReceiverOpenMaps(r)
        BY <3>1 DEF ReceiverOpenMaps, ReceiverOpen
      <3>2. CASE ReceiverRead(r)
        BY <3>2 DEF ReceiverRead
      <3>3. CASE ReceiverRequireLive(r, "live", "validate")
        BY <3>3 DEF ReceiverRequireLive
      <3>4. CASE ReceiverValidate(r, "validate", "claim")
        BY <3>4 DEF ReceiverValidate
      <3>5. CASE ReceiverClaim(r)
        BY <3>5 DEF ReceiverClaim
      <3>6. CASE ReceiverReread(r)
        BY <3>6 DEF ReceiverReread
      <3>7. CASE ReceiverRequireLive(r, "live2", "validate2")
        BY <3>7 DEF ReceiverRequireLive
      <3>8. CASE ReceiverValidate(r, "validate2", "register")
        BY <3>8 DEF ReceiverValidate
      <3>9. CASE ReceiverRegister(r)
        BY <3>9 DEF ReceiverRegister
      <3>10. CASE ReceiverOut(r)
        BY <3>10 DEF ReceiverOut
      <3>11. CASE ReceiverClose(r)
        BY <3>11 DEF ReceiverClose
      <3>12. CASE ReceiverRelease(r)
        BY <3>12 DEF ReceiverRelease
      <3>13. CASE ReceiverReleaseDelete(r)
        BY <3>13 DEF ReceiverReleaseDelete
      <3>14. CASE ReceiverCrash(r)
        BY <3>14 DEF ReceiverCrash
      <3> QED
        BY <3>1, <3>2, <3>3, <3>4, <3>5, <3>6, <3>7, <3>8, <3>9,
           <3>10, <3>11, <3>12, <3>13, <3>14
        DEF ReceiverNext
    <2> QED
      BY <2>1, <2>2
  <1>3. CASE UNCHANGED vars
    BY <1>0, <1>3 DEF vars
  <1> QED
    BY <1>1, <1>2, <1>3 DEF Next, CheckerNext

(* SocketRegistered: only its owner's end empties an entry of xsk_map.     *)
LEMMA SocketRegisteredStep == IInv /\ [Next]_vars => SocketRegistered'
  <1> SUFFICES ASSUME IInv, [Next]_vars, NEW s \in Receivers, rpc'[s] = "capture"
               PROVE  xskmap'[rfd'[s]["xsk_map"]][QueueOf[s]] = s
    BY DEF SocketRegistered
  <1>0. rpc[s] = "capture" => xskmap[rfd[s]["xsk_map"]][QueueOf[s]] = s
    BY DEF IInv, SocketRegistered
  <1>a. /\ xskmap \in [Epochs -> [Queues -> Receivers \cup {NoOne}]]
        /\ QueueOf[s] \in Queues /\ s # NoOne
    BY ConstantsAssumption DEF IInv, TypeOK, KernelType
  <1>1. CASE CheckerNext
    BY <1>0, <1>1, CheckerClaims DEF recvVars
  <1>2. ASSUME NEW r \in Receivers, ReceiverNext(r)
        PROVE  xskmap'[rfd'[s]["xsk_map"]][QueueOf[s]] = s
    <2>1. CASE s # r
      <3>1. /\ rpc[s] = "capture" /\ rfd'[s] = rfd[s]
            /\ rfd[s]["xsk_map"] \in Epochs
        BY <1>2, <2>1, ReceiverLocal, OpenedEpochs DEF IInv
      <3>2. CASE ReceiverRegister(r)
        <4>1. rfd[r]["xsk_map"] \in Epochs /\ QueueOf[r] \in Queues
          BY <3>2, OpenedEpochs, ConstantsAssumption DEF IInv, ReceiverRegister
        <4> QED
          BY <1>0, <1>a, <3>1, <3>2, <4>1 DEF ReceiverRegister
      <3>3. CASE ReceiverClose(r)
        BY <1>0, <1>a, <2>1, <3>1, <3>3 DEF ReceiverClose, WithoutSocket
      <3>4. CASE ReceiverCrash(r)
        BY <1>0, <1>a, <2>1, <3>1, <3>4 DEF ReceiverCrash, WithoutSocket
      <3> QED
        BY <1>0, <1>2, <3>1, <3>2, <3>3, <3>4, ReceiverChanges
    <2>2. CASE s = r
      <3>1. ReceiverRegister(r)
        <4> USE <1>2, <2>2 DEF IInv, TypeOK, ReceiverType, ReceiverGoto, ReceiverExit
        <4>1. CASE ReceiverOpenMaps(r)
          BY <4>1 DEF ReceiverOpenMaps, ReceiverOpen
        <4>2. CASE ReceiverRead(r)
          BY <4>2 DEF ReceiverRead
        <4>3. CASE ReceiverRequireLive(r, "live", "validate")
          BY <4>3 DEF ReceiverRequireLive
        <4>4. CASE ReceiverValidate(r, "validate", "claim")
          BY <4>4 DEF ReceiverValidate
        <4>5. CASE ReceiverClaim(r)
          BY <4>5 DEF ReceiverClaim
        <4>6. CASE ReceiverReread(r)
          BY <4>6 DEF ReceiverReread
        <4>7. CASE ReceiverRequireLive(r, "live2", "validate2")
          BY <4>7 DEF ReceiverRequireLive
        <4>8. CASE ReceiverValidate(r, "validate2", "register")
          BY <4>8 DEF ReceiverValidate
        <4>9. CASE ReceiverRegister(r)
          BY <4>9 DEF ReceiverRegister
        <4>10. CASE ReceiverOut(r)
          BY <4>10 DEF ReceiverOut
        <4>11. CASE ReceiverClose(r)
          BY <4>11 DEF ReceiverClose
        <4>12. CASE ReceiverRelease(r)
          BY <4>12 DEF ReceiverRelease
        <4>13. CASE ReceiverReleaseDelete(r)
          BY <4>13 DEF ReceiverReleaseDelete
        <4>14. CASE ReceiverCrash(r)
          BY <4>14 DEF ReceiverCrash
        <4> QED
          BY <4>1, <4>2, <4>3, <4>4, <4>5, <4>6, <4>7, <4>8, <4>9,
             <4>10, <4>11, <4>12, <4>13, <4>14
          DEF ReceiverNext
      <3>2. rfd[r]["xsk_map"] \in Epochs
        BY <3>1, OpenedEpochs DEF IInv, ReceiverRegister
      <3> QED
        BY <1>a, <2>2, <3>1, <3>2 DEF ReceiverRegister
    <2> QED
      BY <2>1, <2>2
  <1>3. CASE UNCHANGED vars
    BY <1>0, <1>3 DEF vars
  <1> QED
    BY <1>1, <1>2, <1>3 DEF Next, CheckerNext

-----------------------------------------------------------------------------
(* Nothing is pinned, claimed or running at first.                         *)
LEMMA InvInit == Init => IInv
  <1> SUFFICES ASSUME Init PROVE IInv
    OBVIOUS
  <1>1. TypeOK /\ Positions
    BY TypeInit, PositionsInit
  <1> USE DEF Init, Checkers
  <1>2. CurrentOnly /\ OpenOrder /\ FirstCopy
    BY DEF CurrentOnly, OpenOrder, FullyOpened, FirstCopy, Past
  <1>3. StoppingFirst /\ ClaimsByStarted /\ ClaimBeforeReread
    BY DEF StoppingFirst, Checking, ClaimsByStarted, ClaimBeforeReread
  <1>4. ClaimHeld /\ DeletesDead /\ ReleasesOwn /\ DetachAlone
    BY DEF ClaimHeld, PastIn, Past, DeletesDead, ReleasesOwn, DetachAlone
  <1>5. Validated /\ SocketRegistered
    BY DEF Validated, SocketRegistered
  <1> QED
    BY <1>1, <1>2, <1>3, <1>4, <1>5 DEF IInv

(* Every step of every process keeps IInv.                                 *)
LEMMA InvStep == IInv /\ [Next]_vars => IInv'
  <1> SUFFICES ASSUME IInv, [Next]_vars PROVE IInv'
    OBVIOUS
  <1>1. TypeOK' /\ Positions' /\ CurrentOnly' /\ OpenOrder' /\ FirstCopy' /\ StoppingFirst'
    BY TypeStep, PositionsStep, CurrentOnlyStep, OpenOrderStep, FirstCopyStep,
       StoppingFirstStep DEF IInv
  <1>2. ClaimsByStarted' /\ ClaimBeforeReread' /\ ClaimHeld' /\ DeletesDead'
    BY ClaimsByStartedStep, ClaimBeforeRereadStep, ClaimHeldStep, DeletesDeadStep
  <1>3. ReleasesOwn' /\ DetachAlone' /\ Validated' /\ SocketRegistered'
    BY ReleasesOwnStep, DetachAloneStep, ValidatedStep, SocketRegisteredStep
  <1> QED
    BY <1>1, <1>2, <1>3 DEF IInv

(* IInv holds in every reachable state, for any number of receivers,       *)
(* queues and successive loaders.                                          *)
THEOREM Invariance == Spec => []IInv
  BY InvInit, InvStep, PTL DEF Spec

(* A receiver that captures does so through the attached program: neither  *)
(* the stopping loader nor --recover detaches it under a live claim.       *)
THEOREM CaptureProgram == Spec => []CaptureHasProgram
  <1>1. IInv => CaptureHasProgram
    BY DEF IInv, CaptureHasProgram, Registered, Validated
  <1> QED
    BY <1>1, Invariance, PTL

(* A receiver that captures still holds its claim in xsk_owners and its    *)
(* socket in xsk_map, although claims are deleted by key.                  *)
THEOREM CaptureClaim == Spec => []CaptureHasClaim
  <1>1. IInv => CaptureHasClaim
    <2> SUFFICES ASSUME IInv, NEW r \in Receivers, rpc[r] = "capture"
                 PROVE  /\ attached # 0
                        /\ claims[attached][QueueOf[r]] = r
                        /\ xskmap[attached][QueueOf[r]] = r
      BY DEF CaptureHasClaim, Registered
    <2>1. attached = epoch /\ attached \in Epochs /\ PastIn(r, epoch)
      BY ValidatedPast
    <2>2. attached # 0 /\ attached = rfd[r]["xsk_map"]
      BY DEF IInv, Validated
    <2> QED
      BY <2>1, <2>2 DEF IInv, ClaimHeld, SocketRegistered
  <1> QED
    BY <1>1, Invariance, PTL

-----------------------------------------------------------------------------
(* A step of the loader or of a recovery is an Attach, a Detach or nothing *)
(* in XskOwnership.                                                        *)
LEMMA CheckerRefines ==
  ASSUME IInv, CheckerNext
  PROVE  [Ownership!Next]_(Ownership!ownershipVars)
  <1>1. joinedProgram' = joinedProgram
    BY CheckerClaims DEF joinedProgram, Registered, recvVars
  <1>2. CASE attached' = attached
    BY <1>1, <1>2 DEF Ownership!ownershipVars
  <1>3. CASE attached' # attached
    <2>1. CASE LoaderNext /\ LoaderAttach
      <3>1. attached = 0 /\ attached' \in 1..MaxLoaders
        BY <2>1 DEF LoaderAttach, IInv, StoppingFirst, Epochs
      <3>2. Ownership!Attach
        BY <1>1, <3>1 DEF Ownership!Attach
      <3> QED
        BY <3>2 DEF Ownership!Next
    <2>2. CASE attached' = 0
      <3>1. \A s \in Receivers : joinedProgram[s] = 0
        BY <1>3, NotDetached DEF joinedProgram, Registered
      <3>2. Ownership!Detach
        BY <1>1, <1>3, <2>2, <3>1 DEF Ownership!Detach
      <3> QED
        BY <3>2 DEF Ownership!Next
    <2>3. ASSUME LoaderNext, ~LoaderAttach PROVE attached' = 0
      BY <1>3, <2>3, LoaderChanges DEF LoaderDetach
    <2>4. ASSUME NEW x \in Recoverers, RecoverNext(x) PROVE attached' = 0
      <3>1. RecoverDetach(x)
        BY <1>3, <2>4, RecoverChanges
      <3> QED
        BY <3>1 DEF RecoverDetach
    <2> QED
      BY <2>1, <2>2, <2>3, <2>4 DEF CheckerNext
  <1> QED
    BY <1>2, <1>3

(* A step of a receiver is its Join, its Leave or nothing.                 *)
LEMMA ReceiverRefines ==
  ASSUME IInv, NEW r \in Receivers, ReceiverNext(r)
  PROVE  [Ownership!Next]_(Ownership!ownershipVars)
  <1>0. attached' = attached
    BY ReceiverChanges
  <1>1. ASSUME NEW s \in Receivers, s # r PROVE joinedProgram'[s] = joinedProgram[s]
    BY <1>1, ReceiverLocal DEF joinedProgram, Registered, IInv
  <1>2. CASE joinedProgram'[r] = joinedProgram[r]
    <2>1. joinedProgram' = joinedProgram
      BY <1>1, <1>2 DEF joinedProgram
    <2> QED
      BY <1>0, <2>1 DEF Ownership!ownershipVars
  <1>3. CASE joinedProgram'[r] # joinedProgram[r]
    <2>1. joinedProgram' = [joinedProgram EXCEPT ![r] = joinedProgram'[r]]
      BY <1>1 DEF joinedProgram
    <2>2. CASE rpc[r] = "capture"
      <3>1. rpc'[r] # "capture"
        <4> USE <1>3, <2>2 DEF IInv, TypeOK, ReceiverType, ReceiverGoto, ReceiverExit,
                               joinedProgram, Registered
        <4>1. CASE ReceiverOpenMaps(r)
          BY <4>1 DEF ReceiverOpenMaps, ReceiverOpen
        <4>2. CASE ReceiverRead(r)
          BY <4>2 DEF ReceiverRead
        <4>3. CASE ReceiverRequireLive(r, "live", "validate")
          BY <4>3 DEF ReceiverRequireLive
        <4>4. CASE ReceiverValidate(r, "validate", "claim")
          BY <4>4 DEF ReceiverValidate
        <4>5. CASE ReceiverClaim(r)
          BY <4>5 DEF ReceiverClaim
        <4>6. CASE ReceiverReread(r)
          BY <4>6 DEF ReceiverReread
        <4>7. CASE ReceiverRequireLive(r, "live2", "validate2")
          BY <4>7 DEF ReceiverRequireLive
        <4>8. CASE ReceiverValidate(r, "validate2", "register")
          BY <4>8 DEF ReceiverValidate
        <4>9. CASE ReceiverRegister(r)
          BY <4>9 DEF ReceiverRegister
        <4>10. CASE ReceiverOut(r)
          BY <4>10 DEF ReceiverOut
        <4>11. CASE ReceiverClose(r)
          BY <4>11 DEF ReceiverClose
        <4>12. CASE ReceiverRelease(r)
          BY <4>12 DEF ReceiverRelease
        <4>13. CASE ReceiverReleaseDelete(r)
          BY <4>13 DEF ReceiverReleaseDelete
        <4>14. CASE ReceiverCrash(r)
          BY <4>14 DEF ReceiverCrash
        <4> QED
          BY <4>1, <4>2, <4>3, <4>4, <4>5, <4>6, <4>7, <4>8, <4>9,
             <4>10, <4>11, <4>12, <4>13, <4>14
          DEF ReceiverNext
      <3>2. joinedProgram[r] # 0 /\ joinedProgram'[r] = 0
        BY <2>2, <3>1 DEF joinedProgram, Registered, IInv, Validated
      <3>3. Ownership!Leave(r)
        BY <1>0, <2>1, <3>2 DEF Ownership!Leave
      <3> QED
        BY <3>3 DEF Ownership!Next
    <2>3. CASE rpc[r] # "capture"
      <3>1. rpc'[r] = "capture"
        BY <1>3, <2>3 DEF joinedProgram, Registered
      <3>2. attached' # 0 /\ rfd'[r]["xsk_map"] = attached'
        BY <3>1, InvStep DEF IInv, Validated, Next
      <3>3. joinedProgram[r] = 0 /\ joinedProgram'[r] = attached
        BY <1>0, <2>3, <3>1, <3>2 DEF joinedProgram, Registered
      <3>4. Ownership!Join(r)
        BY <1>0, <2>1, <3>2, <3>3 DEF Ownership!Join
      <3> QED
        BY <3>4 DEF Ownership!Next
    <2> QED
      BY <2>2, <2>3
  <1> QED
    BY <1>2, <1>3

(* The claim protocol implements XskOwnership: a receiver captures only    *)
(* through a program that stays attached until the receiver has left it.   *)
THEOREM Refinement == Spec => ImplementsOwnership
  <1>1. Init => Ownership!Init
    BY DEF Init, Ownership!Init, joinedProgram, Registered
  <1>2. IInv /\ [Next]_vars => [Ownership!Next]_(Ownership!ownershipVars)
    <2> SUFFICES ASSUME IInv, [Next]_vars
                 PROVE  [Ownership!Next]_(Ownership!ownershipVars)
      OBVIOUS
    <2>1. CASE UNCHANGED vars
      BY <2>1
      DEF vars, Ownership!ownershipVars, joinedProgram, Registered
    <2> QED
      BY <2>1, CheckerRefines, ReceiverRefines DEF Next, CheckerNext
  <1> QED
    BY <1>1, <1>2, Invariance, PTL DEF Spec, ImplementsOwnership, Ownership!Spec
=============================================================================
