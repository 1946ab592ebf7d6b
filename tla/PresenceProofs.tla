--------------------------- MODULE PresenceProofs ---------------------------
(***************************************************************************)
(* The verdict of the check stack, for any number of managed resources,    *)
(* Deployments and ConfigMaps and any number of errors.                    *)
(***************************************************************************)
EXTENDS Presence, SequenceTheorems, TLAPS

(* What a check that passed has seen, for a cluster that stays up.         *)
Stands(r) ==
    /\ r.name = "rds-pitr-ready" => r.listed # {} /\ \A m \in r.listed : m \in MRs /\ Ready(m)
    /\ r.name = "configmaps-cloned" => \A c \in requiredConfigMaps : clone[c] = "full"
    /\ r.name = "saas-deployments-ready" =>
          r.listed # {} /\ \A d \in r.listed : d \in Deployments /\ deployment[d] = "ready"
    /\ r.name = "canary-create-succeeded" => canary = "succeeded"

(* The reports are those of the checks in their order, and what the passed *)
(* ones saw still stands.                                                  *)
InOrder == \A i \in 1..Len(results) : results[i].name = presenceChecks[i]
Standing == \A i \in 1..Len(results) : steady /\ results[i].passed => Stands(results[i])

(* An MR that the first check was shown is there from then on, and so in   *)
(* the second's list.                                                      *)
StillThere == \A i \in 1..Len(results) :
    results[i].name = "mr-conditions-actionable" => results[i].listed \subseteq Listed
Covered == Len(results) >= 2 /\ results[2].passed => results[1].listed \subseteq results[2].listed

GroundedInv == TypeOK /\ InOrder /\ Standing /\ StillThere /\ Covered

-----------------------------------------------------------------------------
(* One check.                                                              *)

LEMMA Names ==
    CheckNames = {"mr-conditions-actionable", "rds-pitr-ready", "configmaps-cloned",
                  "saas-deployments-ready", "canary-create-succeeded"}
<1>1. DOMAIN presenceChecks = 1..5
  BY DEF presenceChecks
<1>2. 1..5 = {1, 2, 3, 4, 5}
  OBVIOUS
<1> QED BY <1>1, <1>2 DEF CheckNames, presenceChecks

LEMMA HoldsIsBoolean ==
    ASSUME NEW n \in CheckNames
    PROVE  Holds(n) \in BOOLEAN
<1>1. CASE n = "mr-conditions-actionable"
  BY <1>1 DEF Holds, mrConditionsActionable
<1>2. CASE n = "rds-pitr-ready"
  BY <1>2 DEF Holds, rdsReady
<1>3. CASE n = "configmaps-cloned"
  BY <1>3 DEF Holds, configMapsCloned
<1>4. CASE n = "saas-deployments-ready"
  BY <1>4 DEF Holds, deploymentsReady
<1>5. CASE n = "canary-create-succeeded"
  BY <1>5 DEF Holds, canaryCreateSucceeded
<1> QED BY <1>1, <1>2, <1>3, <1>4, <1>5, Names

LEMMA Checks ==
    /\ Len(presenceChecks) = 5
    /\ \A i \in 1..5 : presenceChecks[i] \in CheckNames
    /\ presenceChecks[1] = "mr-conditions-actionable"
    /\ presenceChecks[2] = "rds-pitr-ready" /\ presenceChecks[3] = "configmaps-cloned"
    /\ presenceChecks[4] = "saas-deployments-ready" /\ presenceChecks[5] = "canary-create-succeeded"
<1>1. DOMAIN presenceChecks = 1..5 /\ Len(presenceChecks) = 5
  BY DEF presenceChecks
<1>2. \A i \in 1..5 : presenceChecks[i] \in CheckNames
  BY <1>1, Zenon DEF CheckNames
<1> QED BY <1>1, <1>2 DEF presenceChecks

LEMMA CheckOrder ==
    /\ \A i, k \in 1..5 : presenceChecks[i] = presenceChecks[k] => i = k
    /\ \A n \in CheckNames : \E i \in 1..5 : n = presenceChecks[i]
<1>1. DOMAIN presenceChecks = 1..5
  BY DEF presenceChecks
<1> QED BY <1>1 DEF CheckNames, presenceChecks

LEMMA ReportCount ==
    ASSUME TypeOK
    PROVE  results \in Seq(Reports) /\ Len(results) \in Nat /\ Len(results) <= 5
<1>1. results \in Seq(Reports)
  BY DEF TypeOK
<1>2. Len(results) <= 5
  BY Checks DEF TypeOK
<1> QED BY <1>1, <1>2, LenProperties

LEMMA OneMore == \A k \in Nat : k <= 5 /\ k # 5 => k + 1 \in 1..5
OBVIOUS

LEMMA AnswerTyped ==
    ASSUME TypeOK, Len(results) + 1 \in 1..5
    PROVE  /\ Answer \in Reports /\ NoAnswer \in Reports
           /\ NoAnswer.listed = {} /\ (NoAnswer.passed => Current = "mr-conditions-actionable")
<1>1. Current \in CheckNames
  BY Checks DEF Current
<1>2. Holds(Current) \in BOOLEAN
  BY <1>1, HoldsIsBoolean
<1>3. Lists(Current) \subseteq MRs \cup Deployments
  BY DEF Lists, Listed, ListedDeployments
<1>4. PassedOnError(Current) \in BOOLEAN
  BY DEF PassedOnError
<1> QED BY <1>1, <1>2, <1>3, <1>4 DEF Answer, NoAnswer, Reports, PassedOnError

(* One run of a check appends one report: of that check, and truthful      *)
(* unless an error let it pass.                                            *)
LEMMA OneReport ==
    ASSUME TypeOK, RunCheck
    PROVE  /\ Len(results) + 1 \in 1..5
           /\ UNCHANGED cluster
           /\ \E r \in Reports :
                 /\ results' = Append(results, r)
                 /\ r.name = presenceChecks[Len(results) + 1]
                 /\ r.listed \in {{}, Lists(r.name)}
                 /\ \/ r.passed => Holds(r.name) /\ r.listed = Lists(r.name)
                    \/ r.name = "mr-conditions-actionable"
<1>1. Len(results) + 1 \in 1..5
  <2>1. ~Finished
    BY Zenon DEF RunCheck
  <2>2. Len(results) # 5
    BY <2>1, Checks, Zenon DEF Finished
  <2>3. Len(results) \in Nat /\ Len(results) <= 5
    BY ReportCount, Zenon
  <2> QED BY <2>2, <2>3, OneMore
<1>2. UNCHANGED cluster
  BY DEF RunCheck
<1>3. CASE results' = Append(results, Answer)
  <2>1. /\ Answer \in Reports /\ Answer.name = presenceChecks[Len(results) + 1]
        /\ Answer.listed = Lists(Answer.name)
        /\ Answer.passed => Holds(Answer.name)
    BY <1>1, AnswerTyped DEF Answer, Current
  <2> QED BY <1>1, <1>2, <1>3, <2>1
<1>4. CASE results' = Append(results, NoAnswer)
  <2>1. /\ NoAnswer \in Reports /\ NoAnswer.name = presenceChecks[Len(results) + 1]
        /\ NoAnswer.listed = {}
        /\ NoAnswer.passed => NoAnswer.name = "mr-conditions-actionable"
    BY <1>1, AnswerTyped DEF NoAnswer, Current
  <2> QED BY <1>1, <1>2, <1>4, <2>1
<1> QED BY <1>3, <1>4 DEF RunCheck

LEMMA WhatIsSeenStands ==
    ASSUME NEW r, Holds(r.name), r.listed = Lists(r.name), r.name # "mr-conditions-actionable"
    PROVE  Stands(r)
BY DEF Holds, Stands, Lists, rdsReady, configMapsCloned, deploymentsReady, canaryCreateSucceeded,
       Listed, ListedDeployments

(* An MR that is there stays, and in a steady cluster what is up stays up. *)
LEMMA MRsStay == ASSUME TypeOK, ClusterMoves PROVE Listed \subseteq Listed'
<1>1. ASSUME NEW m \in MRs, MRMoves(m) PROVE Listed \subseteq Listed'
  BY <1>1 DEF MRMoves, TypeOK, Listed
<1>2. UNCHANGED mr \/ \E m \in MRs : MRMoves(m)
  BY DEF ClusterMoves, CanaryMoves, DeploymentMoves, CloneAppears
<1> QED BY <1>1, <1>2 DEF Listed

LEMMA StillStands ==
    ASSUME TypeOK, steady, ClusterMoves, NEW r, Stands(r)
    PROVE  /\ r.name = "rds-pitr-ready" => r.listed # {} /\ \A m \in r.listed : m \in MRs /\ Ready(m)'
           /\ r.name = "configmaps-cloned" => \A c \in requiredConfigMaps : clone'[c] = "full"
           /\ r.name = "saas-deployments-ready" =>
                 r.listed # {} /\ \A d \in r.listed : d \in Deployments /\ deployment'[d] = "ready"
           /\ r.name = "canary-create-succeeded" => canary' = "succeeded"
<1>1. \A m \in MRs : Ready(m) => Ready(m)'
  <2>1. ASSUME NEW m \in MRs, MRMoves(m) PROVE \A x \in MRs : Ready(x) => Ready(x)'
    BY <2>1 DEF MRMoves, TypeOK, Ready
  <2>2. UNCHANGED mr \/ \E m \in MRs : MRMoves(m)
    BY DEF ClusterMoves, CanaryMoves, DeploymentMoves, CloneAppears
  <2> QED BY <2>1, <2>2 DEF Ready
<1>2. \A x \in Deployments : deployment[x] = "ready" => deployment'[x] = "ready"
  BY DEF ClusterMoves, CanaryMoves, MRMoves, DeploymentMoves, CloneAppears, TypeOK
<1>3. \A x \in requiredConfigMaps : clone[x] = "full" => clone'[x] = "full"
  BY DEF ClusterMoves, CanaryMoves, MRMoves, DeploymentMoves, CloneAppears, TypeOK
<1>4. canary = "succeeded" => canary' = "succeeded"
  BY DEF ClusterMoves, CanaryMoves, MRMoves, DeploymentMoves, CloneAppears
<1> QED BY <1>1, <1>2, <1>3, <1>4 DEF Stands

-----------------------------------------------------------------------------
(* The invariant.                                                          *)

LEMMA ClusterTyped ==
    ASSUME TypeOK, ClusterMoves
    PROVE  TypeOK'
<1>1. ASSUME NEW m \in MRs, MRMoves(m) PROVE mr' \in [MRs -> MRStates]
  BY <1>1 DEF MRMoves, TypeOK, MRStates
<1>2. ASSUME NEW d \in Deployments, DeploymentMoves(d)
      PROVE  deployment' \in [Deployments -> {"absent", "rolling", "ready"}]
  BY <1>2 DEF DeploymentMoves, TypeOK
<1>3. ASSUME NEW c \in requiredConfigMaps, CloneAppears(c)
      PROVE  clone' \in [requiredConfigMaps -> {"absent", "empty", "full"}]
  BY <1>3 DEF CloneAppears, TypeOK
<1>4. CanaryMoves => canary' \in {"absent", "running", "succeeded"}
  BY DEF CanaryMoves
<1>5. UNCHANGED <<steady, results, errors>>
  BY DEF ClusterMoves
<1>6. \/ UNCHANGED <<mr, deployment, clone>> /\ CanaryMoves
      \/ UNCHANGED <<deployment, clone, canary>> /\ \E m \in MRs : MRMoves(m)
      \/ UNCHANGED <<mr, clone, canary>> /\ \E d \in Deployments : DeploymentMoves(d)
      \/ UNCHANGED <<mr, deployment, canary>> /\ \E c \in requiredConfigMaps : CloneAppears(c)
  BY DEF ClusterMoves, CanaryMoves, MRMoves, DeploymentMoves, CloneAppears
<1>7. /\ mr' \in [MRs -> MRStates]
      /\ deployment' \in [Deployments -> {"absent", "rolling", "ready"}]
      /\ clone' \in [requiredConfigMaps -> {"absent", "empty", "full"}]
      /\ canary' \in {"absent", "running", "succeeded"}
  BY <1>1, <1>2, <1>3, <1>4, <1>6 DEF TypeOK
<1> QED BY <1>5, <1>7, Zenon DEF TypeOK

LEMMA CheckTyped ==
    ASSUME TypeOK, RunCheck
    PROVE  TypeOK'
<1>1. PICK r \in Reports : results' = Append(results, r)
  BY OneReport
<1>2. results' \in Seq(Reports) /\ Len(results') = Len(results) + 1
  BY <1>1, ReportCount, AppendProperties
<1>3. Len(results') <= Len(presenceChecks)
  BY <1>2, OneReport, Checks
<1>4. errors' \in 0..MaxErrors
  <2>1. UNCHANGED errors \/ (errors > 0 /\ errors' = errors - 1)
    BY Zenon DEF RunCheck
  <2> QED BY <2>1, PresenceAssumption DEF TypeOK
<1>5. UNCHANGED <<mr, deployment, clone, canary, steady>>
  BY Zenon DEF RunCheck, cluster
<1> QED BY <1>2, <1>3, <1>4, <1>5, Zenon DEF TypeOK

LEMMA CheckGrounded ==
    ASSUME GroundedInv, RunCheck
    PROVE  InOrder' /\ Standing' /\ StillThere' /\ Covered'
<1> USE DEF GroundedInv
<1>1. PICK r \in Reports :
         /\ results' = Append(results, r)
         /\ r.name = presenceChecks[Len(results) + 1]
         /\ r.listed \in {{}, Lists(r.name)}
         /\ \/ r.passed => Holds(r.name) /\ r.listed = Lists(r.name)
            \/ r.name = "mr-conditions-actionable"
  BY OneReport
<1>2. /\ Len(results') = Len(results) + 1
      /\ \A i \in 1..Len(results) : results'[i] = results[i]
      /\ results'[Len(results) + 1] = r
  BY <1>1, ReportCount, AppendProperties
<1>3. Len(results) \in Nat
  BY ReportCount
<1>4. UNCHANGED <<mr, deployment, clone, canary, steady>>
  BY Zenon DEF RunCheck, cluster
<1>5. r.passed => Stands(r)
  BY <1>1, WhatIsSeenStands DEF Stands
<1>6. \A i \in 1..Len(results') : i \in 1..Len(results) \/ i = Len(results) + 1
  BY <1>2, <1>3
<1>7. InOrder'
  BY <1>1, <1>2, <1>6 DEF InOrder
<1>8. ASSUME NEW i \in 1..Len(results'), steady', results'[i].passed PROVE Stands(results[i])'
  <2>1. steady
    BY <1>4, <1>8
  <2>2. Stands(results'[i])
    <3>1. CASE i \in 1..Len(results)
      BY <1>2, <1>8, <2>1, <3>1, Zenon DEF Standing
    <3>2. CASE i = Len(results) + 1
      BY <1>2, <1>5, <1>8, <3>2, Zenon
    <3> QED BY <1>6, <3>1, <3>2
  <2> QED BY <1>4, <2>2 DEF Stands, Ready
<1>9. Standing'
  BY <1>8, Zenon DEF Standing
<1>10. StillThere'
  <2>1. Listed' = Listed
    BY <1>4 DEF Listed
  <2>2. r.name = "mr-conditions-actionable" => r.listed \subseteq Listed
    BY <1>1 DEF Lists
  <2> QED BY <1>2, <1>6, <2>1, <2>2 DEF StillThere
<1>11. Covered'
  <2>1. CASE Len(results) = 0
    BY <1>2, <2>1 DEF Covered
  <2>2. CASE Len(results) = 1
    <3>1. results'[1] = results[1] /\ results'[2] = r /\ r.name = "rds-pitr-ready"
      BY <1>1, <1>2, <2>2, Checks
    <3>2. results[1].listed \subseteq Listed
      BY <2>2, Checks DEF InOrder, StillThere
    <3> QED BY <1>1, <3>1, <3>2 DEF Covered, Lists
  <2>3. CASE Len(results) >= 2
    BY <1>2, <1>3, <2>3 DEF Covered
  <2>4. \A k \in Nat : k = 0 \/ k = 1 \/ k >= 2
    OBVIOUS
  <2> QED BY <1>3, <2>1, <2>2, <2>3, <2>4, Zenon
<1> QED BY <1>7, <1>9, <1>10, <1>11

LEMMA GroundedStep ==
    ASSUME GroundedInv, [Next]_vars
    PROVE  GroundedInv'
<1>1. CASE RunCheck
  BY <1>1, CheckTyped, CheckGrounded DEF GroundedInv
<1>2. CASE ClusterMoves
  <2>1. UNCHANGED <<results, steady>>
    BY <1>2 DEF ClusterMoves
  <2>2. InOrder' /\ Covered'
    BY <2>1 DEF GroundedInv, InOrder, Covered
  <2>3. Standing'
    <3> SUFFICES ASSUME NEW i \in 1..Len(results), steady, results[i].passed
                 PROVE  Stands(results[i])'
      BY <2>1 DEF Standing
    <3>1. Stands(results[i])
      BY DEF GroundedInv, Standing
    <3> QED BY <1>2, <2>1, <3>1, StillStands DEF GroundedInv, Stands
  <2>4. StillThere'
    BY <1>2, <2>1, MRsStay DEF GroundedInv, StillThere
  <2> QED BY <1>2, <2>2, <2>3, <2>4, ClusterTyped DEF GroundedInv
<1>3. CASE UNCHANGED vars
  BY <1>3 DEF vars, GroundedInv, TypeOK, InOrder, Standing, Stands, Ready, StillThere, Listed, Covered
<1> QED BY <1>1, <1>2, <1>3 DEF Next

LEMMA GroundedInit ==
    ASSUME Init
    PROVE  GroundedInv
<1>1. Len(results) = 0 /\ results \in Seq(Reports)
  BY EmptySeq DEF Init
<1>2. TypeOK
  <2>1. errors \in 0..MaxErrors
    BY PresenceAssumption DEF Init
  <2>2. Len(results) <= Len(presenceChecks)
    BY <1>1, Checks
  <2>3. mr \in [MRs -> MRStates]
    BY DEF Init, MRStates
  <2> QED BY <1>1, <2>1, <2>2, <2>3, Zenon DEF Init, TypeOK
<1> QED BY <1>1, <1>2 DEF GroundedInv, InOrder, Standing, StillThere, Covered

(* The types, with the two facts the verdict rests on.                     *)
THEOREM StackCorrect == Spec => [](TypeOK /\ GroundedInv)
<1>1. GroundedInv => TypeOK
  BY DEF GroundedInv
<1> QED BY GroundedInit, GroundedStep, <1>1, PTL DEF Spec

LEMMA ListedByOne ==
    ASSUME GroundedInv, NEW k \in 1..5, Len(results) = 5
    PROVE  ListedBy(presenceChecks[k]) = results[k].listed
<1>1. DOMAIN results = 1..5
  BY ReportCount, LenProperties DEF GroundedInv
<1>2. {i \in DOMAIN results : results[i].name = presenceChecks[k]} = {k}
  BY <1>1, CheckOrder DEF GroundedInv, InOrder
<1> QED BY <1>2 DEF ListedBy

(* A success is grounded: when nothing that has come up goes down again,   *)
(* all the MRs and Deployments that the checks were shown at their         *)
(* different moments, with all ConfigMaps and the canary, are up together  *)
(* when the verdict is given, however the cluster grew in between and      *)
(* whichever calls failed.                                                 *)
THEOREM SuccessGrounded == Spec => []SucceededIsGrounded
<1>1. GroundedInv => SucceededIsGrounded
  <2> SUFFICES ASSUME GroundedInv, steady, Finished, Phase = "Succeeded"
               PROVE  SucceededIsGrounded
    BY DEF SucceededIsGrounded
  <2>1. Len(results) = 5 /\ DOMAIN results = 1..5
    BY Checks, ReportCount, LenProperties DEF Finished, GroundedInv
  <2>2. \A i \in 1..5 : results[i].passed
    BY <2>1 DEF Phase, allPassed
  <2>3. \A i \in 1..5 : Stands(results[i]) /\ results[i].name = presenceChecks[i]
    BY <2>1, <2>2 DEF GroundedInv, InOrder, Standing
  <2>4. /\ ListedBy("mr-conditions-actionable") = results[1].listed
        /\ ListedBy("rds-pitr-ready") = results[2].listed
        /\ ListedBy("saas-deployments-ready") = results[4].listed
    BY <2>1, ListedByOne, Checks
  <2>5. results[1].listed \subseteq results[2].listed
    BY <2>1, <2>2 DEF GroundedInv, Covered
  <2>6. results[2].listed # {} /\ \A m \in results[2].listed : Ready(m)
    BY <2>3, Checks DEF Stands
  <2>7. results[4].listed # {} /\ \A d \in results[4].listed : deployment[d] = "ready"
    BY <2>3, Checks DEF Stands
  <2>8. (\A c \in requiredConfigMaps : clone[c] = "full") /\ canary = "succeeded"
    BY <2>3, Checks DEF Stands
  <2> QED BY <2>4, <2>5, <2>6, <2>7, <2>8, Zenon DEF SucceededIsGrounded
<1> QED BY <1>1, StackCorrect, PTL

(* An operation on an MR that has failed for good as the run starts is     *)
(* what is reported first.                                                 *)
THEOREM FirstIsActionable == Spec => ActionableFirst
<1>1. GroundedInv /\ [Next]_vars
      => [results = <<>> /\ results' # <<>> /\ (\E m \in MRs : AsyncFailed(m))
          /\ results'[1].answered
          => results'[1].name = "mr-conditions-actionable" /\ ~results'[1].passed]_vars
  <2> SUFFICES ASSUME GroundedInv, Next, results = <<>>, results' # <<>>,
                      NEW m \in MRs, AsyncFailed(m), results'[1].answered
               PROVE  results'[1].name = "mr-conditions-actionable" /\ ~results'[1].passed
    BY Zenon DEF vars
  <2>1. RunCheck
    BY DEF Next, ClusterMoves
  <2>2. Len(results) + 1 = 1 /\ presenceChecks[1] = "mr-conditions-actionable"
    BY DEF presenceChecks
  <2>3. ~Holds("mr-conditions-actionable")
    BY DEF Holds, mrConditionsActionable, Listed, AsyncFailed
  <2>4. Current = "mr-conditions-actionable"
    BY <2>2 DEF Current
  <2>5. results' = Append(results, Answer) \/ results' = Append(results, NoAnswer)
    BY <2>1 DEF RunCheck
  <2>6. results'[1] = Answer \/ results'[1] = NoAnswer
    BY <2>5
  <2> QED BY <2>3, <2>4, <2>6 DEF Answer, NoAnswer
<1> QED BY <1>1, StackCorrect, PTL DEF Spec, ActionableFirst

-----------------------------------------------------------------------------
(* What verify reports.                                                    *)

Reported == {results[i].name : i \in 1..Len(results)}
Missing == {results[i].name : i \in {k \in 1..Len(results) : ~results[k].passed}}

LEMMA ReportedSoFar ==
    ASSUME GroundedInv
    PROVE  /\ DOMAIN results = 1..Len(results)
           /\ Reported = {presenceChecks[i] : i \in 1..Len(results)}
           /\ Reported \subseteq CheckNames
           /\ Finished <=> Reported = CheckNames
<1>1. DOMAIN results = 1..Len(results) /\ Len(results) \in Nat /\ Len(results) <= 5
  BY ReportCount, LenProperties DEF GroundedInv
<1>2. Reported = {presenceChecks[i] : i \in 1..Len(results)}
  BY DEF Reported, GroundedInv, InOrder
<1>3. Reported \subseteq CheckNames
  BY <1>1, <1>2, Checks
<1>4. CASE Finished
  <2>1. Len(results) = 5
    BY <1>4, Checks DEF Finished
  <2> QED BY <1>2, <1>3, <1>4, <2>1, CheckOrder
<1>5. CASE ~Finished
  <2>1. Len(results) # 5
    BY <1>5, Checks DEF Finished
  <2>2. 5 \notin 1..Len(results) /\ 1..Len(results) \subseteq 1..5
    BY <1>1, <2>1
  <2>3. presenceChecks[5] \notin Reported
    BY <1>2, <2>2, CheckOrder
  <2> QED BY <1>1, <1>2, <1>3, <1>5, <2>3, Checks
<1> QED BY <1>1, <1>2, <1>3, <1>4, <1>5

LEMMA ReportedThen == GroundedInv' => (Finished' <=> Reported' = CheckNames)
<1>1. GroundedInv => (Finished <=> Reported = CheckNames)
  BY ReportedSoFar
<1>2. (GroundedInv => (Finished <=> Reported = CheckNames))'
  BY <1>1, PTL
<1> QED BY <1>2

(* "never fail-fast": a run that is over has reported on each of the five  *)
(* checks, whatever failed on the way and whatever could not be asked.     *)
THEOREM AllReported ==
    Spec => [](Finished => {results[i].name : i \in DOMAIN results} = CheckNames)
<1>1. GroundedInv => (Finished => {results[i].name : i \in DOMAIN results} = CheckNames)
  BY ReportedSoFar DEF Reported
<1> QED BY <1>1, StackCorrect, PTL

(* The check stack as cmd/verify's loop sees it.  Of what the checks look  *)
(* for, the managed resources are objects a drill's teardown deletes.      *)
RdsNeeds == [n \in CheckNames |-> IF n = "rds-pitr-ready" THEN MRs ELSE {}]
Objects == MRs \cup {"verify", "cleanup", "restore-ns"}

Loop == INSTANCE Verify WITH
    Mode <- "presence", Items <- CheckNames, Needs <- RdsNeeds, MaxVerifyPods <- 1,
    VerifyJob <- "verify", CleanupJob <- "cleanup", RestoreNs <- "restore-ns", Peers <- {},
    MaxFaults <- 0, faults <- 0,
    obj <- [o \in Objects |-> IF o \in MRs /\ mr[o] = "absent" THEN "gone" ELSE "live"],
    cm <- [rv |-> 0, phase |-> "", cleanup |-> ""], published <- {},
    preserve <- FALSE, consent <- TRUE,
    vpc <- IF Finished THEN "create" ELSE "look",
    vtodo <- CheckNames \ Reported, vmissing <- Missing,
    vlive <- TRUE, vrv <- 0, vpods <- 1

(* What Append adds to the two sets.                                       *)
LEMMA ReportedGrows ==
    ASSUME GroundedInv, NEW r \in Reports, results' = Append(results, r)
    PROVE  /\ Reported' = Reported \cup {r.name}
           /\ Missing' = IF r.passed THEN Missing ELSE Missing \cup {r.name}
<1>1. /\ Len(results) \in Nat /\ Len(results') = Len(results) + 1
      /\ \A i \in 1..Len(results) : results'[i] = results[i]
      /\ results'[Len(results) + 1] = r
  BY ReportCount, AppendProperties DEF GroundedInv
<1>2. 1..Len(results') = 1..Len(results) \cup {Len(results) + 1}
  BY <1>1
<1>3. Reported' = {results'[i].name : i \in 1..Len(results)} \cup {r.name}
  BY <1>1, <1>2, Zenon DEF Reported
<1>4. Reported' = Reported \cup {r.name}
  BY <1>1, <1>3 DEF Reported
<1>5. \A n : n \in Missing' <=> n \in Missing \/ (~r.passed /\ n = r.name)
  BY <1>1, <1>2, Zenon DEF Missing
<1> QED BY <1>4, <1>5

LEMMA CheckIsLook ==
    ASSUME GroundedInv, RunCheck PROVE \E n \in CheckNames : Loop!LookAt(n)
<1>1. PICK r \in Reports :
         /\ results' = Append(results, r)
         /\ r.name = presenceChecks[Len(results) + 1]
         /\ r.passed => Holds(r.name) \/ r.name = "mr-conditions-actionable"
  BY OneReport DEF GroundedInv
<1>2. r.name \in CheckNames /\ r.passed \in BOOLEAN
  BY DEF Reports
<1>3. /\ Len(results) + 1 \in 1..5 /\ Len(results) \in Nat
      /\ Len(results') = Len(results) + 1 /\ ~Finished
  BY <1>1, OneReport, ReportCount, AppendProperties DEF GroundedInv, RunCheck
<1>4. r.name \notin Reported
  <2>1. \A i \in 1..Len(results) : i \in 1..5 /\ i # Len(results) + 1
    BY <1>3
  <2> QED BY <1>1, <1>3, <2>1, ReportedSoFar, CheckOrder
<1>5. /\ Reported' = Reported \cup {r.name}
      /\ Missing' = IF r.passed THEN Missing ELSE Missing \cup {r.name}
  BY <1>1, ReportedGrows
<1>6. Finished' <=> CheckNames \ Reported = {r.name}
  <2>1. GroundedInv'
    BY GroundedStep DEF Next
  <2>2. Finished' <=> Reported' = CheckNames
    BY <2>1, ReportedThen
  <2> QED BY <2>2, <1>2, <1>4, <1>5, ReportedSoFar
<1>7. r.passed => Loop!Findable(r.name)
  <2> SUFFICES ASSUME r.passed, r.name = "rds-pitr-ready"
               PROVE  \E m \in MRs : mr[m] # "absent"
    BY <1>2 DEF Loop!Findable, Loop!Present, RdsNeeds, Objects
  <2>1. Holds("rds-pitr-ready")
    BY <1>1
  <2> QED BY <2>1 DEF Holds, rdsReady, Listed
<1>8. UNCHANGED <<mr, deployment, clone, canary, steady>>
  BY Zenon DEF RunCheck, cluster
<1> QED BY <1>2, <1>3, <1>4, <1>5, <1>6, <1>7, <1>8 DEF Loop!LookAt, Loop!clusterVars

(* The check stack is the loop over items in cmd/verify's main as Verify   *)
(* has it in presence mode: it begins with every item still to be looked   *)
(* at, each check run is one LookAt, made with what the cluster holds by   *)
(* then, nothing else touches the Pod's state, and the verdict is the same *)
(* function of what was missing.                                           *)
Begun == CheckNames \ Reported = CheckNames /\ Missing = {}
Looking == (\E n \in CheckNames : Loop!LookAt(n)) \/ UNCHANGED Loop!verifyVars

THEOREM StackIsVerifysLoop == Spec => Begun /\ [][Looking]_vars /\ [](Phase = Loop!Verdict)
<1>1. Init => Begun
  BY EmptySeq DEF Init, Begun, Reported, Missing
<1>2. GroundedInv /\ [Next]_vars => [Looking]_vars
  <2> SUFFICES ASSUME GroundedInv, Next PROVE Looking
    OBVIOUS
  <2>1. CASE RunCheck
    BY <2>1, CheckIsLook DEF Looking
  <2>2. CASE ClusterMoves
    BY <2>2 DEF ClusterMoves, Looking, Loop!verifyVars, Finished, Reported, Missing
  <2> QED BY <2>1, <2>2 DEF Next
<1>3. GroundedInv => Phase = Loop!Verdict
  <2> SUFFICES ASSUME GroundedInv PROVE allPassed <=> Missing = {}
    BY DEF Phase, Loop!Verdict
  <2>1. DOMAIN results = 1..Len(results)
    BY ReportedSoFar
  <2> QED BY <2>1, Zenon DEF allPassed, Missing
<1> QED BY <1>1, <1>2, <1>3, StackCorrect, PTL DEF Spec
=============================================================================
