---------------------------- MODULE AccessProofs ----------------------------
(***************************************************************************)
(* Proofs about Access, for any deployments, tokens and operations: the    *)
(* operations on access and the deployments together implement Revocation. *)
(*                                                                         *)
(* An item is shown as withdrawn when the commands of one transition have  *)
(* succeeded.  The invariant behind it follows what a runtime knows from   *)
(* the preflight over the files to the container: whatever was taken back  *)
(* and is still known to a runtime that is or may come up is covered by a  *)
(* command of that transition, its own STOP or the DEPLOY of its successor *)
(* (Coverage); what was shown is known to none (ShownIsUnknown), and the   *)
(* list of tokens shows no more than that, but for the tokens that were    *)
(* only rotated (GoneIsWithdrawn, EffectIsShown).  That a                  *)
(* STOP or a DEPLOY which has succeeded leaves nothing behind it rests on  *)
(* the rows: one that came to rest stays there or is given back (revived), *)
(* a failed one stays failed, and a predecessor is at rest when its        *)
(* successor is RUNNING.                                                   *)
(***************************************************************************)
EXTENDS Access, DeploymentProofs

USE DeploymentAssumption, AccessAssumption

-----------------------------------------------------------------------------
(* The invariant. *)

\* A failed row is not on its way; an UNHEALTHY one has failed, a RUNNING one was
\* activated, and one that is yet to come has neither happened to it nor a predecessor.
RowsAgree ==
    \A d \in Deployment :
        /\ phase[d] = "failed" => status[d] \notin InProgress \cup {"ABSENT"}
        /\ status[d] = "UNHEALTHY" => phase[d] = "failed"
        /\ status[d] = "RUNNING" => activated[d]
        /\ status[d] = "ABSENT" => ~activated[d] /\ previous[d] = NoDeployment

\* The deployment is over: it is at rest, or was given back after it had been.
Gone(d) == status[d] \in {"STOPPED", "FAILED"} \/ d \in revived

\* A deployment whose activation was completed, or whose command is effective, has no
\* predecessor left.
PredecessorGone ==
    \A n \in Deployment :
        activated[n] \/ deployCmd[n] = "effective" =>
            (previous[n] \in Deployment => Gone(previous[n]))

\* The runtimes that are, or may come, up and count.
Lively(d) ==
    /\ d \notin revived
    /\ status[d] \in InProgress \cup {"RUNNING", "STOPPING"}
    /\ phase[d] # "failed"

\* The item is in the bundle, for as long as the bundle is used.
Carries(b, i) ==
    \/ i[1] = "config" /\ b.rev = i[2]
    \/ i[1] = "token" /\ i[2] \in b.plain
    \/ i[1] = "secret" /\ b.secret = i[2]

\* The item is in the bundle with the end of its rotation, which is yet to come.
Lends(b, i) == i[1] = "token" /\ i[2] \in b.until /\ token[i[2]] \notin {"expired", "over"}

\* What a deployment's runtime knows, or will.
Known(d) == {loaded[d], files[d]} \cup {b \in {snap} : pc = "prepare" /\ d = run}

\* The deployment's runtime knows the item, or will.
Bears(d, i) == \E b \in Known(d) : Carries(b, i)
Knows(d, i) == \E b \in Known(d) : Carries(b, i) \/ Lends(b, i)

\* The last transition of the subject still waits for the end of the deployment.
Covered(d, s) ==
    \/ \E t \in Deployment \cup {Alone} : t # d /\ <<d, t>> \in latest[s]
    \/ \E n \in Deployment : <<n, n>> \in latest[s] /\ previous[n] = d

\* The item is not given to a runtime any more.
Stale(i) ==
    \/ i[1] = "config" /\ i[2] # 0 /\ i[2] < rev
    \/ i[1] = "token" /\ token[i[2]] \in {"expired", "over", "revoked"}
    \/ i[1] = "secret" /\ (i[2] < secret \/ (i[2] = secret /\ revoked))

\* What was taken back is not given out anew; what was rotated is not without an end.
WithdrawnIsStale ==
    /\ \A p \in withdrawn : Stale(p[1])
    /\ \A p \in replacedBy : token[p[1]] \notin {"absent", "active"}

\* A deployment that is yet to come knows nothing.
NothingKnown ==
    \A d \in Deployment : status[d] = "ABSENT" => loaded[d] = NoBundle /\ files[d] = NoBundle

\* Whoever knows an item that was taken back, or without an end one that was rotated,
\* is waited for.
Coverage ==
    \A d \in Deployment :
        Lively(d) =>
            /\ \A p \in withdrawn : Knows(d, p[1]) => Covered(d, p[2])
            /\ \A p \in replacedBy : Bears(d, <<"token", p[1]>>) => Covered(d, p[2])

\* What was shown was taken back, and nobody knows it.
ShownIsUnknown ==
    \A i \in shown :
        /\ \E s \in Subject : <<i, s>> \in withdrawn
        /\ \A d \in Deployment : Lively(d) => ~Knows(d, i)

\* A token that is gone, or will be, was taken back under its own name or by a rotation.
GoneIsWithdrawn ==
    \A t \in Token :
        token[t] \in {"expiring", "revoked", "expired", "over"} =>
            \/ <<<<"token", t>>, t>> \in withdrawn
            \/ \E p \in replacedBy : p[1] = t

\* What was taken back for a subject that waits for nobody was shown.
EffectIsShown == \A p \in withdrawn : latest[p[2]] = {} => p[1] \in shown

\* The revisions and versions, by the operations that made them.
Counted == rev <= ops + 1 /\ secret <= ops + 1

\* The inductive invariant.
AInv ==
    /\ KInv
    /\ AccessTypeOK
    /\ Counted
    /\ RowsAgree
    /\ PredecessorGone
    /\ WithdrawnIsStale
    /\ NothingKnown
    /\ Coverage
    /\ ShownIsUnknown
    /\ GoneIsWithdrawn
    /\ EffectIsShown

-----------------------------------------------------------------------------
(* What a step may do to a row. *)

\* The row as it is, but for its status.
Becomes(d, st) ==
    status'[d] = st /\ phase'[d] = phase[d] /\ activated'[d] = activated[d]

\* The row is left alone, created, asked to stop or stopped; it is on its way and stays
\* on it, arrives or fails; or it is restored.
Moves(d) ==
    \/ Becomes(d, status[d])
    \/ status[d] = "ABSENT" /\ Becomes(d, "PENDING")
    \/ Live(d) /\ Becomes(d, "STOPPING")
    \/ Becomes(d, "STOPPED")
    \/ /\ status[d] \in InProgress
       /\ status'[d] \in InProgress
       /\ phase'[d] = "failed" => phase[d] = "failed"
       /\ activated'[d] => activated[d]
    \/ /\ status[d] = "HEALTHCHECK"
       /\ status'[d] = "RUNNING"
       /\ phase'[d] # "failed"
       /\ activated'[d]
       /\ previous[d] \in Deployment => status'[previous[d]] = "STOPPED"
    \/ /\ status[d] \in InProgress \cup {"RUNNING"}
       /\ status'[d] \in {"UNHEALTHY", "FAILED"}
       /\ phase'[d] = "failed"
       /\ activated'[d] = activated[d]
    \/ status[d] \in {"STOPPING", "STOPPED"} /\ activated[d] /\ Becomes(d, "RUNNING")

\* The operations of the control plane.
LEMMA AsksMove == TypeOK /\ Asks => \A d \in Deployment : Moves(d)
<1> SUFFICES ASSUME TypeOK, Asks, NEW d \in Deployment PROVE Moves(d)
  OBVIOUS
<1> USE DEF lifecycle, request, project, commands, runner, locals
<1>1. ASSUME NEW n \in Deployment, NEW k, NEW t, NEW first, NEW S, \A c \in S : Live(c), Create(n, k, t, first, S)
      PROVE  Moves(d)
  <2>1. status[n] = "ABSENT" /\ UNCHANGED <<phase, activated>>
    BY <1>1 DEF Create, Fresh
  <2>2. status'[d] = IF d = n THEN "PENDING" ELSE IF d \in S THEN "STOPPING" ELSE status[d]
    BY <1>1 DEF Create, Stopping
  <2>3. QED
    BY <1>1, <2>1, <2>2 DEF Moves, Becomes
<1>2. CASE Enable
  BY <1>2 DEF Enable, Moves, Becomes
<1>3. CASE StopProject \/ Disable \/ \E c \in Deployment : Stop(c)
  BY <1>3 DEF StopProject, Disable, Stop, StopAll, Stopping, Moves, Becomes
<1>4. CASE \/ \E n \in Deployment, first \in BOOLEAN : Request(n, first)
           \/ \E n \in Deployment : Restart(n)
           \/ \E n, t \in Deployment : Rollback(n, t)
  BY <1>1, <1>4 DEF Request, Restart, Rollback
<1>5. ASSUME NEW n \in Deployment, NEW first \in BOOLEAN, RedeployActive(n, first) PROVE Moves(d)
  <2> DEFINE S == {c \in Deployment : Live(c) /\ (first \/ status[c] \in InProgress)}
  <2>1. Create(n, "deploy", NoDeployment, first, S) /\ \A c \in S : Live(c)
    BY <1>5 DEF RedeployActive
  <2> HIDE DEF S
  <2>2. QED
    BY <1>1, <2>1
<1>6. QED
  BY <1>2, <1>3, <1>4, <1>5 DEF Asks

\* The runner when it picks up a command.
LEMMA PicksUpMove == TypeOK /\ PicksUp => \A d \in Deployment : Moves(d)
<1> SUFFICES ASSUME TypeOK, PicksUp, NEW d \in Deployment PROVE Moves(d)
  OBVIOUS
<1>1. CASE UNCHANGED lifecycle
  BY <1>1 DEF lifecycle, Moves, Becomes
<1>2. ASSUME NEW c \in Deployment, DeployBegins(c) PROVE Moves(d)
  <2>1. /\ status[c] \in InProgress
        /\ status' = [status EXCEPT ![c] = "DEPLOYING"]
        /\ UNCHANGED <<phase, activated>>
    BY <1>2 DEF DeployBegins
  <2>2. QED
    BY <2>1 DEF TypeOK, Moves, Becomes, InProgress
<1>3. QED
  BY <1>1, <1>2 DEF PicksUp, DeployIsOver, DeployResumes, DeployRefused, StopStarts

\* A row is stopped, whatever it was.
LEMMA StopRowMoves ==
  ASSUME TypeOK, NEW x, StopRow(x), NEW d \in Deployment
  PROVE  Moves(d)
  BY DEF StopRow, TypeOK, Moves, Becomes

\* The runner's steps that go as they should.
LEMMA ProgressMoves == TypeOK /\ PreviousIsOther /\ Progress => \A d \in Deployment : Moves(d)
<1> SUFFICES ASSUME TypeOK, PreviousIsOther, Progress, NEW d \in Deployment PROVE Moves(d)
  OBVIOUS
<1>1. CASE UNCHANGED <<status, phase, activated>>
  BY <1>1 DEF Moves, Becomes
<1>2. CASE StopOldRow \/ SweepRow \/ StopTakesEffect(TRUE)
  BY <1>2, StopRowMoves DEF StopOldRow, SweepRow, StopTakesEffect
<1>3. CASE Start
  BY <1>3 DEF Start, TypeOK, Moves, Becomes, InProgress
<1>4. CASE BeginActivation
  <2>1. /\ status[run] = "HEALTHCHECK" /\ run \in Deployment
        /\ phase' = [phase EXCEPT ![run] = "verified"] /\ activated' = activated
        /\ status'[d] = IF d = previous[run] /\ active = d /\ status[d] = "RUNNING"
                          THEN "STOPPING" ELSE status[d]
    BY <1>4 DEF BeginActivation, MayActivate, TypeOK
  <2>2. QED
    BY <2>1 DEF TypeOK, Moves, Becomes, InProgress, Live, Stoppable
<1>5. CASE Retire
  BY <1>5 DEF Retire, MayRetire, TypeOK, Moves, Becomes, InProgress
<1>6. CASE Complete
  <2>1. /\ status[run] = "HEALTHCHECK" /\ run \in Deployment
        /\ phase' = [phase EXCEPT ![run] = "running"]
        /\ activated' = [activated EXCEPT ![run] = TRUE]
        /\ \A c \in Deployment : status'[c] = IF c = run THEN "RUNNING"
                                 ELSE IF c = previous[run] THEN "STOPPED" ELSE status[c]
    BY <1>6 DEF Complete, MayComplete, TypeOK
  <2>2. CASE d = run
    BY <2>1, <2>2 DEF TypeOK, PreviousIsOther, Moves
  <2>3. CASE d # run
    BY <2>1, <2>3 DEF TypeOK, Moves, Becomes
  <2>4. QED
    BY <2>2, <2>3
<1>7. CASE Recheck
  BY <1>7 DEF Recheck, MayRefresh, TypeOK, Moves, Becomes, InProgress
<1>8. CASE RestoreRow /\ active = run
  <2> DEFINE p == previous[run]
             back == Restorable(p)
             fails == status[run] \in {"HEALTHCHECK", "RUNNING"}
  <2>1. /\ run \in Deployment /\ activated' = activated
        /\ phase' = [phase EXCEPT ![run] = IF fails THEN "failed" ELSE @]
        /\ status'[d] = IF d = run /\ fails THEN "UNHEALTHY"
                        ELSE IF d = p /\ back THEN "RUNNING" ELSE status[d]
    BY <1>8 DEF RestoreRow, TypeOK
  <2>2. back => status[p] \in {"STOPPING", "STOPPED"} /\ activated[p]
    BY DEF Restorable
  <2>3. p # run
    BY <2>1 DEF PreviousIsOther
  <2> HIDE DEF p, back, fails
  <2>4. CASE d = run /\ fails
    <3>1. status[d] \in InProgress \cup {"RUNNING"}
      BY <2>4 DEF fails, InProgress
    <3>2. QED
      BY <2>1, <2>4, <3>1 DEF TypeOK, Moves
  <2>5. CASE d = run /\ ~fails
    BY <2>1, <2>3, <2>5 DEF TypeOK, Moves, Becomes
  <2>6. CASE d # run
    BY <2>1, <2>2, <2>6 DEF TypeOK, Moves, Becomes
  <2>7. QED
    BY <2>4, <2>5, <2>6
<1>9. CASE SettleForRetry
  BY <1>9 DEF SettleForRetry, lifecycle, TypeOK, Moves, Becomes, InProgress
<1>10. CASE SettleAsFailed
  BY <1>10 DEF SettleAsFailed, TypeOK, Moves, Becomes, InProgress
<1>11. QED
  <2>1. CASE \/ StopOld \/ StopRuntime \/ Prepare \/ StartRefused \/ Provision \/ ActivationRefused
             \/ RetireRefused \/ StopPrevious \/ RemovePrevious \/ Sweep \/ Verify
             \/ \E c \in Deployment : SweepStop(c)
    BY <1>1, <2>1 DEF StopOld, StopRuntime, Prepare, StartRefused, Provision, ActivationRefused,
                      RetireRefused, StopPrevious, RemovePrevious, Sweep, Verify, SweepStop, lifecycle
  <2>2. CASE StopCandidate \/ RestorePrevious \/ Cleanup(TRUE) \/ (RestoreRow /\ active # run)
    BY <1>1, <2>2 DEF StopCandidate, RestorePrevious, Cleanup, RestoreRow, lifecycle
  <2>3. QED
    BY <1>2, <1>3, <1>4, <1>5, <1>6, <1>7, <1>8, <1>9, <1>10, <2>1, <2>2 DEF Progress

\* The runner's steps that fail.
LEMMA FailingMoves == TypeOK /\ Failing => \A d \in Deployment : Moves(d)
<1> SUFFICES ASSUME TypeOK, Failing, NEW d \in Deployment PROVE Moves(d)
  OBVIOUS
<1>1. CASE UNCHANGED lifecycle
  BY <1>1 DEF lifecycle, Moves, Becomes
<1>2. CASE StopTakesEffect(FALSE)
  BY <1>2, StopRowMoves DEF StopTakesEffect
<1>3. QED
  BY <1>1, <1>2 DEF Failing, Abandon, PrepareFails, ProvisionFails, StopPreviousFails, StopOldFails,
     StopFails, CompleteFails, RemovePreviousFails, SweepFails, RecheckFails, StopCandidateFails,
     RestorePreviousFails, Cleanup

\* Every step.
LEMMA RowsMove == KInv /\ [Step]_vars => \A d \in Deployment : Moves(d)
<1>1. CASE UNCHANGED vars
  BY <1>1 DEF vars, lifecycle, Moves, Becomes
<1>2. QED
  BY <1>1, AsksMove, PicksUpMove, ProgressMoves, FailingMoves DEF Step, KInv, IInv

\* A command becomes effective for a deployment that is RUNNING.
LEMMA EffectiveIsRunning ==
  ASSUME TypeOK, [Step]_vars, NEW d \in Deployment, deployCmd'[d] = "effective", deployCmd[d] # "effective"
  PROVE  status[d] = "RUNNING"
<1> USE DEF commands
<1>1. \A e : ~DeployRaises(e)
  BY DEF DeployRaises, TypeOK
<1>2. CASE deployCmd' = deployCmd
  BY <1>2
<1>3. CASE Asks
  <2>1. \A n, k, t, first, S : Create(n, k, t, first, S) => FALSE
    BY DEF Create, TypeOK
  <2>2. QED
    BY <1>2, <1>3, <2>1 DEF Asks, Request, Restart, Rollback, RedeployActive, StopProject, Stop, Disable, Enable
<1>4. CASE PicksUp
  <2>1. ASSUME NEW c \in Deployment, DeployIsOver(c) PROVE FALSE
    BY <2>1 DEF DeployIsOver, Verdict, TypeOK, InProgress
  <2>2. QED
    BY <1>2, <1>4, <2>1 DEF PicksUp, DeployResumes, DeployRefused, DeployBegins, StopStarts
<1>5. CASE Progress
  <2>1. CASE Verify
    BY <2>1 DEF Verify, Verdict, TypeOK
  <2>2. CASE SettleForRetry
    BY <2>2 DEF SettleForRetry, Verdict, TypeOK
  <2>3. CASE SettleAsFailed
    BY <2>3 DEF SettleAsFailed, TypeOK
  <2>4. CASE RestoreRow
    BY <1>1, <1>2, <2>4 DEF RestoreRow, AfterRestore
  <2>5. QED
    BY <1>2, <1>5, <2>1, <2>2, <2>3, <2>4
    DEF Progress, StopOld, StopOldRow, StopRuntime, StopTakesEffect, Prepare, Start, StartRefused, Provision,
        BeginActivation, ActivationRefused, Retire, RetireRefused, StopPrevious, Complete, RemovePrevious,
        Sweep, SweepStop, SweepRow, Recheck, MayRefresh, StopCandidate, RestorePrevious, Cleanup
<1>6. CASE Failing
  BY <1>1, <1>2, <1>6 DEF Failing, Abandon, PrepareFails, ProvisionFails, StopPreviousFails, StopOldFails,
     StopFails, CompleteFails, RemovePreviousFails, SweepFails, RecheckFails, StopCandidateFails,
     RestorePreviousFails, Cleanup, StopTakesEffect
<1>7. CASE UNCHANGED vars
  BY <1>2, <1>7 DEF vars
<1>8. QED
  BY <1>3, <1>4, <1>5, <1>6, <1>7 DEF Step

\* A row's predecessor is fixed when the row is created.
LEMMA PreviousIsFixed ==
  ASSUME TypeOK, [Step]_vars, NEW d \in Deployment
  PROVE  \/ previous'[d] = previous[d]
         \/ status[d] = "ABSENT" /\ Becomes(d, "PENDING") /\ deployCmd'[d] = "due"
<1> USE DEF request
<1>1. CASE previous' = previous
  BY <1>1
<1>2. CASE Asks
  <2>1. ASSUME NEW n \in Deployment, NEW k, NEW t, NEW first, NEW S, Create(n, k, t, first, S)
        PROVE  \/ previous'[d] = previous[d]
               \/ status[d] = "ABSENT" /\ Becomes(d, "PENDING") /\ deployCmd'[d] = "due"
    BY <2>1 DEF Create, Fresh, Stopping, TypeOK, Becomes
  <2>2. QED
    BY <1>1, <1>2, <2>1 DEF Asks, Request, Restart, Rollback, RedeployActive, StopProject, Stop, Disable, Enable
<1>3. CASE PicksUp
  BY <1>1, <1>3 DEF PicksUp, DeployIsOver, DeployResumes, DeployRefused, DeployBegins, StopStarts
<1>4. CASE Progress
  BY <1>1, <1>4
  DEF Progress, StopOld, StopOldRow, StopRuntime, StopTakesEffect, Prepare, Start, StartRefused, Provision,
      BeginActivation, ActivationRefused, Retire, RetireRefused, StopPrevious, Complete, RemovePrevious,
      Sweep, SweepStop, SweepRow, Recheck, MayRefresh, StopCandidate, RestorePrevious, Cleanup, Verify, SettleForRetry,
      SettleAsFailed, RestoreRow
<1>5. CASE Failing
  BY <1>1, <1>5 DEF Failing, Abandon, PrepareFails, ProvisionFails, StopPreviousFails, StopOldFails,
     StopFails, CompleteFails, RemovePreviousFails, SweepFails, RecheckFails, StopCandidateFails,
     RestorePreviousFails, Cleanup, StopTakesEffect
<1>6. CASE UNCHANGED vars
  BY <1>1, <1>6 DEF vars
<1>7. QED
  BY <1>2, <1>3, <1>4, <1>5, <1>6 DEF Step

\* The runner prepares one deployment until it goes on to another step.
LEMMA PreparesOne ==
  ASSUME [Step]_vars, pc = "prepare", pc' = "prepare"
  PROVE  run' = run
<1> USE DEF runner, locals
<1>1. CASE Asks
  BY <1>1 DEF Asks, Create, Request, Restart, Rollback, RedeployActive, StopProject, Stop, Disable, Enable
<1>2. ~PicksUp
  BY DEF PicksUp, DeployDue, DeployIsOver, DeployResumes, DeployRefused, DeployBegins, StopStarts
<1>3. ASSUME Progress PROVE FALSE
  <2>1. Prepare
    BY <1>3
    DEF Progress, StopOld, StopOldRow, StopRuntime, StopTakesEffect, Start, StartRefused, Provision,
        BeginActivation, ActivationRefused, Retire, RetireRefused, StopPrevious, Complete, RemovePrevious,
        Sweep, SweepStop, SweepRow, Recheck, MayRefresh, StopCandidate, RestorePrevious, Cleanup, Verify, SettleForRetry,
        SettleAsFailed, RestoreRow
  <2>2. QED
    BY <2>1 DEF Prepare, Goto
<1>4. ASSUME Failing PROVE FALSE
  <2>1. Abandon \/ PrepareFails
    BY <1>4 DEF Failing, ProvisionFails, StopPreviousFails, StopOldFails,
     StopFails, CompleteFails, RemovePreviousFails, SweepFails, RecheckFails, StopCandidateFails,
     RestorePreviousFails, Cleanup, StopTakesEffect
  <2>2. QED
    BY <2>1 DEF Abandon, Leave, PrepareFails, Raise
<1>5. CASE UNCHANGED vars
  BY <1>5 DEF vars
<1>6. QED
  BY <1>1, <1>2, <1>3, <1>4, <1>5 DEF Step

-----------------------------------------------------------------------------
(* The steps of Access are steps of the deployments. *)

\* What an operation does for the runtimes.
Scheduled(items, s) ==
    \/ EffectByStop(items, s)
    \/ \E first \in BOOLEAN : Replaceable(first) /\ EffectByRedeploy(items, s, first)

\* An operation takes items back for a subject, and leaves the runtimes for later.
Operates(items, s) ==
    /\ Scheduled(items, s)
    /\ ops < MaxOps
    /\ ops' = ops + 1
    /\ UNCHANGED <<runtimes, revived, faults>>

\* The operations.
Operations ==
    \/ \E m \in {"static", "oidc", "dev"} : Configure(m)
    \/ \E n \in Token : CreateToken(n)
    \/ \E t, n \in Token, overlap \in BOOLEAN : RotateToken(t, n, overlap)
    \/ \E t \in Token : RevokeToken(t)
    \/ RotateSecret
    \/ RevokeCredential

\* The steps of the deployments.
Deploys == Requests \/ Begins \/ Materializes \/ Provisions \/ Removals \/ Others \/ Faults

\* A replacement that cannot be done is a stop.
LEMMA RedeploysAreScheduled ==
  ASSUME NEW items, NEW s, NEW first \in BOOLEAN, EffectByRedeploy(items, s, first)
  PROVE  Scheduled(items, s)
  BY DEF EffectByRedeploy, Scheduled

\* Either way the effect is scheduled.
LEMMA EffectsAreScheduled ==
  ASSUME NEW items, NEW s, ScheduleSecurityEffect(items, s)
  PROVE  Scheduled(items, s)
  BY RedeploysAreScheduled DEF ScheduleSecurityEffect, Scheduled

\* What is scheduled is a request to the control plane.
LEMMA ScheduledAsks ==
  ASSUME NEW items, NEW s, Scheduled(items, s)
  PROVE  Asks
  BY DEF Scheduled, EffectByStop, EffectByRedeploy, Asks

\* Every operation, with what it takes back and for whom.
LEMMA OperationsOperate ==
  ASSUME Operations
  PROVE  \E items, s : Operates(items, s)
<1>1. ASSUME NEW m, Configure(m) PROVE Operates({<<"config", r>> : r \in {rev} \ {0}}, "config")
  BY <1>1, EffectsAreScheduled DEF Configure, Operation, Operates
<1>2. ASSUME NEW n, CreateToken(n) PROVE Operates({}, n)
  BY <1>2, EffectsAreScheduled DEF CreateToken, Operation, Operates
<1>3. ASSUME NEW t, NEW n, NEW overlap, RotateToken(t, n, overlap)
      PROVE  Operates({<<"token", x>> : x \in {y \in {t} : ~overlap}}, n)
  BY <1>3, EffectsAreScheduled DEF RotateToken, Operation, Operates
<1>4. ASSUME NEW t, RevokeToken(t) PROVE Operates({<<"token", t>>}, t)
  BY <1>4, EffectsAreScheduled DEF RevokeToken, Operation, Operates
<1>5. RotateSecret => Operates({<<"secret", secret>>}, "credential")
  BY RedeploysAreScheduled DEF RotateSecret, Operation, Operates
<1>6. RevokeCredential => Operates({<<"secret", secret>>}, "credential")
  BY DEF RevokeCredential, Operation, Operates, Scheduled
<1>7. QED
  BY <1>1, <1>2, <1>3, <1>4, <1>5, <1>6 DEF Operations

\* The steps of Access.
LEMMA AccessSteps ==
  AccessNext => Operations \/ (\E t \in Token : Expire(t)) \/ Deploys
  BY DEF AccessNext, Operations, Deploys

\* A step of the deployments, with what it does besides.
LEMMA DeploysAside == Deploys => Step /\ Aside
<1>1. Requests => Asks /\ Aside
  BY DEF Requests, Asks
<1>2. Begins => PicksUp /\ Aside
  BY DEF Begins, PicksUp
<1>3. Materializes \/ Provisions \/ Removals => Progress /\ Aside
  BY DEF Materializes, Provisions, Removals, Removes, Progress
<1>4. Others => (PicksUp \/ Progress) /\ Aside
  BY DEF Others, PicksUp, Progress
<1>5. Faults => Failing /\ Aside
  BY DEF Faults
<1>6. QED
  BY <1>1, <1>2, <1>3, <1>4, <1>5 DEF Deploys, Step

\* Every step of Access is one of the deployments or leaves them alone.
LEMMA AccessIsStep == [AccessNext]_allVars => [Step]_vars
<1>1. Operations => Step
  BY OperationsOperate, ScheduledAsks DEF Operates, Step
<1>2. \A t \in Token : Expire(t) => UNCHANGED vars
  BY DEF Expire
<1>3. QED
  BY <1>1, <1>2, AccessSteps, DeploysAside DEF allVars

-----------------------------------------------------------------------------
(* The rows. *)

\* The rows agree at every step.
LEMMA RowsAgreeStep ==
  ASSUME KInv, RowsAgree, [Step]_vars
  PROVE  RowsAgree'
<1> SUFFICES ASSUME NEW d \in Deployment
             PROVE  /\ phase'[d] = "failed" => status'[d] \notin InProgress \cup {"ABSENT"}
                    /\ status'[d] = "UNHEALTHY" => phase'[d] = "failed"
                    /\ status'[d] = "RUNNING" => activated'[d]
                    /\ status'[d] = "ABSENT" => ~activated'[d] /\ previous'[d] = NoDeployment
  BY DEF RowsAgree
<1>1. Moves(d)
  BY RowsMove
<1>2. status'[d] = "ABSENT" => previous'[d] = previous[d]
  BY PreviousIsFixed DEF KInv, IInv, Becomes
<1>3. QED
  BY <1>1, <1>2 DEF RowsAgree, Moves, Becomes, Live, Stoppable, InProgress

\* A deployment that is given back after it was STOPPED is remembered.
LEMMA RevivedGrows ==
  ASSUME KInv, [AccessNext]_allVars
  PROVE  /\ revived \subseteq revived'
         /\ \A d \in Deployment : status[d] = "STOPPED" /\ status'[d] = "RUNNING" => d \in revived'
<1>1. CASE Operations
  <2>1. PICK items, s : Operates(items, s)
    BY <1>1, OperationsOperate
  <2>2. CASE StopProject
    BY <2>1, <2>2 DEF Operates, StopProject, StopAll, Stopping
  <2>3. ASSUME NEW n, NEW first, RedeployActive(n, first)
        PROVE  \A d \in Deployment : status[d] = "STOPPED" => status'[d] # "RUNNING"
    BY <2>3 DEF RedeployActive, Create, Stopping, KInv, IInv, TypeOK
  <2>4. QED
    BY <2>1, <2>2, <2>3 DEF Operates, Scheduled, EffectByStop, EffectByRedeploy
<1>2. CASE \E t \in Token : Expire(t)
  BY <1>2 DEF Expire, vars, lifecycle
<1>3. CASE Deploys
  BY <1>3, DeploysAside DEF Aside
<1>4. CASE UNCHANGED allVars
  BY <1>4 DEF allVars, vars, lifecycle, accessVars
<1>5. QED
  BY <1>1, <1>2, <1>3, <1>4, AccessSteps

\* Gone is gone.
LEMMA GoneStays ==
  ASSUME KInv, [AccessNext]_allVars, NEW d \in Deployment, Gone(d)
  PROVE  Gone(d)'
<1>1. Moves(d)
  BY RowsMove, AccessIsStep
<1>2. QED
  BY <1>1, RevivedGrows DEF Gone, Moves, Becomes, Live, Stoppable, InProgress

\* Whoever counts has counted since it was created.
LEMMA LivelyBefore ==
  ASSUME KInv, RowsAgree, [AccessNext]_allVars, NEW d \in Deployment, Lively(d)'
  PROVE  Lively(d) \/ status[d] = "ABSENT"
<1>1. Moves(d)
  BY RowsMove, AccessIsStep
<1>2. QED
  BY <1>1, RevivedGrows DEF RowsAgree, Lively, Moves, Becomes, Live, Stoppable, InProgress

\* A completed deployment leaves no predecessor.
LEMMA PredecessorGoneStep ==
  ASSUME KInv, RowsAgree, PredecessorGone, [AccessNext]_allVars
  PROVE  PredecessorGone'
<1> SUFFICES ASSUME NEW n \in Deployment, activated'[n] \/ deployCmd'[n] = "effective",
                    previous'[n] \in Deployment
             PROVE  Gone(previous[n])'
  BY DEF PredecessorGone
<1>0. TypeOK /\ [Step]_vars
  BY AccessIsStep DEF KInv, IInv
<1>1. previous'[n] = previous[n]
  <2>1. CASE status[n] = "ABSENT" /\ Becomes(n, "PENDING") /\ deployCmd'[n] = "due"
    BY <2>1 DEF RowsAgree, Becomes
  <2>2. QED
    BY <1>0, <2>1, PreviousIsFixed
<1>2. CASE activated[n] \/ deployCmd[n] = "effective"
  BY <1>1, <1>2, GoneStays DEF PredecessorGone
<1>3. CASE ~activated[n] /\ deployCmd[n] # "effective"
  <2>1. activated'[n]
    BY <1>0, <1>3, EffectiveIsRunning DEF RowsAgree
  <2>2. Moves(n)
    BY <1>0, RowsMove
  <2>3. status'[previous[n]] = "STOPPED"
    BY <1>1, <1>3, <2>1, <2>2 DEF Moves, Becomes
  <2>4. QED
    BY <1>1, <2>3 DEF Gone
<1>4. QED
  BY <1>2, <1>3

-----------------------------------------------------------------------------
(* What the operations do to the rows of access. *)

\* The conjuncts of AccessTypeOK about those rows.
RowTypes ==
    /\ mode \in {"none", "static", "oidc", "dev"}
    /\ rev \in Revision
    /\ token \in [Token -> {"absent", "active", "expiring", "expired", "revoked", "over"}]
    /\ replacedBy \subseteq Token \X Token
    /\ secret \in Version
    /\ revoked \in BOOLEAN

\* Nothing is given back: what is stale stays so, and a token's end is not undone.
NothingReturns ==
    /\ \A i \in Item : Stale(i) => Stale(i)'
    /\ \A t \in Token : token[t] \in {"expired", "over"} => token'[t] \in {"expired", "over"}
    /\ \A t \in Token : token[t] \notin {"absent", "active"} => token'[t] \notin {"absent", "active"}

\* The rows after an operation that takes items back for a subject.
Retracts(items, s) ==
    /\ Operates(items, s)
    /\ RowTypes' /\ Counted'
    /\ NothingReturns
    /\ \A i \in items : Stale(i)'
    /\ replacedBy \subseteq replacedBy'
    /\ \A p \in replacedBy' \ replacedBy : p[2] = s /\ token'[p[1]] \notin {"absent", "active"}

\* The parts of an item.
LEMMA ItemParts ==
  ASSUME NEW i \in Item
  PROVE  \/ i[1] = "config" /\ i[2] \in Revision /\ i = <<"config", i[2]>>
         \/ i[1] = "token" /\ i[2] \in Token /\ i = <<"token", i[2]>>
         \/ i[1] = "secret" /\ i[2] \in Version /\ i = <<"secret", i[2]>>
  BY DEF Item

\* The rows have their types.
LEMMA RowsHaveTypes == AccessTypeOK => RowTypes
  BY DEF AccessTypeOK, RowTypes

\* upsert_config
LEMMA ConfigureRetracts ==
  ASSUME AccessTypeOK, Counted, NEW m \in {"static", "oidc", "dev"}, Configure(m)
  PROVE  LET items == {<<"config", r>> : r \in {rev} \ {0}}
         IN  items \in SUBSET Item /\ Retracts(items, "config")
<1> DEFINE items == {<<"config", r>> : r \in {rev} \ {0}}
<1>1. Operates(items, "config")
  BY EffectsAreScheduled DEF Configure, Operation, Operates
<1>2. /\ ops \in Nat /\ ops < MaxOps /\ ops' = ops + 1 /\ mode' = m /\ rev' = rev + 1
      /\ UNCHANGED <<token, replacedBy, secret, revoked>>
  BY DEF AccessTypeOK, Configure, Operation
<1>3. rev \in Nat /\ rev <= ops + 1 /\ secret \in Nat /\ secret <= ops + 1
  BY DEF AccessTypeOK, Counted, Revision, Version
<1>4. RowTypes' /\ Counted'
  BY <1>2, <1>3, RowsHaveTypes DEF RowTypes, Counted, Revision, Version
<1>5. NothingReturns
  <2>1. ASSUME NEW i \in Item, Stale(i) PROVE Stale(i)'
    BY <1>2, <1>3, <2>1, ItemParts DEF Stale, Revision
  <2>2. QED
    BY <1>2, <2>1 DEF NothingReturns
<1>6. \A i \in items : Stale(i)'
  BY <1>2, <1>3 DEF Stale
<1>7. items \in SUBSET Item
  BY RowsHaveTypes DEF RowTypes, Item
<1>8. QED
  BY <1>1, <1>2, <1>4, <1>5, <1>6, <1>7 DEF Retracts

\* An operation on tokens: the rows of the others are left alone.
LEMMA TokensRetract ==
  ASSUME AccessTypeOK, Counted, NEW items \in SUBSET Item, NEW s, Operates(items, s),
         UNCHANGED <<mode, rev, secret, revoked>>, RowTypes',
         \A t \in Token :
            /\ token[t] \in {"expired", "over", "revoked"} => token'[t] \in {"expired", "over", "revoked"}
            /\ token[t] \in {"expired", "over"} => token'[t] \in {"expired", "over"}
            /\ token[t] \notin {"absent", "active"} => token'[t] \notin {"absent", "active"},
         \A i \in items : i[1] = "token" /\ token'[i[2]] \in {"expired", "over", "revoked"},
         replacedBy \subseteq replacedBy',
         \A p \in replacedBy' \ replacedBy : p[2] = s /\ token'[p[1]] \notin {"absent", "active"}
  PROVE  Retracts(items, s)
<1>1. ops \in Nat /\ ops' = ops + 1 /\ rev \in Nat /\ secret \in Nat
  BY DEF AccessTypeOK, Operates, Revision, Version
<1>2. Counted'
  BY <1>1 DEF Counted
<1>3. NothingReturns
  BY ItemParts DEF NothingReturns, Stale
<1>4. \A i \in items : Stale(i)'
  BY DEF Stale
<1>5. QED
  BY <1>2, <1>3, <1>4 DEF Retracts

\* create_token
LEMMA CreateTokenRetracts ==
  ASSUME AccessTypeOK, Counted, NEW n \in Token, CreateToken(n)
  PROVE  Retracts({}, n)
<1>1. Operates({}, n)
  BY EffectsAreScheduled DEF CreateToken, Operation, Operates
<1>2. /\ token[n] = "absent" /\ token' = [token EXCEPT ![n] = "active"]
      /\ UNCHANGED <<mode, rev, replacedBy, secret, revoked>>
  BY DEF CreateToken, IssueToken
<1>3. RowTypes'
  BY <1>2, RowsHaveTypes DEF RowTypes
<1>4. \A t \in Token : t # n => token'[t] = token[t]
  BY <1>2, RowsHaveTypes DEF RowTypes
<1>5. QED
  BY <1>1, <1>2, <1>3, <1>4, TokensRetract

\* rotate_token
LEMMA RotateTokenRetracts ==
  ASSUME AccessTypeOK, Counted, NEW t \in Token, NEW n \in Token, NEW overlap \in BOOLEAN,
         RotateToken(t, n, overlap)
  PROVE  LET items == {<<"token", x>> : x \in {y \in {t} : ~overlap}}
         IN  items \in SUBSET Item /\ Retracts(items, n)
<1> DEFINE items == {<<"token", x>> : x \in {y \in {t} : ~overlap}}
<1>1. Operates(items, n)
  BY EffectsAreScheduled DEF RotateToken, Operation, Operates
<1>2. items \in SUBSET Item
  BY DEF Item
<1>3. /\ token[t] \in {"active", "expiring"} /\ token[n] = "absent" /\ t # n
      /\ token' = [ExpireForRotation(t, overlap) EXCEPT ![n] = "active"]
      /\ replacedBy' = replacedBy \cup {<<t, n>>}
      /\ UNCHANGED <<mode, rev, secret, revoked>>
  BY DEF RotateToken, IssueToken
<1>4. /\ token'[n] = "active"
      /\ token'[t] = IF overlap THEN "expiring" ELSE "revoked"
      /\ \A x \in Token \ {t, n} : token'[x] = token[x]
  BY <1>3, RowsHaveTypes DEF RowTypes, ExpireForRotation
<1>5. RowTypes'
  BY <1>3, RowsHaveTypes DEF RowTypes, ExpireForRotation
<1>6. \A x \in Token :
        /\ token[x] \in {"expired", "over", "revoked"} => token'[x] \in {"expired", "over", "revoked"}
        /\ token[x] \in {"expired", "over"} => token'[x] \in {"expired", "over"}
        /\ token[x] \notin {"absent", "active"} => token'[x] \notin {"absent", "active"}
  BY <1>3, <1>4
<1>7. \A i \in items : i[1] = "token" /\ token'[i[2]] \in {"expired", "over", "revoked"}
  BY <1>4
<1>8. \A p \in replacedBy' \ replacedBy : p[2] = n /\ token'[p[1]] \notin {"absent", "active"}
  BY <1>3, <1>4
<1>9. replacedBy \subseteq replacedBy'
  BY <1>3
<1> HIDE DEF items
<1>10. Retracts(items, n)
  BY <1>1, <1>2, <1>3, <1>5, <1>6, <1>7, <1>8, <1>9, TokensRetract
<1>11. QED
  BY <1>2, <1>10 DEF items

\* revoke_token
LEMMA RevokeTokenRetracts ==
  ASSUME AccessTypeOK, Counted, NEW t \in Token, RevokeToken(t)
  PROVE  {<<"token", t>>} \in SUBSET Item /\ Retracts({<<"token", t>>}, t)
<1>1. Operates({<<"token", t>>}, t)
  BY EffectsAreScheduled DEF RevokeToken, Operation, Operates
<1>2. {<<"token", t>>} \in SUBSET Item
  BY DEF Item
<1>3. /\ token[t] \in {"active", "expiring", "expired"}
      /\ token' = [token EXCEPT ![t] = IF @ = "expired" THEN "over" ELSE "revoked"]
      /\ UNCHANGED <<mode, rev, replacedBy, secret, revoked>>
  BY DEF RevokeToken
<1>4. /\ token'[t] = IF token[t] = "expired" THEN "over" ELSE "revoked"
      /\ \A x \in Token \ {t} : token'[x] = token[x]
  BY <1>3, RowsHaveTypes DEF RowTypes
<1>5. RowTypes'
  BY <1>3, RowsHaveTypes DEF RowTypes
<1>6. \A x \in Token :
        /\ token[x] \in {"expired", "over", "revoked"} => token'[x] \in {"expired", "over", "revoked"}
        /\ token[x] \in {"expired", "over"} => token'[x] \in {"expired", "over"}
        /\ token[x] \notin {"absent", "active"} => token'[x] \notin {"absent", "active"}
  BY <1>3, <1>4
<1>7. \A i \in {<<"token", t>>} : i[1] = "token" /\ token'[i[2]] \in {"expired", "over", "revoked"}
  BY <1>4
<1>8. QED
  BY <1>1, <1>2, <1>3, <1>5, <1>6, <1>7, TokensRetract

\* The two operations on the secret.
LEMMA SecretRetracts ==
  ASSUME AccessTypeOK, Counted, RotateSecret \/ RevokeCredential
  PROVE  {<<"secret", secret>>} \in SUBSET Item /\ Retracts({<<"secret", secret>>}, "credential")
<1> DEFINE items == {<<"secret", secret>>}
<1>1. Operates(items, "credential")
  BY RedeploysAreScheduled DEF RotateSecret, RevokeCredential, Operation, Operates, Scheduled
<1>2. /\ ops \in Nat /\ ops < MaxOps /\ ops' = ops + 1 /\ ~revoked
      /\ (secret' = secret + 1 /\ revoked' = FALSE) \/ (secret' = secret /\ revoked' = TRUE)
      /\ UNCHANGED <<mode, rev, token, replacedBy>>
  <2>1. ops \in Nat /\ revoked \in BOOLEAN
    BY DEF AccessTypeOK
  <2>2. CASE RotateSecret
    BY <2>1, <2>2 DEF RotateSecret, Operation
  <2>3. CASE RevokeCredential
    BY <2>1, <2>3 DEF RevokeCredential, Operation
  <2>4. QED
    BY <2>2, <2>3
<1>3. rev \in Nat /\ rev <= ops + 1 /\ secret \in Nat /\ secret <= ops + 1
  BY DEF AccessTypeOK, Counted, Revision, Version
<1>4. RowTypes' /\ Counted'
  <2>1. secret \in Version /\ MaxOps \in Nat
    BY RowsHaveTypes DEF RowTypes
  <2>2. secret' \in Version
    BY <1>2, <1>3, <2>1 DEF Version
  <2>3. Counted'
    BY <1>2, <1>3 DEF Counted
  <2>4. revoked' \in BOOLEAN
    BY <1>2
  <2>5. QED
    BY <1>2, <2>2, <2>3, <2>4, RowsHaveTypes DEF RowTypes
<1>5. NothingReturns
  <2>1. ASSUME NEW i \in Item, Stale(i) PROVE Stale(i)'
    BY <1>2, <1>3, <2>1, ItemParts DEF Stale, Version
  <2>2. QED
    BY <1>2, <2>1 DEF NothingReturns
<1>6. \A i \in items : Stale(i)'
  BY <1>2, <1>3 DEF Stale
<1>7. items \in SUBSET Item
  BY RowsHaveTypes DEF RowTypes, Item
<1>8. QED
  BY <1>1, <1>2, <1>4, <1>5, <1>6, <1>7 DEF Retracts

\* Every operation takes items back for a subject.
LEMMA OperationsRetract ==
  ASSUME AccessTypeOK, Counted, Operations
  PROVE  \E items \in SUBSET Item, s \in Subject : Retracts(items, s)
<1>1. Subject = Token \cup {"config", "credential"}
  BY DEF Subject
<1>2. CASE \E m \in {"static", "oidc", "dev"} : Configure(m)
  BY <1>1, <1>2, ConfigureRetracts
<1>3. CASE \E n \in Token : CreateToken(n)
  BY <1>1, <1>3, CreateTokenRetracts
<1>4. CASE \E t, n \in Token, overlap \in BOOLEAN : RotateToken(t, n, overlap)
  BY <1>1, <1>4, RotateTokenRetracts
<1>5. CASE \E t \in Token : RevokeToken(t)
  BY <1>1, <1>5, RevokeTokenRetracts
<1>6. CASE RotateSecret \/ RevokeCredential
  BY <1>1, <1>6, SecretRetracts
<1>7. QED
  BY <1>2, <1>3, <1>4, <1>5, <1>6 DEF Operations

-----------------------------------------------------------------------------
(* The types. *)

\* The bundles that are written have their type.
LEMMA BundleTypes ==
  ASSUME AccessTypeOK
  PROVE  NoBundle \in Bundle /\ Overlay \in Bundle /\ BuildBundle \in Bundle
<1>1. rev \in Revision /\ secret \in Version /\ snap \in Bundle /\ 0 \in Revision
  BY DEF AccessTypeOK, Revision
<1>2. NoBundle \in Bundle
  BY <1>1 DEF NoBundle, Bundle
<1>3. Overlay \in Bundle
  BY <1>1 DEF Overlay, Bundle
<1>4. BuildBundle \in Bundle
  BY <1>1 DEF BuildBundle, Bundle
<1>5. QED
  BY <1>2, <1>3, <1>4

\* What is shown was taken back.
LEMMA EffectIsWithdrawn ==
  ASSUME NEW commandsOf, NEW i \in RuntimeEffect(commandsOf)
  PROVE  \E s \in Subject : <<i, s>> \in withdrawn' /\ commandsOf[s] = {}
  BY DEF RuntimeEffect

\* It is an item.
LEMMA EffectIsItem ==
  ASSUME withdrawn' \subseteq Item \X Subject, NEW commandsOf
  PROVE  RuntimeEffect(commandsOf) \subseteq Item
<1> SUFFICES ASSUME NEW i \in RuntimeEffect(commandsOf) PROVE i \in Item
  OBVIOUS
<1>1. PICK s \in Subject : <<i, s>> \in withdrawn'
  BY EffectIsWithdrawn
<1>2. <<i, s>> \in Item \X Subject
  BY <1>1
<1>3. QED
  BY <1>2

\* What a transition records has its type.
LEMMA RecordTypes ==
  ASSUME AccessTypeOK, NEW items \in SUBSET Item, NEW s \in Subject,
         NEW created \in SUBSET (Deployment \X (Deployment \cup {Alone})), Record(items, s, created)
  PROVE  /\ latest' \in [Subject -> SUBSET (Deployment \X (Deployment \cup {Alone}))]
         /\ withdrawn' \subseteq Item \X Subject
         /\ shown' \subseteq Item
<1>1. latest' \in [Subject -> SUBSET (Deployment \X (Deployment \cup {Alone}))]
  BY DEF AccessTypeOK, Record
<1>2. withdrawn' \subseteq Item \X Subject
  BY DEF AccessTypeOK, Record
<1>3. shown' \subseteq Item
  BY <1>2, EffectIsItem DEF AccessTypeOK, Record
<1>4. QED
  BY <1>1, <1>2, <1>3

\* What an operation schedules it records.
LEMMA ScheduledRecords ==
  ASSUME NEW items, NEW s, Scheduled(items, s)
  PROVE  \E created \in SUBSET (Deployment \X (Deployment \cup {Alone})) : Record(items, s, created)
<1>1. CASE EffectByStop(items, s)
  <2>1. LiveRows \X {Alone} \in SUBSET (Deployment \X (Deployment \cup {Alone}))
    BY DEF LiveRows
  <2>2. QED
    BY <1>1, <2>1 DEF EffectByStop
<1>2. ASSUME NEW first \in BOOLEAN, Replaceable(first), EffectByRedeploy(items, s, first)
      PROVE  \E created \in SUBSET (Deployment \X (Deployment \cup {Alone})) : Record(items, s, created)
  <2>1. PICK n \in Deployment : Record(items, s, (Superseded(first) \X {n}) \cup {<<n, n>>})
    BY <1>2 DEF EffectByRedeploy
  <2>2. (Superseded(first) \X {n}) \cup {<<n, n>>} \in SUBSET (Deployment \X (Deployment \cup {Alone}))
    BY DEF Superseded, LiveRows
  <2>3. QED
    BY <2>1, <2>2
<1>3. QED
  BY <1>1, <1>2 DEF Scheduled

\* The operations keep the types.
LEMMA RetractsTypes ==
  ASSUME AccessTypeOK, NEW items \in SUBSET Item, NEW s \in Subject, Retracts(items, s)
  PROVE  AccessTypeOK'
<1>1. Operates(items, s) /\ RowTypes'
  BY DEF Retracts
<1>2. PICK created \in SUBSET (Deployment \X (Deployment \cup {Alone})) : Record(items, s, created)
  BY <1>1, ScheduledRecords DEF Operates
<1>3. /\ latest' \in [Subject -> SUBSET (Deployment \X (Deployment \cup {Alone}))]
      /\ withdrawn' \subseteq Item \X Subject
      /\ shown' \subseteq Item
  BY <1>2, RecordTypes
<1>4. ops' \in 0 .. MaxOps /\ UNCHANGED <<snap, files, loaded, revived, faults>>
  BY <1>1 DEF Operates, AccessTypeOK, runtimes
<1>5. QED
  BY <1>1, <1>3, <1>4 DEF AccessTypeOK, RowTypes

\* The end of an overlap keeps the types.
LEMMA ExpireTypes ==
  ASSUME AccessTypeOK, NEW t \in Token, Expire(t)
  PROVE  AccessTypeOK'
<1>1. /\ token' = [token EXCEPT ![t] = "expired"]
      /\ UNCHANGED <<mode, rev, replacedBy, secret, revoked, snap, files, loaded, latest, revived, ops, faults>>
  BY DEF Expire, runtimes
<1>2. withdrawn' \subseteq Item \X Subject
  <2>1. ASSUME NEW p \in replacedBy, p[1] = t PROVE <<<<"token", t>>, p[2]>> \in Item \X Subject
    <3>1. p[2] \in Subject
      BY DEF AccessTypeOK, Subject
    <3>2. <<"token", t>> \in Item
      BY DEF Item
    <3>3. QED
      BY <3>1, <3>2
  <2>2. QED
    BY <2>1 DEF Expire, AccessTypeOK
<1>3. shown' \subseteq Item
  BY <1>2, EffectIsItem DEF AccessTypeOK, Expire
<1>4. QED
  BY <1>1, <1>2, <1>3 DEF AccessTypeOK

\* The steps of the deployments leave the files alone, remove those of one runtime, or
\* write those of the one that is being prepared.
LEMMA FilesStep ==
  ASSUME Deploys
  PROVE  \/ files' = files
         \/ \E d : files' = [files EXCEPT ![d] = NoBundle]
         \/ pc = "prepare" /\ Decryptable /\ files' = [files EXCEPT ![run] = BuildBundle]
<1>1. Requests \/ Begins \/ Provisions \/ Others => files' = files
  BY DEF Requests, Begins, Provisions, Others
<1>2. Materializes => pc = "prepare" /\ Decryptable /\ files' = [files EXCEPT ![run] = BuildBundle]
  BY DEF Materializes, Prepare
<1>3. Removals => \E d : files' = [files EXCEPT ![d] = NoBundle]
  BY DEF Removals, Removes
<1>4. Faults => files' = files \/ files' = [files EXCEPT ![run] = NoBundle]
  BY DEF Faults
<1>5. QED
  BY <1>1, <1>2, <1>3, <1>4 DEF Deploys

\* What a container knows after a step, and the runner.
LEMMA ContainersKnow ==
  ASSUME Containers, NEW d \in Deployment
  PROVE  /\ loaded'[d] \in {NoBundle, files[d], loaded[d]}
         /\ pc' = "prepare" => snap' = IF pc = "prepare" THEN snap ELSE Overlay
  BY DEF Containers

\* The steps of the deployments keep the types.
LEMMA DeploysTypes ==
  ASSUME AccessTypeOK, Deploys
  PROVE  AccessTypeOK'
<1>1. Aside
  BY DeploysAside
<1>2. NoBundle \in Bundle /\ Overlay \in Bundle /\ BuildBundle \in Bundle
  BY BundleTypes
<1>3. files' \in [Deployment -> Bundle]
  BY <1>2, FilesStep DEF AccessTypeOK
<1>4. snap' \in Bundle
  BY <1>1, <1>2 DEF Aside, Containers, AccessTypeOK
<1>5. loaded' \in [Deployment -> Bundle]
  BY <1>1, <1>2 DEF Aside, Containers, AccessTypeOK
<1>6. latest' \in [Subject -> SUBSET (Deployment \X (Deployment \cup {Alone}))]
  BY <1>1 DEF Aside, Acknowledge, AccessTypeOK
<1>7. withdrawn' = withdrawn /\ shown' \subseteq Item
  BY <1>1, EffectIsItem DEF Aside, Acknowledge, AccessTypeOK
<1>8. revived' \subseteq Deployment /\ UNCHANGED <<mode, rev, token, replacedBy, secret, revoked, ops>>
  BY <1>1 DEF Aside, accessRows, AccessTypeOK
<1>9. faults' \in Nat
  <2>1. Requests \/ Begins \/ Materializes \/ Provisions \/ Removals \/ Others => faults' = faults
    BY DEF Requests, Begins, Materializes, Provisions, Removals, Removes, Others
  <2>2. Faults => faults' = faults \/ faults' = faults + 1
    BY DEF Faults
  <2>3. faults \in Nat
    BY DEF AccessTypeOK
  <2>4. QED
    BY <2>1, <2>2, <2>3 DEF Deploys
<1>10. QED
  BY <1>3, <1>4, <1>5, <1>6, <1>7, <1>8, <1>9 DEF AccessTypeOK

\* Every step keeps the types, and counts the operations.
LEMMA AccessTypesStep ==
  ASSUME AccessTypeOK, Counted, [AccessNext]_allVars
  PROVE  AccessTypeOK' /\ Counted'
<1>1. CASE Operations
  BY <1>1, OperationsRetract, RetractsTypes DEF Retracts
<1>2. CASE \E t \in Token : Expire(t)
  BY <1>2, ExpireTypes DEF Expire, Counted
<1>3. CASE Deploys
  BY <1>3, DeploysTypes, DeploysAside DEF Aside, accessRows, Counted
<1>4. CASE UNCHANGED allVars
  BY <1>4 DEF allVars, accessVars, accessRows, runtimes, AccessTypeOK, Counted
<1>5. QED
  BY <1>1, <1>2, <1>3, <1>4, AccessSteps

-----------------------------------------------------------------------------
(* What the runtimes know. *)

\* What is stale, or no longer without an end, is in no bundle that is written.
LEMMA WrittenIsFresh ==
  ASSUME AccessTypeOK, NEW i \in Item
  PROVE  /\ Stale(i) => /\ ~Carries(NoBundle, i) /\ ~Lends(NoBundle, i)
                        /\ ~Carries(Overlay, i) /\ ~Lends(Overlay, i)
         /\ \A t \in Token : i = <<"token", t>> /\ token[t] \notin {"absent", "active"} =>
                ~Carries(NoBundle, i) /\ ~Carries(Overlay, i)
<1>1. /\ NoBundle.rev = 0 /\ NoBundle.plain = {} /\ NoBundle.until = {} /\ NoBundle.secret = 0
      /\ Overlay.rev = rev /\ Overlay.secret = 0
      /\ \A t \in Overlay.plain : token[t] = "active"
      /\ \A t \in Overlay.until : token[t] = "expiring"
  BY DEF NoBundle, Overlay
<1>2. 0 \notin Version /\ rev \in Nat
  BY DEF AccessTypeOK, Version, Revision
<1>3. CASE i[1] = "config"
  BY <1>1, <1>2, <1>3 DEF Stale, Carries, Lends
<1>4. CASE i[1] = "token"
  BY <1>1, <1>4 DEF Stale, Carries, Lends
<1>5. CASE i[1] = "secret" /\ i[2] \in Version
  BY <1>1, <1>2, <1>5 DEF Stale, Carries, Lends
<1>6. QED
  BY <1>3, <1>4, <1>5, ItemParts

\* A bundle is the preflight's, with a secret that is not stale.
LEMMA BuiltIsFresh ==
  ASSUME AccessTypeOK, Decryptable, NEW i \in Item
  PROVE  /\ Stale(i) => (Carries(BuildBundle, i) => Carries(snap, i)) /\ (Lends(BuildBundle, i) => Lends(snap, i))
         /\ i[1] = "token" => (Carries(BuildBundle, i) => Carries(snap, i))
<1>1. /\ BuildBundle.rev = snap.rev /\ BuildBundle.plain = snap.plain
      /\ BuildBundle.until = snap.until /\ BuildBundle.secret = secret
  BY DEF AccessTypeOK, Bundle, BuildBundle
<1>2. secret \in Nat /\ ~revoked
  BY DEF AccessTypeOK, Version, Decryptable
<1>3. QED
  BY <1>1, <1>2, ItemParts DEF Stale, Carries, Lends

\* Nothing that can become stale is in the empty bundle.
LEMMA EmptyBundle ==
  ASSUME NEW i \in Item, Stale(i)'
  PROVE  ~Carries(NoBundle, i) /\ ~Lends(NoBundle, i)'
<1>1. NoBundle.rev = 0 /\ NoBundle.plain = {} /\ NoBundle.until = {} /\ NoBundle.secret = 0
  BY DEF NoBundle
<1>2. 0 \notin Version
  BY DEF Version
<1>3. QED
  BY <1>1, <1>2, ItemParts DEF Stale, Carries, Lends

\* The steps of the deployments tell a runtime nothing but what it knew already, the
\* preflight's verifiers and the secret.
LEMMA DeploysKnow ==
  ASSUME AccessTypeOK, Deploys, NEW d \in Deployment, NEW b \in Known(d)'
  PROVE  \/ b \in Known(d) \cup {NoBundle, Overlay}
         \/ b = BuildBundle /\ Decryptable /\ snap \in Known(d)
<1>1. Step /\ Containers
  BY DeploysAside DEF Aside
<1>2. CASE b = loaded'[d]
  BY <1>1, <1>2, ContainersKnow DEF Known
<1>3. CASE b = files'[d]
  BY <1>3, FilesStep DEF Known, AccessTypeOK
<1>4. CASE b = snap' /\ pc' = "prepare" /\ d = run'
  BY <1>1, <1>4, ContainersKnow, PreparesOne DEF Known
<1>5. QED
  BY <1>2, <1>3, <1>4 DEF Known

\* An operation tells the runtimes nothing.
LEMMA OperatesKnow ==
  ASSUME NEW items, NEW s, Operates(items, s), NEW d
  PROVE  Known(d)' = Known(d)
<1>1. UNCHANGED <<pc, run>>
  BY DEF Operates, Scheduled, EffectByStop, EffectByRedeploy, StopProject, RedeployActive, Create, runner, locals
<1>2. UNCHANGED <<snap, files, loaded>>
  BY DEF Operates, runtimes
<1>3. QED
  BY <1>1, <1>2 DEF Known

\* Nothing that was taken back returns.
LEMMA ReturnsStep ==
  ASSUME AccessTypeOK, Counted, [AccessNext]_allVars
  PROVE  NothingReturns
<1>1. CASE Operations
  BY <1>1, OperationsRetract DEF Retracts
<1>2. ASSUME NEW t \in Token, Expire(t) PROVE NothingReturns
  <2>1. /\ token[t] = "expiring" /\ token'[t] = "expired"
        /\ \A x \in Token \ {t} : token'[x] = token[x]
        /\ UNCHANGED <<rev, secret, revoked>>
    BY <1>2 DEF Expire, AccessTypeOK
  <2>2. \A i \in Item : Stale(i) => Stale(i)'
    BY <2>1, ItemParts DEF Stale
  <2>3. QED
    BY <2>1, <2>2 DEF NothingReturns
<1>3. CASE UNCHANGED <<token, rev, secret, revoked>>
  BY <1>3 DEF NothingReturns, Stale
<1>4. Deploys => UNCHANGED <<token, rev, secret, revoked>>
  BY DeploysAside DEF Aside, accessRows
<1>5. UNCHANGED allVars => UNCHANGED <<token, rev, secret, revoked>>
  BY DEF allVars, accessVars, accessRows
<1>6. QED
  BY <1>1, <1>2, <1>3, <1>4, <1>5, AccessSteps

\* Nobody learns what was taken back, or what was rotated without an end.
LEMMA NobodyLearns ==
  ASSUME AccessTypeOK, Counted, [AccessNext]_allVars, NEW d \in Deployment, NEW i \in Item
  PROVE  /\ Stale(i) /\ Knows(d, i)' => Knows(d, i)
         /\ \A t \in Token : /\ i = <<"token", t>>
                             /\ token[t] \notin {"absent", "active"}
                             /\ Bears(d, i)'
                             => Bears(d, i)
<1>0. NothingReturns
  BY ReturnsStep
<1>1. \A b : Lends(b, i)' => Lends(b, i)
  <2>1. i[1] = "token" => i[2] \in Token
    BY ItemParts
  <2>2. QED
    BY <1>0, <2>1 DEF NothingReturns, Lends
<1>2. \A b : Carries(b, i)' <=> Carries(b, i)
  BY DEF Carries
<1>3. CASE Known(d)' = Known(d)
  BY <1>1, <1>2, <1>3 DEF Knows, Bears
<1>4. CASE Deploys
  <2>1. ASSUME Stale(i), NEW b \in Known(d)', Carries(b, i) \/ Lends(b, i)
        PROVE  Knows(d, i)
    <3>1. b \notin {NoBundle, Overlay}
      BY <2>1, WrittenIsFresh
    <3>2. CASE b \in Known(d)
      BY <2>1, <3>2 DEF Knows
    <3>3. CASE b = BuildBundle /\ Decryptable /\ snap \in Known(d)
      BY <2>1, <3>3, BuiltIsFresh DEF Knows
    <3>4. QED
      BY <1>4, <3>1, <3>2, <3>3, DeploysKnow
  <2>2. ASSUME NEW t \in Token, i = <<"token", t>>, token[t] \notin {"absent", "active"},
               NEW b \in Known(d)', Carries(b, i)
        PROVE  Bears(d, i)
    <3>1. b \notin {NoBundle, Overlay}
      BY <2>2, WrittenIsFresh
    <3>2. CASE b \in Known(d)
      BY <2>2, <3>2 DEF Bears
    <3>3. CASE b = BuildBundle /\ Decryptable /\ snap \in Known(d)
      BY <2>2, <3>3, BuiltIsFresh DEF Bears
    <3>4. QED
      BY <1>4, <3>1, <3>2, <3>3, DeploysKnow
  <2>3. QED
    BY <1>1, <1>2, <2>1, <2>2 DEF Knows, Bears
<1>5. Operations => Known(d)' = Known(d)
  BY OperationsOperate, OperatesKnow
<1>6. (\E t \in Token : Expire(t)) => Known(d)' = Known(d)
  BY DEF Expire, vars, runner, locals, runtimes, Known
<1>7. UNCHANGED allVars => Known(d)' = Known(d)
  BY DEF allVars, vars, runner, locals, accessVars, runtimes, Known
<1>8. QED
  BY <1>3, <1>4, <1>5, <1>6, <1>7, AccessSteps

\* A deployment that is yet to come knows nothing that was taken back.
LEMMA NewcomersKnowNothing ==
  ASSUME AInv, NEW d \in Deployment, status[d] = "ABSENT", NEW i \in Item
  PROVE  /\ Stale(i) => ~Knows(d, i)
         /\ \A t \in Token : i = <<"token", t>> /\ token[t] \notin {"absent", "active"} => ~Bears(d, i)
<1>1. AccessTypeOK /\ loaded[d] = NoBundle /\ files[d] = NoBundle
  BY DEF AInv, NothingKnown
<1>2. ~(pc = "prepare" /\ d = run)
  BY DEF AInv, KInv, CommandHeld
<1>3. Known(d) = {NoBundle}
  BY <1>1, <1>2 DEF Known
<1>4. QED
  BY <1>1, <1>3, WrittenIsFresh DEF Knows, Bears

\* It stays so.
LEMMA NothingKnownStep ==
  ASSUME AInv, [AccessNext]_allVars
  PROVE  NothingKnown'
<1> SUFFICES ASSUME NEW d \in Deployment, status'[d] = "ABSENT"
             PROVE  loaded'[d] = NoBundle /\ files'[d] = NoBundle
  BY DEF NothingKnown
<1>1. status[d] = "ABSENT"
  <2>1. Moves(d)
    BY RowsMove, AccessIsStep DEF AInv
  <2>2. QED
    BY <2>1 DEF Moves, Becomes, InProgress
<1>2. loaded[d] = NoBundle /\ files[d] = NoBundle
  BY <1>1 DEF AInv, NothingKnown
<1>3. CASE Deploys
  <2>1. loaded'[d] = NoBundle
    BY <1>2, <1>3, DeploysAside, ContainersKnow DEF Aside
  <2>2. ~(pc = "prepare" /\ d = run)
    BY <1>1 DEF AInv, KInv, CommandHeld
  <2>3. files'[d] = NoBundle
    BY <1>2, <1>3, <2>2, FilesStep DEF AInv, AccessTypeOK
  <2>4. QED
    BY <2>1, <2>3
<1>4. Operations \/ (\E t \in Token : Expire(t)) \/ UNCHANGED allVars => UNCHANGED <<files, loaded>>
  BY OperationsOperate DEF Operates, Expire, allVars, accessVars, runtimes
<1>5. QED
  BY <1>2, <1>3, <1>4, AccessSteps

\* What was taken back is stale.
LEMMA WithdrawnIsStaleStep ==
  ASSUME AInv, [AccessNext]_allVars
  PROVE  WithdrawnIsStale'
<1>1. AccessTypeOK /\ Counted /\ NothingReturns /\ WithdrawnIsStale
  BY ReturnsStep DEF AInv
<1>2. ASSUME NEW p \in withdrawn PROVE Stale(p[1])'
  BY <1>1, <1>2 DEF AccessTypeOK, WithdrawnIsStale, NothingReturns
<1>3. ASSUME NEW p \in replacedBy PROVE token'[p[1]] \notin {"absent", "active"}
  BY <1>1, <1>3 DEF AccessTypeOK, WithdrawnIsStale, NothingReturns
<1>4. CASE Operations
  <2>1. PICK items \in SUBSET Item, s \in Subject : Retracts(items, s)
    BY <1>1, <1>4, OperationsRetract
  <2>2. PICK created \in SUBSET (Deployment \X (Deployment \cup {Alone})) : Record(items, s, created)
    BY <2>1, ScheduledRecords DEF Retracts, Operates
  <2>3. withdrawn' = withdrawn \cup (items \X {s})
    BY <2>2 DEF Record
  <2>4. QED
    BY <1>2, <1>3, <2>1, <2>3 DEF Retracts, WithdrawnIsStale
<1>5. ASSUME NEW t \in Token, Expire(t) PROVE WithdrawnIsStale'
  <2>1. token'[t] = "expired" /\ replacedBy' = replacedBy
    BY <1>1, <1>5 DEF Expire, AccessTypeOK
  <2>2. ASSUME NEW p \in withdrawn' \ withdrawn PROVE p[1] = <<"token", t>>
    BY <1>5, <2>2 DEF Expire
  <2>3. Stale(<<"token", t>>)'
    BY <2>1 DEF Stale
  <2>4. QED
    BY <1>2, <1>3, <2>1, <2>2, <2>3 DEF WithdrawnIsStale
<1>6. CASE UNCHANGED <<withdrawn, replacedBy>>
  BY <1>2, <1>3, <1>6 DEF WithdrawnIsStale
<1>7. Deploys \/ UNCHANGED allVars => UNCHANGED <<withdrawn, replacedBy>>
  BY DeploysAside DEF Aside, Acknowledge, accessRows, allVars, accessVars
<1>8. QED
  BY <1>4, <1>5, <1>6, <1>7, AccessSteps

-----------------------------------------------------------------------------
(* Who is waited for. *)

\* The commands of an operation cover every runtime that counts: it is stopped, or it is
\* the one that the replacement follows.
LEMMA ScheduledCovers ==
  ASSUME AInv, NEW items, NEW s \in Subject, Scheduled(items, s), NEW d \in Deployment, Lively(d)
  PROVE  Covered(d, s)'
<1>0. TypeOK /\ latest \in [Subject -> SUBSET (Deployment \X (Deployment \cup {Alone}))] /\ d \in LiveRows
  BY DEF AInv, AccessTypeOK, KInv, IInv, Lively, LiveRows, Live, Stoppable
<1>1. \A created : Record(items, s, created) /\ created # {} => latest'[s] = created
  BY <1>0 DEF Record
<1>2. CASE EffectByStop(items, s)
  <2>1. <<d, Alone>> \in latest'[s]
    BY <1>0, <1>1, <1>2 DEF EffectByStop
  <2>2. QED
    BY <2>1 DEF Covered
<1>3. ASSUME NEW first \in BOOLEAN, Replaceable(first), EffectByRedeploy(items, s, first)
      PROVE  Covered(d, s)'
  <2>1. PICK n \in Deployment : /\ RedeployActive(n, first)
                               /\ Record(items, s, (Superseded(first) \X {n}) \cup {<<n, n>>})
    BY <1>3 DEF EffectByRedeploy
  <2>2. latest'[s] = (Superseded(first) \X {n}) \cup {<<n, n>>}
    BY <1>1, <2>1
  <2>3. status[n] = "ABSENT" /\ previous'[n] = active
    BY <1>0, <2>1 DEF RedeployActive, Create, Fresh, TypeOK
  <2>4. n # d
    BY <2>3 DEF Lively, InProgress
  <2>5. CASE d \in Superseded(first)
    BY <2>2, <2>4, <2>5 DEF Covered
  <2>6. CASE d \notin Superseded(first)
    <3>1. status[d] = "RUNNING"
      BY <1>0, <1>3, <2>6 DEF Superseded, Replaceable, Conflict, Lively
    <3>2. active = d
      BY <3>1 DEF AInv, KInv, IInv, ActiveIsLive
    <3>3. QED
      BY <2>2, <2>3, <3>2 DEF Covered
  <2>7. QED
    BY <2>5, <2>6
<1>4. QED
  BY <1>2, <1>3 DEF Scheduled

\* Who waits for a predecessor keeps it.
LEMMA PredecessorFixed ==
  ASSUME AInv, [Step]_vars, NEW n \in Deployment, previous[n] \in Deployment
  PROVE  previous'[n] = previous[n]
<1>1. TypeOK /\ status[n] # "ABSENT"
  BY DEF AInv, KInv, IInv, RowsAgree
<1>2. QED
  BY <1>1, PreviousIsFixed

\* While the commands stay, so does the cover.
LEMMA CoverStays ==
  ASSUME AInv, [Step]_vars, NEW d \in Deployment, NEW s, latest'[s] = latest[s], Covered(d, s)
  PROVE  Covered(d, s)'
  BY PredecessorFixed DEF Covered

\* A command that has succeeded left nothing behind that counts.
LEMMA CoverWaits ==
  ASSUME AInv, [Step]_vars, PredecessorGone', Acknowledge, NEW d \in Deployment, Lively(d)',
         NEW s \in Subject, Covered(d, s)
  PROVE  Covered(d, s)'
<1>1. latest'[s] = {c \in latest[s] : ~Took(c)}
  BY DEF Acknowledge
<1>2. ASSUME NEW t \in Deployment \cup {Alone}, t # d, <<d, t>> \in latest[s]
      PROVE  Covered(d, s)'
  <2>1. ~Took(<<d, t>>)
    BY <1>2 DEF Took, Lively, InProgress
  <2>2. QED
    BY <1>1, <1>2, <2>1 DEF Covered
<1>3. ASSUME NEW n \in Deployment, <<n, n>> \in latest[s], previous[n] = d
      PROVE  Covered(d, s)'
  <2>1. previous'[n] = d
    BY <1>3, PredecessorFixed
  <2>2. ~Gone(d)'
    BY DEF Gone, Lively, InProgress
  <2>3. deployCmd'[n] # "effective"
    BY <2>1, <2>2 DEF PredecessorGone
  <2>4. ~Took(<<n, n>>)
    BY <2>3 DEF Took
  <2>5. QED
    BY <1>1, <1>3, <2>1, <2>4 DEF Covered
<1>4. QED
  BY <1>2, <1>3 DEF Covered

\* Whoever counts after a step, and knows what had been taken back before, was covered.
LEMMA WasCovered ==
  ASSUME AInv, [AccessNext]_allVars, NEW d \in Deployment, Lively(d)'
  PROVE  /\ \A p \in withdrawn : Knows(d, p[1])' => Lively(d) /\ Covered(d, p[2])
         /\ \A p \in replacedBy : Bears(d, <<"token", p[1]>>)' => Lively(d) /\ Covered(d, p[2])
<1>0. AccessTypeOK /\ Counted /\ KInv /\ RowsAgree /\ WithdrawnIsStale /\ Coverage
  BY DEF AInv
<1>1. Lively(d) \/ status[d] = "ABSENT"
  BY <1>0, LivelyBefore
<1>2. ASSUME NEW p \in withdrawn, Knows(d, p[1])' PROVE Lively(d) /\ Covered(d, p[2])
  <2>1. p[1] \in Item /\ Stale(p[1])
    BY <1>0, <1>2 DEF AccessTypeOK, WithdrawnIsStale
  <2>2. Knows(d, p[1])
    BY <1>0, <1>2, <2>1, NobodyLearns
  <2>3. status[d] # "ABSENT"
    BY <2>1, <2>2, NewcomersKnowNothing
  <2>4. QED
    BY <1>0, <1>1, <2>2, <2>3 DEF Coverage
<1>3. ASSUME NEW p \in replacedBy, Bears(d, <<"token", p[1]>>)' PROVE Lively(d) /\ Covered(d, p[2])
  <2>1. p[1] \in Token /\ <<"token", p[1]>> \in Item /\ token[p[1]] \notin {"absent", "active"}
    BY <1>0, <1>3 DEF AccessTypeOK, WithdrawnIsStale, Item
  <2>2. Bears(d, <<"token", p[1]>>)
    BY <1>0, <1>3, <2>1, NobodyLearns
  <2>3. status[d] # "ABSENT"
    BY <2>1, <2>2, NewcomersKnowNothing
  <2>4. QED
    BY <1>0, <1>1, <2>2, <2>3 DEF Coverage
<1>4. QED
  BY <1>2, <1>3

\* An operation keeps everybody covered.
LEMMA CoverageOperations ==
  ASSUME AInv, [AccessNext]_allVars, Operations
  PROVE  Coverage'
<1>0. AccessTypeOK /\ Counted /\ KInv /\ RowsAgree /\ [Step]_vars
  BY AccessIsStep DEF AInv
<1>1. PICK items \in SUBSET Item, s \in Subject : Retracts(items, s)
  BY <1>0, OperationsRetract
<1>2. Scheduled(items, s) /\ Operates(items, s)
  BY <1>1 DEF Retracts, Operates
<1>3. PICK created \in SUBSET (Deployment \X (Deployment \cup {Alone})) : Record(items, s, created)
  BY <1>2, ScheduledRecords
<1>4. /\ withdrawn' = withdrawn \cup (items \X {s})
      /\ \A x \in Subject \ {s} : latest'[x] = latest[x]
  BY <1>0, <1>3 DEF Record, AccessTypeOK
<1> SUFFICES ASSUME NEW d \in Deployment, Lively(d)'
             PROVE  /\ \A p \in withdrawn' : Knows(d, p[1])' => Covered(d, p[2])'
                    /\ \A p \in replacedBy' : Bears(d, <<"token", p[1]>>)' => Covered(d, p[2])'
  BY DEF Coverage
<1>5. Lively(d) => Covered(d, s)'
  BY <1>2, ScheduledCovers
<1>6. ASSUME NEW x \in Subject, Lively(d), Covered(d, x) PROVE Covered(d, x)'
  BY <1>0, <1>4, <1>5, <1>6, CoverStays
<1>7. Lively(d) \/ status[d] = "ABSENT"
  BY <1>0, LivelyBefore
<1>8. Known(d)' = Known(d)
  BY <1>2, OperatesKnow
<1>9. ASSUME NEW p \in withdrawn', Knows(d, p[1])' PROVE Covered(d, p[2])'
  <2>1. CASE p \in withdrawn
    <3>1. p[2] \in Subject
      BY <1>0, <2>1 DEF AccessTypeOK
    <3>2. QED
      BY <1>6, <1>9, <2>1, <3>1, WasCovered
  <2>2. CASE p \notin withdrawn
    <3>1. p[1] \in items /\ p[2] = s /\ p[1] \in Item
      BY <1>4, <1>9, <2>2
    <3>2. Stale(p[1])'
      BY <1>1, <3>1 DEF Retracts
    <3>3. CASE Lively(d)
      BY <1>5, <3>1, <3>3
    <3>4. CASE status[d] = "ABSENT"
      <4>1. Known(d) = {NoBundle}
        BY <3>4 DEF AInv, NothingKnown, KInv, CommandHeld, Known
      <4>2. ~Carries(NoBundle, p[1]) /\ ~Lends(NoBundle, p[1])'
        BY <1>0, <3>1, <3>2, ItemParts, EmptyBundle
      <4>3. QED
        BY <1>8, <1>9, <4>1, <4>2 DEF Knows, Carries
    <3>5. QED
      BY <1>7, <3>3, <3>4
  <2>3. QED
    BY <2>1, <2>2
<1>10. ASSUME NEW p \in replacedBy', Bears(d, <<"token", p[1]>>)' PROVE Covered(d, p[2])'
  <2>1. CASE p \in replacedBy
    <3>1. p[2] \in Subject
      BY <1>0, <2>1 DEF AccessTypeOK, Subject
    <3>2. QED
      BY <1>6, <1>10, <2>1, <3>1, WasCovered
  <2>2. CASE p \notin replacedBy
    <3>1. p[2] = s
      BY <1>1, <1>10, <2>2 DEF Retracts
    <3>2. CASE Lively(d)
      BY <1>5, <3>1, <3>2
    <3>3. CASE status[d] = "ABSENT"
      <4>1. Known(d) = {NoBundle}
        BY <3>3 DEF AInv, NothingKnown, KInv, CommandHeld, Known
      <4>2. ~Carries(NoBundle, <<"token", p[1]>>)
        BY DEF Carries, NoBundle
      <4>3. QED
        BY <1>8, <1>10, <4>1, <4>2 DEF Bears, Carries
    <3>4. QED
      BY <1>7, <3>2, <3>3
  <2>3. QED
    BY <2>1, <2>2
<1>11. QED
  BY <1>9, <1>10

\* The end of an overlap: the runtimes that were given it refuse the token, the others
\* were covered when it was rotated.
LEMMA CoverageExpire ==
  ASSUME AInv, [AccessNext]_allVars, NEW t \in Token, Expire(t)
  PROVE  Coverage'
<1>0. AccessTypeOK /\ [Step]_vars
  BY AccessIsStep DEF AInv
<1>1. /\ token'[t] = "expired"
      /\ withdrawn' = withdrawn \cup {<<<<"token", t>>, p[2]>> : p \in {q \in replacedBy : q[1] = t}}
      /\ UNCHANGED <<latest, replacedBy>>
  BY <1>0 DEF Expire, AccessTypeOK
<1> SUFFICES ASSUME NEW d \in Deployment, Lively(d)'
             PROVE  /\ \A p \in withdrawn' : Knows(d, p[1])' => Covered(d, p[2])'
                    /\ \A p \in replacedBy' : Bears(d, <<"token", p[1]>>)' => Covered(d, p[2])'
  BY DEF Coverage
<1>2. \A x : Covered(d, x) => Covered(d, x)'
  BY <1>0, <1>1, CoverStays
<1>3. ASSUME NEW p \in replacedBy, Bears(d, <<"token", p[1]>>)' PROVE Covered(d, p[2])'
  BY <1>2, <1>3, WasCovered
<1>4. ASSUME NEW p \in withdrawn', Knows(d, p[1])' PROVE Covered(d, p[2])'
  <2>1. CASE p \in withdrawn
    BY <1>2, <1>4, <2>1, WasCovered
  <2>2. ASSUME NEW q \in replacedBy, q[1] = t, p = <<<<"token", t>>, q[2]>> PROVE Covered(d, p[2])'
    <3>1. Bears(d, <<"token", t>>)'
      BY <1>1, <1>4, <2>2 DEF Knows, Bears, Lends
    <3>2. QED
      BY <1>3, <2>2, <3>1
  <2>3. QED
    BY <1>1, <1>4, <2>1, <2>2
<1>5. QED
  BY <1>1, <1>3, <1>4

\* A step of the deployments drops the commands that have succeeded, and who was waited
\* for is gone.
LEMMA CoverageDeploys ==
  ASSUME AInv, [AccessNext]_allVars, Deploys
  PROVE  Coverage'
<1>0. AccessTypeOK /\ [Step]_vars /\ Aside /\ Acknowledge /\ PredecessorGone'
  BY AccessIsStep, DeploysAside, PredecessorGoneStep DEF AInv, Aside
<1>1. UNCHANGED <<withdrawn, replacedBy>>
  BY <1>0 DEF Aside, Acknowledge, accessRows
<1> SUFFICES ASSUME NEW d \in Deployment, Lively(d)'
             PROVE  /\ \A p \in withdrawn' : Knows(d, p[1])' => Covered(d, p[2])'
                    /\ \A p \in replacedBy' : Bears(d, <<"token", p[1]>>)' => Covered(d, p[2])'
  BY DEF Coverage
<1>2. \A s \in Subject : Covered(d, s) => Covered(d, s)'
  BY <1>0, CoverWaits
<1>3. /\ \A p \in withdrawn : p[2] \in Subject
      /\ \A p \in replacedBy : p[2] \in Subject
  BY <1>0 DEF AccessTypeOK, Subject
<1>4. QED
  BY <1>1, <1>2, <1>3, WasCovered

\* Every step keeps everybody covered.
LEMMA CoverageStep ==
  ASSUME AInv, [AccessNext]_allVars
  PROVE  Coverage'
<1>1. CASE UNCHANGED allVars
  <2>1. UNCHANGED <<withdrawn, replacedBy, latest>> /\ [Step]_vars
    BY <1>1, AccessIsStep DEF allVars, accessVars, accessRows
  <2>2. \A d \in Deployment : \A s : Covered(d, s) => Covered(d, s)'
    BY <2>1, CoverStays
  <2>3. QED
    BY <2>1, <2>2, WasCovered DEF Coverage
<1>2. QED
  BY <1>1, CoverageOperations, CoverageExpire, CoverageDeploys, AccessSteps

-----------------------------------------------------------------------------
(* What is shown. *)

\* What is withdrawn stays so.
LEMMA WithdrawnGrows ==
  ASSUME AInv, [AccessNext]_allVars
  PROVE  withdrawn \subseteq withdrawn'
<1>1. CASE Operations
  BY <1>1, OperationsOperate, ScheduledRecords DEF Operates, Record
<1>2. CASE \E t \in Token : Expire(t)
  BY <1>2 DEF Expire
<1>3. CASE Deploys
  BY <1>3, DeploysAside DEF Aside, Acknowledge
<1>4. CASE UNCHANGED allVars
  BY <1>4 DEF allVars, accessVars
<1>5. QED
  BY <1>1, <1>2, <1>3, <1>4, AccessSteps

\* What was shown stays so, and whatever is shown anew was withdrawn for a subject
\* whose last transition waits for nobody.
LEMMA ShownGrows ==
  ASSUME AInv, [AccessNext]_allVars
  PROVE  /\ shown \subseteq shown'
         /\ \A i \in shown' \ shown : \E s \in Subject : <<i, s>> \in withdrawn' /\ latest'[s] = {}
<1> DEFINE Effect == \A i \in shown' \ shown : \E s \in Subject : <<i, s>> \in withdrawn' /\ latest'[s] = {}
<1>0. AccessTypeOK /\ Counted
  BY DEF AInv
<1>1. CASE shown' = shown \cup RuntimeEffect(latest')
  <2>1. Effect
    BY <1>1, EffectIsWithdrawn
  <2>2. QED
    BY <1>1, <2>1
<1>2. CASE Operations
  BY <1>0, <1>1, <1>2, OperationsRetract, ScheduledRecords DEF Retracts, Operates, Record
<1>3. ASSUME NEW t \in Token, Expire(t) PROVE shown' = shown \cup RuntimeEffect(latest')
  BY <1>3 DEF Expire
<1>4. CASE Deploys
  BY <1>1, <1>4, DeploysAside DEF Aside, Acknowledge
<1>5. CASE UNCHANGED allVars
  BY <1>5 DEF allVars, accessVars
<1>6. QED
  BY <1>1, <1>2, <1>3, <1>4, <1>5, AccessSteps

\* What was shown is known to nobody, and what is shown now is covered for nobody.
LEMMA ShownStep ==
  ASSUME AInv, [AccessNext]_allVars
  PROVE  ShownIsUnknown'
<1>0. AccessTypeOK /\ Counted /\ KInv /\ RowsAgree /\ WithdrawnIsStale /\ ShownIsUnknown
  BY DEF AInv
<1>1. Coverage'
  BY CoverageStep
<1> SUFFICES ASSUME NEW i \in shown'
             PROVE  /\ \E s \in Subject : <<i, s>> \in withdrawn'
                    /\ \A d \in Deployment : Lively(d)' => ~Knows(d, i)'
  BY DEF ShownIsUnknown
<1>2. CASE i \in shown
  <2>1. PICK s \in Subject : <<i, s>> \in withdrawn
    BY <1>0, <1>2 DEF ShownIsUnknown
  <2>2. <<i, s>> \in withdrawn'
    BY <2>1, WithdrawnGrows
  <2>3. i \in Item /\ Stale(i)
    <3>1. <<i, s>> \in Item \X Subject /\ Stale(<<i, s>>[1])
      BY <1>0, <2>1 DEF AccessTypeOK, WithdrawnIsStale
    <3>2. QED
      BY <3>1
  <2>4. ASSUME NEW d \in Deployment, Lively(d)', Knows(d, i)' PROVE FALSE
    <3>1. Knows(d, i)
      BY <1>0, <2>3, <2>4, NobodyLearns
    <3>2. Lively(d)
      BY <1>0, <2>3, <2>4, <3>1, LivelyBefore, NewcomersKnowNothing
    <3>3. QED
      BY <1>0, <1>2, <3>1, <3>2 DEF ShownIsUnknown
  <2>5. QED
    BY <2>2, <2>4
<1>3. CASE i \notin shown
  <2>1. PICK s \in Subject : <<i, s>> \in withdrawn' /\ latest'[s] = {}
    BY <1>3, ShownGrows
  <2>2. \A d \in Deployment : ~Covered(d, s)'
    BY <2>1 DEF Covered
  <2>3. ASSUME NEW d \in Deployment, Lively(d)', Knows(d, i)' PROVE FALSE
    <3>1. \A p \in withdrawn' : Knows(d, p[1])' => Covered(d, p[2])'
      BY <1>1, <2>3 DEF Coverage
    <3>2. Knows(d, <<i, s>>[1])' => Covered(d, <<i, s>>[2])'
      BY <2>1, <3>1
    <3>3. QED
      BY <2>2, <2>3, <3>2
  <2>4. QED
    BY <2>1, <2>3
<1>4. QED
  BY <1>2, <1>3

\* What is taken back for a subject is shown as soon as nobody is waited for.
LEMMA EffectIsShownStep ==
  ASSUME AInv, [AccessNext]_allVars
  PROVE  EffectIsShown'
<1>0. AccessTypeOK /\ Counted /\ EffectIsShown
  BY DEF AInv
<1>1. CASE shown' = shown \cup RuntimeEffect(latest')
  <2> SUFFICES ASSUME NEW p \in withdrawn', latest'[p[2]] = {} PROVE p[1] \in shown'
    BY DEF EffectIsShown
  <2>1. withdrawn' \subseteq Item \X Subject
    BY <1>0, AccessTypesStep, AccessIsStep DEF AInv, AccessTypeOK
  <2>2. p = <<p[1], p[2]>> /\ p[2] \in Subject
    BY <2>1
  <2>3. p[1] \in RuntimeEffect(latest')
    BY <2>2 DEF RuntimeEffect
  <2>4. QED
    BY <1>1, <2>3
<1>2. CASE Operations
  BY <1>0, <1>1, <1>2, OperationsRetract, ScheduledRecords DEF Retracts, Operates, Record
<1>3. ASSUME NEW t \in Token, Expire(t) PROVE shown' = shown \cup RuntimeEffect(latest')
  BY <1>3 DEF Expire
<1>4. CASE Deploys
  BY <1>1, <1>4, DeploysAside DEF Aside, Acknowledge
<1>5. CASE UNCHANGED allVars
  BY <1>0, <1>5 DEF allVars, accessVars, EffectIsShown
<1>6. QED
  BY <1>1, <1>2, <1>3, <1>4, <1>5, AccessSteps

\* Only a rotation and a revocation, with its record, make a token go.
LEMMA GoneIsWithdrawnStep ==
  ASSUME AInv, [AccessNext]_allVars
  PROVE  GoneIsWithdrawn'
<1>0. /\ AccessTypeOK /\ GoneIsWithdrawn /\ WithdrawnIsStale
      /\ token \in [Token -> {"absent", "active", "expiring", "expired", "revoked", "over"}]
      /\ withdrawn \subseteq withdrawn'
  BY WithdrawnGrows DEF AInv, AccessTypeOK
<1> SUFFICES ASSUME NEW x \in Token, token'[x] \in {"expiring", "revoked", "expired", "over"}
             PROVE  \/ <<<<"token", x>>, x>> \in withdrawn'
                    \/ \E p \in replacedBy' : p[1] = x
  BY DEF GoneIsWithdrawn
<1>1. CASE token' = token /\ replacedBy' = replacedBy
  BY <1>0, <1>1 DEF GoneIsWithdrawn
<1>2. CASE \E m \in {"static", "oidc", "dev"} : Configure(m)
  BY <1>1, <1>2 DEF Configure
<1>3. CASE \E n \in Token : CreateToken(n)
  BY <1>0, <1>3 DEF CreateToken, IssueToken, GoneIsWithdrawn
<1>4. ASSUME NEW t \in Token, NEW n \in Token, NEW overlap \in BOOLEAN, RotateToken(t, n, overlap)
      PROVE  \/ <<<<"token", x>>, x>> \in withdrawn'
             \/ \E p \in replacedBy' : p[1] = x
  <2>1. /\ replacedBy' = replacedBy \cup {<<t, n>>}
        /\ token' = [ExpireForRotation(t, overlap) EXCEPT ![n] = "active"]
    BY <1>4 DEF RotateToken, IssueToken
  <2>2. CASE x = t
    <3>1. <<t, n>> \in replacedBy' /\ <<t, n>>[1] = x
      BY <2>1, <2>2
    <3>2. QED
      BY <3>1
  <2>3. CASE x # t
    <3>1. token[x] = token'[x]
      BY <1>0, <2>1, <2>3 DEF ExpireForRotation
    <3>2. QED
      BY <1>0, <2>1, <3>1 DEF GoneIsWithdrawn
  <2>4. QED
    BY <2>2, <2>3
<1>5. ASSUME NEW t \in Token, RevokeToken(t)
      PROVE  \/ <<<<"token", x>>, x>> \in withdrawn'
             \/ \E p \in replacedBy' : p[1] = x
  <2>1. Scheduled({<<"token", t>>}, t)
    BY <1>5, EffectsAreScheduled DEF RevokeToken
  <2>2. <<<<"token", t>>, t>> \in withdrawn'
    BY <2>1, ScheduledRecords DEF Record
  <2>3. x # t => token'[x] = token[x]
    BY <1>0, <1>5 DEF RevokeToken
  <2>4. replacedBy' = replacedBy
    BY <1>5 DEF RevokeToken
  <2>5. QED
    BY <1>0, <2>2, <2>3, <2>4 DEF GoneIsWithdrawn
<1>6. CASE RotateSecret \/ RevokeCredential
  BY <1>1, <1>6 DEF RotateSecret, RevokeCredential
<1>7. ASSUME NEW t \in Token, Expire(t)
      PROVE  \/ <<<<"token", x>>, x>> \in withdrawn'
             \/ \E p \in replacedBy' : p[1] = x
  <2>1. token[t] = "expiring" /\ token' = [token EXCEPT ![t] = "expired"] /\ replacedBy' = replacedBy
    BY <1>7 DEF Expire
  <2>2. QED
    BY <1>0, <2>1 DEF GoneIsWithdrawn
<1>8. CASE Deploys
  BY <1>1, <1>8, DeploysAside DEF Aside, accessRows
<1>9. CASE UNCHANGED allVars
  BY <1>1, <1>9 DEF allVars, accessVars, accessRows
<1>10. QED
  BY <1>2, <1>3, <1>4, <1>5, <1>6, <1>7, <1>8, <1>9, AccessSteps DEF Operations

-----------------------------------------------------------------------------
(* The theorems. *)

\* A project before its first deployment.
LEMMA AccessInitHolds == AccessInit => AInv
<1> SUFFICES ASSUME AccessInit PROVE AInv
  OBVIOUS
<1>1. KInv
  BY ContainersInit DEF AccessInit
<1>2. /\ \A d \in Deployment : /\ status[d] = "ABSENT" /\ phase[d] = "none" /\ ~activated[d]
                               /\ previous[d] = NoDeployment /\ deployCmd[d] = "none"
      /\ withdrawn = {} /\ shown = {} /\ replacedBy = {} /\ ops = 0 /\ secret = 1 /\ rev \in {0, 1}
      /\ loaded = [d \in Deployment |-> NoBundle] /\ files = [d \in Deployment |-> NoBundle]
  BY DEF AccessInit, Init
<1>3. AccessTypeOK
  <2>1. NoBundle \in Bundle
    BY DEF NoBundle, Bundle, Revision
  <2>2. token \in [Token -> {"absent", "active", "expiring", "expired", "revoked", "over"}]
    BY DEF AccessInit
  <2>3. mode \in {"none", "static", "oidc", "dev"}
    BY DEF AccessInit
  <2>4. rev \in Revision /\ secret \in Version /\ ops \in 0 .. MaxOps
    BY <1>2 DEF Revision, Version
  <2>5. /\ revoked = FALSE /\ snap = NoBundle /\ latest = [s \in Subject |-> {}] /\ revived = {} /\ faults = 0
    BY DEF AccessInit
  <2>6. QED
    BY <1>2, <2>1, <2>2, <2>3, <2>4, <2>5 DEF AccessTypeOK
<1>4. Counted /\ WithdrawnIsStale /\ NothingKnown /\ ShownIsUnknown /\ EffectIsShown
  BY <1>2 DEF Counted, WithdrawnIsStale, NothingKnown, ShownIsUnknown, EffectIsShown
<1>5. RowsAgree /\ PredecessorGone /\ Coverage
  BY <1>2 DEF RowsAgree, PredecessorGone, Coverage, Lively, InProgress
<1>6. GoneIsWithdrawn
  BY DEF AccessInit, GoneIsWithdrawn
<1>7. QED
  BY <1>1, <1>3, <1>4, <1>5, <1>6 DEF AInv

\* The invariant is inductive.
LEMMA AccessStep == AInv /\ [AccessNext]_allVars => AInv'
<1> SUFFICES ASSUME AInv, [AccessNext]_allVars PROVE AInv'
  OBVIOUS
<1>1. KInv /\ AccessTypeOK /\ Counted /\ RowsAgree /\ PredecessorGone /\ [Step]_vars
  BY AccessIsStep DEF AInv
<1>2. KInv'
  BY <1>1, HoldsStep
<1>3. AccessTypeOK' /\ Counted'
  BY <1>1, AccessTypesStep
<1>4. RowsAgree' /\ PredecessorGone'
  BY <1>1, RowsAgreeStep, PredecessorGoneStep
<1>5. WithdrawnIsStale' /\ NothingKnown' /\ Coverage' /\ ShownIsUnknown'
  BY WithdrawnIsStaleStep, NothingKnownStep, CoverageStep, ShownStep
<1>6. GoneIsWithdrawn' /\ EffectIsShown'
  BY GoneIsWithdrawnStep, EffectIsShownStep
<1>7. QED
  BY <1>2, <1>3, <1>4, <1>5, <1>6 DEF AInv

\* It holds in every state.
LEMMA AccessInvariant == AccessSpec => []AInv
BY AccessInitHolds, AccessStep, PTL DEF AccessSpec

\* The rows, the files, the containers' knowledge and the commands have their types.
THEOREM AccessTypes == AccessSpec => []AccessTypeOK
<1>1. AInv => AccessTypeOK
  BY DEF AInv
<1>2. QED
  BY <1>1, AccessInvariant, PTL

\* The deployments of module Access go on as those of module Deployment: the containers of
\* an activation that may still fail are kept, whatever the operations on access ask for.
THEOREM AccessKeepsPredecessor == AccessSpec => []PredecessorRecoverable
<1>1. AInv => PredecessorRecoverable
  BY DEF AInv, KInv, RetiredIsKept, Retired, PredecessorRecoverable
<1>2. QED
  BY <1>1, AccessInvariant, PTL

\* What a runtime that counts honours it knows.
LEMMA HonouredIsKnown ==
  ASSUME NEW i \in Honoured
  PROVE  i \in Item /\ \E d \in Deployment : Lively(d) /\ Knows(d, i)
<1>1. PICK d \in Deployment \ revived : Counts(d) /\ Honours(d, i)
  BY DEF Honoured
<1>2. i \in Item /\ Lively(d)
  BY <1>1 DEF Honoured, Counts, Lively
<1>3. Carries(loaded[d], i) \/ Lends(loaded[d], i)
  BY <1>1, <1>2, ItemParts DEF Honours, Carries, Lends
<1>4. QED
  BY <1>2, <1>3 DEF Knows, Known

\* What was shown was taken back, and no runtime that counts honours it.
Refused ==
    /\ shown \subseteq {p[1] : p \in withdrawn}
    /\ shown \cap Honoured = {}

\* Nobody honours what nobody knows.
LEMMA ShownIsRefused == AInv => Refused
<1> SUFFICES ASSUME AInv PROVE Refused
  OBVIOUS
<1>1. ASSUME NEW i \in shown PROVE i \in {p[1] : p \in withdrawn}
  <2>1. PICK s \in Subject : <<i, s>> \in withdrawn
    BY DEF AInv, ShownIsUnknown
  <2>2. <<i, s>>[1] = i
    OBVIOUS
  <2>3. QED
    BY <2>1, <2>2
<1>2. shown \cap Honoured = {}
  BY HonouredIsKnown DEF AInv, ShownIsUnknown
<1>3. QED
  BY <1>1, <1>2 DEF Refused

\* What the token list shows of a token that was revoked by itself was shown by the
\* revocation.
LEMMA AcknowledgedIsShown ==
  ASSUME AInv
  PROVE  Acknowledged = shown
<1> SUFFICES ASSUME NEW i \in ListedGone, ~OnlyRotated(i[2]) PROVE i \in shown
  BY DEF Acknowledged
<1>1. PICK t \in Token : /\ token[t] \in {"revoked", "expired", "over"} /\ latest[t] = {}
                         /\ i = <<"token", t>>
  BY DEF ListedGone
<1>2. i[2] = t
  BY <1>1
<1>3. <<<<"token", t>>, t>> \in withdrawn
  BY <1>1, <1>2 DEF AInv, GoneIsWithdrawn, OnlyRotated
<1>4. <<<<"token", t>>, t>>[1] = i /\ <<<<"token", t>>, t>>[2] = t
  BY <1>1
<1>5. QED
  BY <1>1, <1>3, <1>4 DEF AInv, EffectIsShown

\* Access that was taken back is refused from the moment the operation, or the list of
\* tokens, shows it as effective: runtime_effect_update, the commands that an operation
\* commits with, and the runner that carries them out, with its failures, together
\* implement Revocation.  The list's rows of tokens that were only rotated are not taken
\* for an acknowledgement (OnlyRotated): they come before the runtimes have changed.
THEOREM RevocationIsKept == AccessSpec => AccessRefines
<1>1. AccessInit => Promised!Init
  <2> SUFFICES ASSUME AccessInit PROVE Promised!Init
    OBVIOUS
  <2>1. withdrawn = {} /\ shown = {} /\ \A d \in Deployment : status[d] = "ABSENT"
    BY DEF AccessInit, Init
  <2>2. Honoured = {}
    BY <2>1 DEF Honoured, Counts, InProgress
  <2>3. Acknowledged = {}
    BY <2>1, AccessInitHolds, AcknowledgedIsShown
  <2>4. QED
    BY <2>1, <2>2, <2>3 DEF Promised!Init
<1> DEFINE Told == Acknowledged = shown
<1>2. AInv /\ AInv' /\ Refused' /\ Told /\ Told' /\ [AccessNext]_allVars
        => [Promised!Next]_(Promised!vars)
  <2> SUFFICES ASSUME AInv, AInv', Refused', Told, Told', [AccessNext]_allVars PROVE Promised!Next
    OBVIOUS
  <2> DEFINE W == {p[1] : p \in withdrawn}
  <2>1. W \subseteq W' /\ W' \in SUBSET Item
    BY WithdrawnGrows DEF AInv, AccessTypeOK
  <2>2. Honoured' \in SUBSET Item /\ shown \subseteq shown'
    BY ShownGrows DEF Honoured
  <2>3. shown' \subseteq W' /\ shown' \cap Honoured' = {}
    BY DEF Refused
  <2>4. QED
    BY <2>1, <2>2, <2>3 DEF Promised!Next, Promised!Withdraw, Promised!Serve, Promised!Promise
<1>3. AInv => Told
  BY AcknowledgedIsShown
<1> HIDE DEF Told
<1>4. QED
  BY <1>1, <1>2, <1>3, AccessInvariant, ShownIsRefused, PTL DEF AccessSpec, AccessRefines, Promised!Spec
=============================================================================
