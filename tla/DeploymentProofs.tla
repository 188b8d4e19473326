------------------------- MODULE DeploymentProofs -------------------------
(***************************************************************************)
(* Theorems about Deployment, for every number of deployments.             *)
(*                                                                         *)
(* The project's pointer and the rows are written by different             *)
(* transactions of the control plane and of the runner, and the runner may *)
(* be cut off between any two of them.  That they agree (ActiveIsLive) is  *)
(* not inductive alone: a failure that returns the candidate's row to      *)
(* PENDING or FAILED keeps it only because a candidate that has not been   *)
(* switched to, or has been restored away from, is not the active one      *)
(* (StartingIsNotActive).  That holds when a command is picked up because  *)
(* a candidate that the project is disabled under is no longer on its way  *)
(* (InFlightEnabled), and when a predecessor takes over because it is      *)
(* another deployment (PreviousIsOther).                                   *)
(***************************************************************************)
EXTENDS Deployment, TLAPS

USE DeploymentAssumption

\* The conjuncts of TypeOK about the runner.
TypeOfRunner ==
    /\ pc \in PC
    /\ run \in OrNone(Deployment)
    /\ stopFor \in Deployment \cup {Alone, NoDeployment}
    /\ victim \in OrNone(Deployment)
    /\ todo \in SUBSET Deployment
    /\ err \in Error
    /\ owner \in BOOLEAN
    /\ ready \in BOOLEAN
    /\ pc # "idle" => run \in Deployment
    /\ pc \in {"stopOld", "stopOldRow", "sweepRow"} => victim \in Deployment
    /\ pc \in {"stop", "stopRow"} => stopFor # NoDeployment

\* What the control plane can be asked to do, offered or not.
Asks ==
    \/ \E n \in Deployment, first \in BOOLEAN : Request(n, first)
    \/ \E n \in Deployment : Restart(n)
    \/ \E n, t \in Deployment : Rollback(n, t)
    \/ \E n \in Deployment, first \in BOOLEAN : RedeployActive(n, first)
    \/ StopProject
    \/ \E d \in Deployment : Stop(d)
    \/ Disable \/ Enable

\* The disjuncts of Next that pick up a command.
PicksUp ==
    \/ \E d \in Deployment : DeployIsOver(d) \/ DeployResumes(d) \/ DeployRefused(d)
                                \/ DeployBegins(d)
    \/ \E d \in Deployment, t \in Deployment \cup {Alone} : StopStarts(d, t)

\* A step of the module, whatever the control plane offers.
Step == Asks \/ PicksUp \/ Progress \/ Failing

\* The steps of the specification are among them.
LEMMA NextIsStep == Next => Step
  BY DEF Next, ControlPlane, Asks, PicksUp, Step

\* An update keeps a function's type if the new value has the type, should the
\* argument be in the domain at all.
LEMMA ExceptType ==
  ASSUME NEW S, NEW T, NEW f \in [S -> T], NEW x, NEW v, x \in S => v \in T
  PROVE  [f EXCEPT ![x] = v] \in [S -> T]
OBVIOUS

\* Whatever a removal that breaks off leaves is a state of a container.
LEMMA BreaksOffType ==
  ASSUME TypeOK, NEW d, NEW e, RemoveBreaksOff(d, e)
  PROVE  container' \in [Deployment -> {"none", "stopped", "up"}]
<1>1. PICK c \in {"none"} \cup {x \in {container[d], Halted(container[d])} : e = "retry"} :
        container' = [container EXCEPT ![d] = c]
  BY DEF RemoveBreaksOff
<1>2. d \in Deployment => c \in {"none", "stopped", "up"}
  BY <1>1 DEF TypeOK, Halted
<1>3. container \in [Deployment -> {"none", "stopped", "up"}]
  BY DEF TypeOK
<1>4. QED
  BY <1>1, <1>2, <1>3

\* The operations of the control plane keep the types.
LEMMA TypeAsks == TypeOK /\ Asks => TypeOK'
<1> SUFFICES ASSUME TypeOK PROVE Asks => TypeOK'
  OBVIOUS
<1> USE DEF TypeOK, Status, Stoppable, InProgress, PC, Error, OrNone, lifecycle,
  request, project, commands, runner, locals
<1>1. ASSUME NEW n \in Deployment, NEW first \in BOOLEAN, Request(n, first)
      PROVE  TypeOK'
  BY <1>1 DEF Request, Create, Fresh, Stopping, ScheduleStops
<1>2. ASSUME NEW n \in Deployment, Restart(n)
      PROVE  TypeOK'
  BY <1>2 DEF Restart, Create, Fresh, Stopping, ScheduleStops
<1>3. ASSUME NEW n \in Deployment, NEW t \in Deployment, Rollback(n, t)
      PROVE  TypeOK'
  BY <1>3 DEF Rollback, Create, Fresh, Stopping, ScheduleStops
<1>4. ASSUME NEW n \in Deployment, NEW first \in BOOLEAN, RedeployActive(n, first)
      PROVE  TypeOK'
  BY <1>4 DEF RedeployActive, Create, Fresh, Stopping, ScheduleStops
<1>5. CASE StopProject
  BY <1>5 DEF StopProject, StopAll, Stopping, ScheduleStops
<1>6. ASSUME NEW d \in Deployment, Stop(d)
      PROVE  TypeOK'
  BY <1>6 DEF Stop, Stopping, ScheduleStops
<1>7. CASE Disable
  <2>1. status' \in [Deployment -> Status]
    BY <1>7 DEF Disable, StopAll, Stopping
  <2>2. stopDue' \in SUBSET (Deployment \X (Deployment \cup {Alone}))
    BY <1>7 DEF Disable, StopAll, ScheduleStops
  <2>3. QED
    BY <1>7, <2>1, <2>2 DEF Disable
<1>8. CASE Enable
  BY <1>8 DEF Enable
<1> HIDE DEF TypeOK
<1>9. QED
  BY <1>1, <1>2, <1>3, <1>4, <1>5, <1>6, <1>7, <1>8 DEF Asks

\* Picking up a command keeps the types.
LEMMA TypeCommands == TypeOK /\ PicksUp => TypeOK'
<1> SUFFICES ASSUME TypeOK PROVE PicksUp => TypeOK'
  OBVIOUS
<1> USE DEF TypeOK, Status, Stoppable, InProgress, PC, Error, OrNone, lifecycle,
  request, project, commands, runner, locals
<1>1. ASSUME NEW d \in Deployment, DeployIsOver(d)
      PROVE  TypeOK'
  BY <1>1 DEF DeployIsOver, Verdict
<1>2. ASSUME NEW d \in Deployment, DeployResumes(d)
      PROVE  TypeOK'
  BY <1>2 DEF DeployResumes
<1>3. ASSUME NEW d \in Deployment, DeployRefused(d)
      PROVE  TypeOK'
  BY <1>3 DEF DeployRefused
<1>4. ASSUME NEW d \in Deployment, DeployBegins(d)
      PROVE  TypeOK'
  BY <1>4 DEF DeployBegins, DeployDue
<1>5. ASSUME NEW d \in Deployment, NEW t \in Deployment \cup {Alone}, StopStarts(d, t)
      PROVE  TypeOK'
  <2>1. CASE status[d] \in {"STOPPED", "FAILED"}
    BY <1>5, <2>1, ZenonT(60) DEF StopStarts
  <2>2. CASE status[d] \notin {"STOPPED", "FAILED"}
    <3>1. t # NoDeployment
      OBVIOUS
    <3>2. /\ pc' = "stop" /\ run' = d /\ stopFor' = t
          /\ UNCHANGED <<victim, todo, err, owner, ready, stopDue>>
          /\ UNCHANGED <<lifecycle, request, project, deployCmd, stopFailed, container>>
      BY <1>5, <2>2 DEF StopStarts
    <3>3. QED
      BY <3>1, <3>2
  <2>3. QED
    BY <2>1, <2>2
<1> HIDE DEF TypeOK
<1>6. QED
  BY <1>1, <1>2, <1>3, <1>4, <1>5 DEF PicksUp

\* The runner's steps that go as they should keep the types.
LEMMA TypeProgress == TypeOK /\ Progress => TypeOK'
<1> SUFFICES ASSUME TypeOK PROVE Progress => TypeOK'
  OBVIOUS
<1> USE DEF TypeOK, Status, Stoppable, InProgress, PC, Error, OrNone, lifecycle,
  request, project, commands, runner, locals
<1>1. CASE Prepare
  BY <1>1 DEF Prepare, Goto
<1>2. CASE StopOld
  BY <1>2 DEF StopOld, Goto, RemoveRuntime
<1>3. CASE StopOldRow
  BY <1>3 DEF StopOldRow, Goto, StopRow
<1>4. CASE StopRuntime
  BY <1>4 DEF StopRuntime, Goto, RemoveRuntime
<1>5. ASSUME NEW m \in BOOLEAN, StopTakesEffect(m)
      PROVE  TypeOK'
  BY <1>5 DEF StopTakesEffect, StopRow, Leave
<1>6. CASE Start
  BY <1>6 DEF Start, Goto
<1>7. CASE StartRefused
  BY <1>7 DEF StartRefused, Raise
<1>8. CASE Provision
  BY <1>8 DEF Provision, Goto
<1>9. CASE BeginActivation
  BY <1>9 DEF BeginActivation
<1>10. CASE ActivationRefused
  BY <1>10 DEF ActivationRefused, Raise
<1>11. CASE Retire
  BY <1>11 DEF Retire, Goto
<1>12. CASE RetireRefused
  BY <1>12 DEF RetireRefused, Raise
<1>13. CASE StopPrevious
  <2> DEFINE p == previous[run]
  <2>1. container' = [container EXCEPT ![p] = Halted(container[p])]
    BY <1>13 DEF StopPrevious
  <2>2. p \in Deployment => Halted(container[p]) \in {"none", "stopped", "up"}
    BY DEF Halted
  <2>3. container' \in [Deployment -> {"none", "stopped", "up"}]
    BY <2>1, <2>2
  <2>4. QED
    BY <1>13, <2>3 DEF StopPrevious, Goto
<1>14. CASE Complete
  BY <1>14 DEF Complete, Goto
<1>15. CASE RemovePrevious
  <2>1. container' \in [Deployment -> {"none", "stopped", "up"}]
    BY <1>15, ExceptType DEF RemovePrevious, RemoveRuntime
  <2>2. QED
    BY <1>15, <2>1 DEF RemovePrevious, Goto
<1>16. CASE Sweep
  BY <1>16 DEF Sweep
<1>17. ASSUME NEW d \in Deployment, SweepStop(d)
      PROVE  TypeOK'
  BY <1>17 DEF SweepStop, RemoveRuntime
<1>18. CASE SweepRow
  BY <1>18 DEF SweepRow, Goto, StopRow
<1>19. CASE Verify
  BY <1>19 DEF Verify, Verdict, Leave
<1>20. CASE Recheck
  BY <1>20 DEF Recheck, MayRefresh
<1>21. CASE StopCandidate
  BY <1>21 DEF StopCandidate, Goto, Halted
<1>22. CASE RestorePrevious
  BY <1>22 DEF RestorePrevious
<1>23. CASE RestoreRow
  <2>1. /\ status' \in [Deployment -> Status]
        /\ phase' \in [Deployment -> {"none", "verified", "retiring", "running", "failed"}]
        /\ activating' \in [Deployment -> BOOLEAN]
        /\ active' \in OrNone(Deployment)
        /\ hasBuild' \in BOOLEAN
    <3>1. CASE active = run
      <4> DEFINE p == previous[run]
                 back == Restorable(p)
                 fails == status[run] \in {"HEALTHCHECK", "RUNNING"}
      <4>1. /\ status' = [d \in Deployment |-> IF d = run /\ fails THEN "UNHEALTHY"
                           ELSE IF d = p /\ back THEN "RUNNING" ELSE status[d]]
            /\ phase' = [phase EXCEPT ![run] = IF fails THEN "failed" ELSE @]
            /\ activating' = [activating EXCEPT ![run] = ~fails /\ @]
            /\ active' = IF back THEN p ELSE NoDeployment
            /\ hasBuild' = back
        BY <1>23, <3>1 DEF RestoreRow
      <4>2. back \in BOOLEAN /\ (back => p \in Deployment)
        BY DEF Restorable
      <4> HIDE DEF back
      <4>3. activating' \in [Deployment -> BOOLEAN]
        BY <4>1
      <4>4. QED
        BY <4>1, <4>2, <4>3
    <3>2. CASE active # run
      BY <1>23, <3>2 DEF RestoreRow
    <3>3. QED
      BY <3>1, <3>2
  <2>2. /\ deployCmd' \in [Deployment -> {"none", "due", "effective", "failed"}]
        /\ TypeOfRunner'
    <3>1. CASE owner
      BY <1>23, <3>1 DEF RestoreRow, AfterRestore, DeployRaises, Leave, TypeOfRunner
    <3>2. CASE ~owner
      BY <1>23, <3>2 DEF RestoreRow, AfterRestore, TypeOfRunner
    <3>3. QED
      BY <3>1, <3>2
  <2>3. QED
    BY <1>23, <2>1, <2>2 DEF RestoreRow, TypeOfRunner
<1>24. ASSUME NEW r \in BOOLEAN, Cleanup(r)
      PROVE  TypeOK'
  BY <1>24 DEF Cleanup, Goto
<1>25. CASE SettleForRetry
  BY <1>25, ZenonT(60) DEF SettleForRetry, Verdict, Leave
<1>26. CASE SettleAsFailed
  BY <1>26, ZenonT(60) DEF SettleAsFailed, Leave
<1> HIDE DEF TypeOK
<1>27. QED
  BY <1>1, <1>2, <1>3, <1>4, <1>5, <1>6, <1>7, <1>8, <1>9, <1>10, <1>11, <1>12, <1>13,
     <1>14, <1>15, <1>16, <1>17, <1>18, <1>19, <1>20, <1>21, <1>22, <1>23, <1>24, <1>25,
     <1>26 DEF Progress

\* The runner's steps that fail keep the types.
LEMMA TypeFailing == TypeOK /\ Failing => TypeOK'
<1> SUFFICES ASSUME TypeOK PROVE Failing => TypeOK'
  OBVIOUS
<1> USE DEF TypeOK, Status, Stoppable, InProgress, PC, Error, OrNone, lifecycle,
  request, project, commands, runner, locals
<1>1. CASE Abandon
  BY <1>1 DEF Abandon, Leave
<1>2. CASE PrepareFails
  BY <1>2 DEF PrepareFails, Raise
<1>3. CASE ProvisionFails
  BY <1>3 DEF ProvisionFails, Raise
<1>4. CASE StopPreviousFails
  <2>1. PICK c \in {container[previous[run]], Halted(container[previous[run]])} :
          container' = [container EXCEPT ![previous[run]] = c]
    BY <1>4 DEF StopPreviousFails
  <2>2. previous[run] \in Deployment => c \in {"none", "stopped", "up"}
    BY <2>1 DEF Halted
  <2>3. container' \in [Deployment -> {"none", "stopped", "up"}]
    BY <2>1, <2>2
  <2>4. QED
    BY <1>4, <2>3 DEF StopPreviousFails, Raise
<1>5. ASSUME NEW e \in {"retry", "final"}, StopOldFails(e)
      PROVE  TypeOK'
  BY <1>5 DEF StopOldFails, Raise, RemoveBreaksOff, Halted
<1>6. ASSUME NEW e \in {"retry", "final"}, StopFails(e)
      PROVE  TypeOK'
  <2>1. container' \in [Deployment -> {"none", "stopped", "up"}]
    BY <1>6, BreaksOffType DEF StopFails
  <2>2. /\ stopDue' \in SUBSET (Deployment \X (Deployment \cup {Alone}))
        /\ stopFailed' \in SUBSET (Deployment \X (Deployment \cup {Alone}))
    BY <1>6 DEF StopFails
  <2>3. QED
    BY <1>6, <2>1, <2>2 DEF StopFails, Leave
<1>7. ASSUME NEW e \in {"retry", "final"}, CompleteFails(e)
      PROVE  TypeOK'
  BY <1>7 DEF CompleteFails, Raise
<1>8. ASSUME NEW e \in {"retry", "final"}, RemovePreviousFails(e)
      PROVE  TypeOK'
  <2>1. container' \in [Deployment -> {"none", "stopped", "up"}]
    BY <1>8, BreaksOffType DEF RemovePreviousFails
  <2>2. QED
    BY <1>8, <2>1 DEF RemovePreviousFails, DeployRaises, Leave
<1>9. ASSUME NEW d \in Deployment, NEW e \in {"retry", "final"}, SweepFails(d, e)
      PROVE  TypeOK'
  <2>1. container' \in [Deployment -> {"none", "stopped", "up"}]
    BY <1>9, BreaksOffType DEF SweepFails
  <2>2. QED
    BY <1>9, <2>1 DEF SweepFails, DeployRaises, Leave
<1>10. ASSUME NEW e \in {"retry", "final"}, RecheckFails(e)
      PROVE  TypeOK'
  BY <1>10 DEF RecheckFails, MayRefresh, Raise
<1>11. CASE StopCandidateFails
  BY <1>11 DEF StopCandidateFails, Goto, Halted
<1>12. CASE RestorePreviousFails
  <2>1. PICK c \in {container[previous[run]]} \cup
                     {x \in {"up"} : container[previous[run]] # "none"} :
          container' = [container EXCEPT ![previous[run]] = c]
    BY <1>12 DEF RestorePreviousFails
  <2>2. previous[run] \in Deployment => c \in {"none", "stopped", "up"}
    BY <2>1
  <2>3. container' \in [Deployment -> {"none", "stopped", "up"}]
    BY <2>1, <2>2
  <2>4. QED
    BY <1>12, <2>3 DEF RestorePreviousFails, Goto
<1>13. ASSUME NEW m \in BOOLEAN, StopTakesEffect(m)
      PROVE  TypeOK'
  BY <1>13 DEF StopTakesEffect, StopRow, Leave
<1>14. ASSUME NEW r \in BOOLEAN, Cleanup(r)
      PROVE  TypeOK'
  BY <1>14 DEF Cleanup, Goto
<1> HIDE DEF TypeOK
<1>15. QED
  BY <1>1, <1>2, <1>3, <1>4, <1>5, <1>6, <1>7, <1>8, <1>9, <1>10, <1>11, <1>12, <1>13,
     <1>14 DEF Failing


\* Every step keeps the type invariant.
LEMMA TypeStep == TypeOK /\ [Step]_vars => TypeOK'
<1>1. CASE UNCHANGED vars
  BY <1>1 DEF TypeOK, vars, lifecycle, request, project, commands, runner, locals
<1>2. QED
  BY <1>1, TypeAsks, TypeCommands, TypeProgress, TypeFailing DEF Step

\* The initial state has its type.
LEMMA InitType == Init => TypeOK
<1> SUFFICES ASSUME Init PROVE TypeOK
  OBVIOUS
<1>1. /\ status \in [Deployment -> Status]
      /\ phase \in [Deployment -> {"none", "verified", "retiring", "running", "failed"}]
      /\ activating \in [Deployment -> BOOLEAN]
      /\ activated \in [Deployment -> BOOLEAN]
  BY DEF Init, Status
<1>2. /\ previous \in [Deployment -> OrNone(Deployment)]
      /\ kind \in [Deployment -> {"deploy", "restart", "rollback"}]
      /\ target \in [Deployment -> OrNone(Deployment)]
      /\ stopFirst \in [Deployment -> BOOLEAN]
  BY DEF Init, OrNone
<1>3. /\ deployCmd \in [Deployment -> {"none", "due", "effective", "failed"}]
      /\ container \in [Deployment -> {"none", "stopped", "up"}]
  BY DEF Init
<1>4. QED
  BY <1>1, <1>2, <1>3 DEF Init, TypeOK, PC, Error, OrNone

\* The rows, the commands and the runner's locals keep their types.
THEOREM TypeCorrect == Spec => []TypeOK
BY InitType, TypeStep, NextIsStep, PTL DEF Spec

-----------------------------------------------------------------------------

\* Where the runner is before the switch, and on its way out after a failure.
Starting == {"prepare", "stopOld", "stopOldRow", "start", "provision", "activate", "cleanup",
             "settle"}

\* A deployment on its way belongs to a project that is enabled: disabling it
\* stops every such row in the same transaction.
InFlightEnabled == \A d \in Deployment : status[d] \in InProgress => enabled

\* A candidate becomes the active deployment with begin_activation and not before,
\* and is not the active one any more when it is cleaned up.
StartingIsNotActive == pc \in Starting => active # run

\* No deployment is its own predecessor.
PreviousIsOther == \A d \in Deployment : previous[d] # d

\* At most one deployment is on its way.
OneInProgress ==
    \A c, d \in Deployment : status[c] \in InProgress /\ status[d] \in InProgress => c = d

\* The inductive invariant.
IInv ==
    /\ TypeOK
    /\ OneInProgress
    /\ ActiveIsLive
    /\ InFlightEnabled
    /\ StartingIsNotActive
    /\ PreviousIsOther

\* A step that leaves the rows' statuses, their pending activations and the
\* project alone keeps the invariant, if the runner does not start on the active one.
LEMMA QuietStep ==
  ASSUME IInv, TypeOK', UNCHANGED <<status, activating, active, previous, enabled>>,
         pc' \in Starting => active # run'
  PROVE  IInv'
BY DEF IInv, OneInProgress, ActiveIsLive, Pending, InFlightEnabled, StartingIsNotActive,
       PreviousIsOther

\* Asking live rows to stop keeps the invariant; a step that may disable the
\* project has to ask all of them.
LEMMA StopsKeep ==
  ASSUME IInv, TypeOK', NEW S \in SUBSET {d \in Deployment : Live(d)},
         status' = Stopping(S), UNCHANGED <<activating, active, previous, pc, run>>,
         enabled' = enabled \/ S = {d \in Deployment : Live(d)}
  PROVE  IInv'
<1> USE DEF IInv, TypeOK, Stopping, Live, InProgress, Stoppable
<1>1. OneInProgress'
  BY DEF OneInProgress
<1>2. ActiveIsLive'
  BY DEF ActiveIsLive, Pending
<1>3. InFlightEnabled'
  BY DEF InFlightEnabled
<1>4. StartingIsNotActive' /\ PreviousIsOther'
  BY DEF StartingIsNotActive, PreviousIsOther
<1>5. QED
  BY <1>1, <1>2, <1>3, <1>4

\* clear_active and mark_stopped keep the invariant, whichever row they write.
LEMMA StopRowKeeps ==
  ASSUME IInv, TypeOK', NEW d \in Deployment, StopRow(d), UNCHANGED previous,
         pc' \in Starting => active' # run'
  PROVE  IInv'
<1> USE DEF IInv, TypeOK, StopRow, InProgress
<1>1. OneInProgress'
  BY DEF OneInProgress
<1>2. ActiveIsLive'
  BY DEF ActiveIsLive, Pending
<1>3. InFlightEnabled'
  BY DEF InFlightEnabled
<1>4. StartingIsNotActive' /\ PreviousIsOther'
  BY DEF StartingIsNotActive, PreviousIsOther
<1>5. QED
  BY <1>1, <1>2, <1>3, <1>4

\* A new deployment keeps the invariant, if only live rows are stopped for it.
LEMMA CreateKeeps ==
  ASSUME IInv, TypeOK', NEW n \in Deployment, NEW k, NEW t, NEW first,
         NEW S \in SUBSET {d \in Deployment : Live(d)}, Create(n, k, t, first, S)
  PROVE  IInv'
<1>1. /\ status[n] = "ABSENT" /\ enabled /\ ~Conflict(S)
      /\ status' = [Stopping(S) EXCEPT ![n] = "PENDING"]
      /\ previous' = [previous EXCEPT ![n] = active]
      /\ UNCHANGED <<activating, active, enabled, pc, run>>
  BY DEF Create, Fresh, project, runner, locals
<1> USE DEF IInv, TypeOK, Stopping, Live, InProgress, Stoppable
<1>2. active # n
  BY <1>1 DEF ActiveIsLive, Pending
<1>3. OneInProgress'
  BY <1>1 DEF OneInProgress, Conflict
<1>4. ActiveIsLive'
  BY <1>1, <1>2 DEF ActiveIsLive, Pending
<1>5. InFlightEnabled'
  BY <1>1 DEF InFlightEnabled
<1>6. StartingIsNotActive' /\ PreviousIsOther'
  BY <1>1, <1>2 DEF StartingIsNotActive, PreviousIsOther
<1>7. QED
  BY <1>3, <1>4, <1>5, <1>6

\* The operations of the control plane keep the invariant.
LEMMA KeepsAsks == IInv /\ TypeOK' /\ Asks => IInv'
<1> SUFFICES ASSUME IInv, TypeOK' PROVE Asks => IInv'
  OBVIOUS
<1> USE DEF request, project, runner, locals
<1>0. {} \in SUBSET {d \in Deployment : Live(d)}
  OBVIOUS
<1>1. ASSUME NEW n \in Deployment, NEW first \in BOOLEAN, Request(n, first)
      PROVE  IInv'
  <2>1. Create(n, "deploy", NoDeployment, first, {})
    BY <1>1 DEF Request
  <2>2. QED
    BY <1>0, <2>1, CreateKeeps
<1>2. ASSUME NEW n \in Deployment, Restart(n)
      PROVE  IInv'
  <2>1. Create(n, "restart", active, FALSE, {})
    BY <1>2 DEF Restart
  <2>2. QED
    BY <1>0, <2>1, CreateKeeps
<1>3. ASSUME NEW n \in Deployment, NEW t \in Deployment, Rollback(n, t)
      PROVE  IInv'
  <2>1. Create(n, "rollback", t, FALSE, {})
    BY <1>3 DEF Rollback
  <2>2. QED
    BY <1>0, <2>1, CreateKeeps
<1>4. ASSUME NEW n \in Deployment, NEW first \in BOOLEAN, RedeployActive(n, first)
      PROVE  IInv'
  <2> DEFINE S == {d \in Deployment : Live(d) /\ (first \/ status[d] \in InProgress)}
  <2>1. Create(n, "deploy", NoDeployment, first, S)
    BY <1>4 DEF RedeployActive
  <2>2. S \in SUBSET {d \in Deployment : Live(d)}
    OBVIOUS
  <2> HIDE DEF S
  <2>3. QED
    BY <2>1, <2>2, CreateKeeps
<1>5. CASE StopProject
  <2> DEFINE S == {d \in Deployment : Live(d)}
  <2>1. status' = Stopping(S) /\ UNCHANGED <<activating, active, previous, enabled, pc, run>>
    BY <1>5 DEF StopProject, StopAll
  <2>2. S \in SUBSET {d \in Deployment : Live(d)}
    OBVIOUS
  <2> HIDE DEF S
  <2>3. QED
    BY <2>1, <2>2, StopsKeep
<1>6. ASSUME NEW d \in Deployment, Stop(d)
      PROVE  IInv'
  <2>1. {d} \in SUBSET {c \in Deployment : Live(c)}
    BY <1>6 DEF Stop
  <2>2. status' = Stopping({d}) /\ UNCHANGED <<activating, active, previous, enabled, pc, run>>
    BY <1>6 DEF Stop
  <2>3. QED
    BY <2>1, <2>2, StopsKeep
<1>7. CASE Disable
  <2> DEFINE S == {d \in Deployment : Live(d)}
  <2>1. status' = Stopping(S) /\ UNCHANGED <<activating, active, previous, pc, run>>
    BY <1>7 DEF Disable, StopAll
  <2>2. S \in SUBSET {d \in Deployment : Live(d)} /\ S = {d \in Deployment : Live(d)}
    OBVIOUS
  <2> HIDE DEF S
  <2>3. QED
    BY <2>1, <2>2, StopsKeep
<1>8. CASE Enable
  <2>1. /\ enabled' = TRUE
        /\ UNCHANGED <<status, activating, active, previous, pc, run>>
    BY <1>8 DEF Enable, lifecycle
  <2>2. QED
    BY <2>1 DEF IInv, OneInProgress, ActiveIsLive, Pending, InFlightEnabled,
                StartingIsNotActive, PreviousIsOther
<1>9. QED
  BY <1>1, <1>2, <1>3, <1>4, <1>5, <1>6, <1>7, <1>8 DEF Asks

\* Picking up a command keeps the invariant.
LEMMA KeepsCommands == IInv /\ TypeOK' /\ PicksUp => IInv'
<1> SUFFICES ASSUME IInv, TypeOK' PROVE PicksUp => IInv'
  OBVIOUS
<1> USE DEF lifecycle, request, project, runner, locals
<1>1. ASSUME NEW d \in Deployment, DeployIsOver(d)
      PROVE  IInv'
  BY <1>1, QuietStep DEF DeployIsOver, IInv, StartingIsNotActive
<1>2. ASSUME NEW d \in Deployment, DeployResumes(d)
      PROVE  IInv'
  BY <1>2, QuietStep DEF DeployResumes, Starting
<1>3. ASSUME NEW d \in Deployment, DeployRefused(d)
      PROVE  IInv'
  <2>1. enabled /\ ~Pending(d)
    BY <1>3 DEF DeployRefused, IInv, InFlightEnabled
  <2>2. active # d
    BY <1>3, <2>1 DEF DeployRefused, IInv, ActiveIsLive, InProgress
  <2>3. QED
    BY <1>3, <2>2, QuietStep DEF DeployRefused
<1>4. ASSUME NEW d \in Deployment, DeployBegins(d)
      PROVE  IInv'
  <2>1. /\ status[d] \in InProgress /\ enabled /\ ~Pending(d)
        /\ status' = [status EXCEPT ![d] = "DEPLOYING"]
        /\ run' = d
        /\ UNCHANGED <<activating, active, previous, enabled>>
    BY <1>4 DEF DeployBegins
  <2>2. active # d
    BY <2>1 DEF IInv, ActiveIsLive, InProgress
  <2> USE DEF IInv, TypeOK, InProgress
  <2>3. OneInProgress' /\ InFlightEnabled'
    BY <2>1 DEF OneInProgress, InFlightEnabled
  <2>4. ActiveIsLive'
    BY <2>1, <2>2 DEF ActiveIsLive, Pending
  <2>5. StartingIsNotActive' /\ PreviousIsOther'
    BY <2>1, <2>2 DEF StartingIsNotActive, PreviousIsOther
  <2>6. QED
    BY <2>3, <2>4, <2>5
<1>5. ASSUME NEW d \in Deployment, NEW t \in Deployment \cup {Alone}, StopStarts(d, t)
      PROVE  IInv'
  <2>1. UNCHANGED <<status, activating, active, previous, enabled>>
    BY <1>5 DEF StopStarts
  <2>2. pc' = "stop" \/ UNCHANGED <<pc, run>>
    BY <1>5 DEF StopStarts
  <2>3. QED
    BY <2>1, <2>2, QuietStep DEF IInv, StartingIsNotActive, Starting
<1>6. QED
  BY <1>1, <1>2, <1>3, <1>4, <1>5 DEF PicksUp

\* The runner's steps that go as they should keep the invariant.
LEMMA KeepsProgress == IInv /\ TypeOK' /\ Progress => IInv'
<1> SUFFICES ASSUME IInv, TypeOK' PROVE Progress => IInv'
  OBVIOUS
<1> USE DEF lifecycle, request, project, runner, locals
<1>1. CASE Prepare
  BY <1>1, QuietStep DEF Prepare, Goto, IInv, StartingIsNotActive, Starting
<1>2. CASE StopOld
  BY <1>2, QuietStep DEF StopOld, Goto, IInv, StartingIsNotActive, Starting
<1>3. CASE StopOldRow
  <2>1. victim \in Deployment /\ active # run
    BY <1>3 DEF StopOldRow, IInv, TypeOK, StartingIsNotActive, Starting
  <2>2. StopRow(victim) /\ UNCHANGED <<previous, run>>
    BY <1>3 DEF StopOldRow, Goto
  <2>3. run \in Deployment
    BY <1>3 DEF StopOldRow, IInv, TypeOK
  <2>4. active' # run'
    BY <2>1, <2>2, <2>3 DEF StopRow
  <2>5. QED
    BY <2>1, <2>2, <2>4, StopRowKeeps
<1>4. CASE StopRuntime
  BY <1>4, QuietStep DEF StopRuntime, Goto, IInv, StartingIsNotActive, Starting
<1>5. ASSUME NEW m \in BOOLEAN, StopTakesEffect(m)
      PROVE  IInv'
  <2>1. run \in Deployment
    BY <1>5 DEF StopTakesEffect, IInv, TypeOK
  <2>2. StopRow(run) /\ UNCHANGED previous /\ pc' \notin Starting
    BY <1>5 DEF StopTakesEffect, Leave, Starting
  <2>3. QED
    BY <2>1, <2>2, StopRowKeeps
<1>6. CASE Start
  <2>1. /\ status[run] \in {"DEPLOYING", "HEALTHCHECK"}
        /\ status' = [status EXCEPT ![run] = "HEALTHCHECK"]
        /\ activating' = [activating EXCEPT ![run] = FALSE]
        /\ UNCHANGED <<active, previous, enabled, run>>
    BY <1>6 DEF Start, Goto
  <2>2. run \in Deployment /\ active # run
    BY <1>6 DEF Start, IInv, TypeOK, StartingIsNotActive, Starting
  <2> USE DEF IInv, TypeOK, InProgress
  <2>3. OneInProgress' /\ InFlightEnabled'
    BY <2>1, <2>2 DEF OneInProgress, InFlightEnabled
  <2>4. ActiveIsLive'
    BY <2>1, <2>2 DEF ActiveIsLive, Pending
  <2>5. StartingIsNotActive' /\ PreviousIsOther'
    BY <2>1, <2>2 DEF StartingIsNotActive, Starting, PreviousIsOther
  <2>6. QED
    BY <2>3, <2>4, <2>5
<1>7. CASE StartRefused
  BY <1>7, QuietStep DEF StartRefused, Raise, IInv, StartingIsNotActive, Starting
<1>8. CASE Provision
  BY <1>8, QuietStep DEF Provision, Goto, IInv, StartingIsNotActive, Starting
<1>9. CASE BeginActivation
  <2>1. /\ status[run] = "HEALTHCHECK"
        /\ active \in {NoDeployment, run, previous[run]}
        /\ status' = [d \in Deployment |->
                        IF d = previous[run] /\ active = d /\ status[d] = "RUNNING"
                          THEN "STOPPING" ELSE status[d]]
        /\ activating' = [activating EXCEPT ![run] = TRUE]
        /\ active' = run
        /\ pc' = "retire"
        /\ UNCHANGED <<previous, enabled, run>>
    BY <1>9 DEF BeginActivation, MayActivate
  <2>2. run \in Deployment /\ active # run /\ previous[run] # run
    BY <1>9 DEF BeginActivation, IInv, TypeOK, StartingIsNotActive, Starting, PreviousIsOther
  <2> USE DEF IInv, TypeOK, InProgress
  <2>3. OneInProgress' /\ InFlightEnabled'
    BY <2>1, <2>2 DEF OneInProgress, InFlightEnabled
  <2>4. ActiveIsLive'
    BY <2>1, <2>2 DEF ActiveIsLive, Pending
  <2>5. StartingIsNotActive' /\ PreviousIsOther'
    BY <2>1, <2>2 DEF StartingIsNotActive, Starting, PreviousIsOther
  <2>6. QED
    BY <2>3, <2>4, <2>5
<1>10. CASE ActivationRefused
  BY <1>10, QuietStep DEF ActivationRefused, Raise, IInv, StartingIsNotActive, Starting
<1>11. CASE Retire
  BY <1>11, QuietStep DEF Retire, Goto, IInv, StartingIsNotActive, Starting
<1>12. CASE RetireRefused
  BY <1>12, QuietStep DEF RetireRefused, Raise, IInv, StartingIsNotActive, Starting
<1>13. CASE StopPrevious
  BY <1>13, QuietStep DEF StopPrevious, Goto, IInv, StartingIsNotActive, Starting
<1>14. CASE Complete
  <2>1. /\ active = run /\ status[run] = "HEALTHCHECK"
        /\ \A o \in Deployment \ {run} : status[o] # "RUNNING"
        /\ status' = [d \in Deployment |->
                        IF d = run THEN "RUNNING"
                        ELSE IF d = previous[run] THEN "STOPPED" ELSE status[d]]
        /\ pc' \notin Starting
        /\ UNCHANGED <<active, previous, enabled, run>>
    BY <1>14 DEF Complete, MayComplete, Goto, Starting
  <2>2. run \in Deployment
    BY <1>14 DEF Complete, IInv, TypeOK
  <2> USE DEF IInv, TypeOK, InProgress
  <2>3. OneInProgress' /\ InFlightEnabled'
    BY <2>1, <2>2 DEF OneInProgress, InFlightEnabled
  <2>4. ActiveIsLive'
    BY <2>1, <2>2 DEF ActiveIsLive, Pending
  <2>5. StartingIsNotActive' /\ PreviousIsOther'
    BY <2>1, <2>2 DEF StartingIsNotActive, Starting, PreviousIsOther
  <2>6. QED
    BY <2>3, <2>4, <2>5
<1>15. CASE RemovePrevious
  BY <1>15, QuietStep DEF RemovePrevious, Goto, IInv, StartingIsNotActive, Starting
<1>16. CASE Sweep
  BY <1>16, QuietStep DEF Sweep, IInv, StartingIsNotActive, Starting
<1>17. ASSUME NEW d \in Deployment, SweepStop(d)
      PROVE  IInv'
  BY <1>17, QuietStep DEF SweepStop, IInv, StartingIsNotActive, Starting
<1>18. CASE SweepRow
  <2>1. victim \in Deployment
    BY <1>18 DEF SweepRow, IInv, TypeOK
  <2>2. StopRow(victim) /\ UNCHANGED previous /\ pc' \notin Starting
    BY <1>18 DEF SweepRow, Goto, Starting
  <2>3. QED
    BY <2>1, <2>2, StopRowKeeps
<1>19. CASE Verify
  BY <1>19, QuietStep DEF Verify, Leave, IInv, StartingIsNotActive, Starting
<1>20. CASE Recheck
  <2>1. /\ UNCHANGED <<status, active, previous, enabled>>
        /\ pc' \notin Starting
    BY <1>20 DEF Recheck, MayRefresh, Starting
  <2>2. run \in Deployment
    BY <1>20 DEF Recheck, MayRefresh, IInv, TypeOK
  <2>7. activating' = activating \/ activating' = [activating EXCEPT ![run] = TRUE]
    BY <1>20 DEF Recheck, MayRefresh
  <2> USE DEF IInv, TypeOK, InProgress
  <2>3. OneInProgress' /\ InFlightEnabled'
    BY <2>1, <2>2, <2>7 DEF OneInProgress, InFlightEnabled
  <2>4. ActiveIsLive'
    BY <2>1, <2>2, <2>7 DEF ActiveIsLive, Pending
  <2>5. StartingIsNotActive' /\ PreviousIsOther'
    BY <2>1, <2>2, <2>7 DEF StartingIsNotActive, Starting, PreviousIsOther
  <2>6. QED
    BY <2>3, <2>4, <2>5
<1>21. CASE StopCandidate
  BY <1>21, QuietStep DEF StopCandidate, Goto, IInv, StartingIsNotActive, Starting
<1>22. CASE RestorePrevious
  BY <1>22, QuietStep DEF RestorePrevious, IInv, StartingIsNotActive, Starting
<1>23. CASE RestoreRow
  <2>1. CASE active = run
    <3> DEFINE p == previous[run]
               back == Restorable(p)
               fails == status[run] \in {"HEALTHCHECK", "RUNNING"}
    <3>1. /\ status' = [d \in Deployment |-> IF d = run /\ fails THEN "UNHEALTHY"
                         ELSE IF d = p /\ back THEN "RUNNING" ELSE status[d]]
          /\ active' = IF back THEN p ELSE NoDeployment
          /\ UNCHANGED <<previous, enabled>>
      BY <1>23, <2>1 DEF RestoreRow
    <3>2. back \in BOOLEAN /\ (back => p \in Deployment)
      BY DEF Restorable
    <3>3. run \in Deployment /\ p # run
      BY <1>23 DEF RestoreRow, IInv, TypeOK, PreviousIsOther
    <3>4. pc' \in Starting => run' = run
      BY <1>23 DEF RestoreRow, AfterRestore, DeployRaises, Leave, Starting
    <3> HIDE DEF back, p
    <3> USE DEF IInv, TypeOK, InProgress
    <3>5. OneInProgress' /\ InFlightEnabled'
      BY <3>1, <3>2, <3>3 DEF OneInProgress, InFlightEnabled
    <3>6. ActiveIsLive'
      BY <2>1, <3>1, <3>2, <3>3 DEF ActiveIsLive
    <3>7. StartingIsNotActive' /\ PreviousIsOther'
      BY <3>1, <3>2, <3>3, <3>4 DEF StartingIsNotActive, PreviousIsOther
    <3>8. QED
      BY <3>5, <3>6, <3>7
  <2>2. CASE active # run
    <3>1. UNCHANGED <<status, activating, active, previous, enabled>>
      BY <1>23, <2>2 DEF RestoreRow
    <3>2. pc' \in Starting => run' = run
      BY <1>23 DEF RestoreRow, AfterRestore, DeployRaises, Leave, Starting
    <3>3. QED
      BY <2>2, <3>1, <3>2, QuietStep
  <2>3. QED
    BY <2>1, <2>2
<1>24. ASSUME NEW r \in BOOLEAN, Cleanup(r)
      PROVE  IInv'
  BY <1>24, QuietStep DEF Cleanup, Goto, IInv, StartingIsNotActive, Starting
<1>25. CASE SettleForRetry
  <2>1. /\ \/ /\ status[run] \in InProgress
              /\ status' = [status EXCEPT ![run] = "PENDING"]
              /\ activating' = [activating EXCEPT ![run] = FALSE]
           \/ UNCHANGED <<status, activating>>
        /\ UNCHANGED <<active, previous, enabled>>
        /\ pc' \notin Starting
    BY <1>25 DEF SettleForRetry, Leave, Starting, InProgress
  <2>2. run \in Deployment /\ active # run
    BY <1>25 DEF SettleForRetry, IInv, TypeOK, StartingIsNotActive, Starting
  <2> USE DEF IInv, TypeOK, InProgress
  <2>3. OneInProgress' /\ InFlightEnabled'
    BY <2>1, <2>2 DEF OneInProgress, InFlightEnabled
  <2>4. ActiveIsLive'
    BY <2>1, <2>2 DEF ActiveIsLive, Pending
  <2>5. StartingIsNotActive' /\ PreviousIsOther'
    BY <2>1, <2>2 DEF StartingIsNotActive, Starting, PreviousIsOther
  <2>6. QED
    BY <2>3, <2>4, <2>5
<1>26. CASE SettleAsFailed
  <2>1. /\ \/ /\ status[run] \in InProgress
              /\ status' = [status EXCEPT ![run] = "FAILED"]
              /\ activating' = [activating EXCEPT ![run] = FALSE]
           \/ UNCHANGED <<status, activating>>
        /\ UNCHANGED <<active, previous, enabled>>
        /\ pc' \notin Starting
    BY <1>26 DEF SettleAsFailed, Leave, Starting, InProgress
  <2>2. run \in Deployment /\ active # run
    BY <1>26 DEF SettleAsFailed, IInv, TypeOK, StartingIsNotActive, Starting
  <2> USE DEF IInv, TypeOK, InProgress
  <2>3. OneInProgress' /\ InFlightEnabled'
    BY <2>1, <2>2 DEF OneInProgress, InFlightEnabled
  <2>4. ActiveIsLive'
    BY <2>1, <2>2 DEF ActiveIsLive, Pending
  <2>5. StartingIsNotActive' /\ PreviousIsOther'
    BY <2>1, <2>2 DEF StartingIsNotActive, Starting, PreviousIsOther
  <2>6. QED
    BY <2>3, <2>4, <2>5
<1>27. QED
  BY <1>1, <1>2, <1>3, <1>4, <1>5, <1>6, <1>7, <1>8, <1>9, <1>10, <1>11, <1>12, <1>13,
     <1>14, <1>15, <1>16, <1>17, <1>18, <1>19, <1>20, <1>21, <1>22, <1>23, <1>24, <1>25,
     <1>26 DEF Progress

\* The runner's steps that fail keep the invariant.
LEMMA KeepsFailing == IInv /\ TypeOK' /\ Failing => IInv'
<1> SUFFICES ASSUME IInv, TypeOK' PROVE Failing => IInv'
  OBVIOUS
<1> USE DEF lifecycle, request, project, runner, locals
<1>1. CASE Abandon
  BY <1>1, QuietStep DEF Abandon, Leave, IInv, StartingIsNotActive, Starting
<1>2. CASE PrepareFails
  BY <1>2, QuietStep DEF PrepareFails, Raise, IInv, StartingIsNotActive, Starting
<1>3. CASE ProvisionFails
  BY <1>3, QuietStep DEF ProvisionFails, Raise, IInv, StartingIsNotActive, Starting
<1>4. CASE StopPreviousFails
  BY <1>4, QuietStep DEF StopPreviousFails, Raise, IInv, StartingIsNotActive, Starting
<1>5. ASSUME NEW e \in {"retry", "final"}, StopOldFails(e)
      PROVE  IInv'
  BY <1>5, QuietStep DEF StopOldFails, Raise, IInv, StartingIsNotActive, Starting
<1>6. ASSUME NEW e \in {"retry", "final"}, StopFails(e)
      PROVE  IInv'
  BY <1>6, QuietStep DEF StopFails, Leave, IInv, StartingIsNotActive, Starting
<1>7. ASSUME NEW e \in {"retry", "final"}, CompleteFails(e)
      PROVE  IInv'
  BY <1>7, QuietStep DEF CompleteFails, Raise, IInv, StartingIsNotActive, Starting
<1>8. ASSUME NEW e \in {"retry", "final"}, RemovePreviousFails(e)
      PROVE  IInv'
  BY <1>8, QuietStep DEF RemovePreviousFails, DeployRaises, Leave, IInv,
     StartingIsNotActive, Starting
<1>9. ASSUME NEW d \in Deployment, NEW e \in {"retry", "final"}, SweepFails(d, e)
      PROVE  IInv'
  BY <1>9, QuietStep DEF SweepFails, DeployRaises, Leave, IInv, StartingIsNotActive, Starting
<1>10. ASSUME NEW e \in {"retry", "final"}, RecheckFails(e)
      PROVE  IInv'
  BY <1>10, QuietStep DEF RecheckFails, MayRefresh, Raise, IInv, StartingIsNotActive, Starting
<1>11. CASE StopCandidateFails
  BY <1>11, QuietStep DEF StopCandidateFails, Goto, IInv, StartingIsNotActive, Starting
<1>12. CASE RestorePreviousFails
  BY <1>12, QuietStep DEF RestorePreviousFails, Goto, IInv, StartingIsNotActive, Starting
<1>13. ASSUME NEW m \in BOOLEAN, StopTakesEffect(m)
      PROVE  IInv'
  <2>1. run \in Deployment
    BY <1>13 DEF StopTakesEffect, IInv, TypeOK
  <2>2. StopRow(run) /\ UNCHANGED previous /\ pc' \notin Starting
    BY <1>13 DEF StopTakesEffect, Leave, Starting
  <2>3. QED
    BY <2>1, <2>2, StopRowKeeps
<1>14. ASSUME NEW r \in BOOLEAN, Cleanup(r)
      PROVE  IInv'
  BY <1>14, QuietStep DEF Cleanup, Goto, IInv, StartingIsNotActive, Starting
<1>15. QED
  BY <1>1, <1>2, <1>3, <1>4, <1>5, <1>6, <1>7, <1>8, <1>9, <1>10, <1>11, <1>12, <1>13,
     <1>14 DEF Failing

\* Every step keeps the invariant.
LEMMA SwitchStep == IInv /\ [Step]_vars => IInv'
<1> SUFFICES ASSUME IInv, [Step]_vars PROVE IInv'
  OBVIOUS
<1>1. TypeOK'
  BY TypeStep DEF IInv
<1>2. CASE UNCHANGED vars
  BY <1>1, <1>2, QuietStep DEF vars, lifecycle, request, project, runner, locals, IInv,
                               StartingIsNotActive
<1>3. CASE Step
  BY <1>1, <1>3, KeepsAsks, KeepsCommands, KeepsProgress, KeepsFailing DEF Step
<1>4. QED
  BY <1>2, <1>3

\* The invariant always holds.
LEMMA SwitchInvariant == Spec => []IInv
<1>1. Init => IInv
  BY InitType DEF Init, IInv, OneInProgress, ActiveIsLive, InFlightEnabled, InProgress,
                  StartingIsNotActive, Starting, PreviousIsOther
<1>2. QED
  BY <1>1, SwitchStep, NextIsStep, PTL DEF Spec

\* However often the runner is cut off, and whatever is stopped, disabled or
\* rolled back meanwhile, the project's pointer and the rows agree.
THEOREM PointerAgrees == Spec => []ActiveIsLive
<1>1. IInv => ActiveIsLive
  BY DEF IInv
<1>2. QED
  BY <1>1, SwitchInvariant, PTL

\* No project has two RUNNING deployments or two on their way: the partial unique
\* indexes of the table are never what stops the code.
THEOREM NeverTwoRuntimes == Spec => []OneRuntimePerProject
<1>1. IInv => OneRuntimePerProject
  BY DEF IInv, OneInProgress, ActiveIsLive, OneRuntimePerProject
<1>2. QED
  BY <1>1, SwitchInvariant, PTL

-----------------------------------------------------------------------------
(* What the switch does to the containers.  The predecessor of a candidate *)
(* is marked STOPPING without anybody having asked for it; the rest of the *)
(* invariant follows such a row until it is given up or taken back.        *)

\* Where the runner cleans up behind a candidate that is RUNNING.
After == {"removePrevious", "sweep", "sweepStop", "sweepRow", "verify"}

\* Where the candidate has been proved and its container left alone since.
Proved == {"activate", "retire", "stopPrevious", "complete"} \cup After

\* Where the project points at the candidate.
Switched == {"recheck", "retire", "stopPrevious", "complete", "restore", "restorePrevious",
             "restoreRow"} \cup After

\* Deployments are created one after the other, and only the last can be on its way;
\* one that is yet to come has not asked for its predecessors' stop.
RowsInOrder ==
    /\ \A c, d \in Deployment :
         c < d /\ status[d] # "ABSENT" => status[c] \notin InProgress \cup {"ABSENT"}
    /\ \A d \in Deployment : status[d] = "ABSENT" => ~stopFirst[d]

\* The command that is being executed is due, and so is a STOP until its row is written;
\* only rows that are there are stopped.
CommandHeld ==
    /\ \A d \in Deployment, t \in Deployment \cup {Alone} : <<d, t>> \in stopDue => status[d] # "ABSENT"
    /\ pc # "idle" => status[run] # "ABSENT"
    /\ pc \in {"stop", "stopRow"} => <<run, stopFor>> \in stopDue
    /\ pc \notin {"idle", "stop", "stopRow"} => deployCmd[run] = "due"

\* The runtime that goes first is one whose stop was asked for; what is swept away is
\* not the candidate, and has a row.
VictimsChosen ==
    /\ \A d \in Deployment : d = victim \/ d \in todo => status[d] # "ABSENT"
    /\ pc \in {"prepare", "stopOld", "stopOldRow"} /\ victim \in Deployment => StopAsked(victim)
    /\ pc \in {"sweepStop", "sweepRow"} => run \notin todo
    /\ pc = "sweepRow" => victim # run

\* From its proof to its retirement of the predecessor the candidate is up, and from the
\* switch on it is the active one.
CandidateStands ==
    /\ pc \in Switched => active = run
    /\ pc \in Proved => container[run] = "up"
    /\ pc = "stopPrevious" => phase[run] = "retiring"

\* The predecessor that is about to be taken back is up.
PredecessorReady ==
    /\ ready => pc \in {"restoreRow", "cleanup", "settle"}
    /\ ready /\ pc = "restoreRow" /\ previous[run] \in Deployment => container[previous[run]] = "up"

\* A row that is being retired: STOPPING, and nobody asked for it.
Retired(p) == status[p] = "STOPPING" /\ ~StopAsked(p)

\* A retired row keeps its container; it is the predecessor of the active deployment, if
\* there is one, and of the one on its way; none is left when a deployment is RUNNING or
\* the runner cleans up, and the runner does not work on it.
RetiredIsKept ==
    \A p \in Deployment :
        Retired(p) =>
            /\ container[p] # "none"
            /\ active \in Deployment => previous[active] = p
            /\ \A d \in Deployment : status[d] \in InProgress => previous[d] = p
            /\ \A d \in Deployment : status[d] # "RUNNING"
            /\ pc \notin After
            /\ pc # "idle" => run # p

\* A RUNNING deployment whose container is gone was asked to stop.
RunningIsKept ==
    \A d \in Deployment : status[d] = "RUNNING" /\ container[d] = "none" => StopAsked(d)

\* The inductive invariant about the containers.
KInv ==
    /\ IInv
    /\ RowsInOrder
    /\ CommandHeld
    /\ VictimsChosen
    /\ CandidateStands
    /\ PredecessorReady
    /\ RetiredIsKept
    /\ RunningIsKept
    /\ RunningServes

\* Nobody takes back a request to stop while its commands stay.
LEMMA AskedStays ==
  ASSUME UNCHANGED stopFirst, stopDue \cup stopFailed \subseteq stopDue' \cup stopFailed', NEW d \in Deployment,
         StopAsked(d)
  PROVE  StopAsked(d)'
BY DEF StopAsked

\* A command that ends takes back what it was about, and nothing else.
LEMMA AskedEnds ==
  ASSUME UNCHANGED <<stopFirst, stopFailed>>, NEW x, NEW t, stopDue \ {<<x, t>>} \subseteq stopDue',
         NEW d \in Deployment, d # x, StopAsked(d)
  PROVE  StopAsked(d)'
<1>1. CASE \E n \in Deployment : stopFirst[n] /\ d < n
  BY <1>1 DEF StopAsked
<1>2. ASSUME NEW u \in Deployment \cup {Alone}, <<d, u>> \in stopDue \cup stopFailed PROVE StopAsked(d)'
  <2>1. <<d, u>> # <<x, t>>
    OBVIOUS
  <2>2. QED
    BY <1>2, <2>1 DEF StopAsked
<1>3. QED
  BY <1>1, <1>2 DEF StopAsked

\* A step of the runner that writes no row keeps the invariant, if its containers and
\* commands do.
LEMMA RunnerStep ==
  ASSUME KInv, IInv', UNCHANGED <<status, stopFirst, previous, active>>,
         \A d \in Deployment : StopAsked(d) /\ status[d] \notin {"STOPPED", "FAILED"} => StopAsked(d)',
         CommandHeld', VictimsChosen', CandidateStands', PredecessorReady',
         \A p \in Deployment : Retired(p) =>
            container'[p] # "none" /\ pc' \notin After /\ (pc' # "idle" => run' # p),
         \A d \in Deployment : status[d] = "RUNNING" =>
            /\ container'[d] = "none" => StopAsked(d)
            /\ container'[d] # "up" => deployCmd'[d] = "due" \/ StopAsked(d)
  PROVE  KInv'
<1>1. RowsInOrder'
  BY DEF KInv, RowsInOrder
<1>2. \A p \in Deployment : Retired(p)' => Retired(p)
  BY DEF Retired
<1>3. RetiredIsKept'
  BY <1>2 DEF KInv, RetiredIsKept
<1>4. RunningIsKept' /\ RunningServes'
  BY DEF RunningIsKept, RunningServes
<1>5. QED
  BY <1>1, <1>3, <1>4 DEF KInv

\* A step that only moves the runner keeps the invariant, if where it goes does.
LEMMA MoveStep ==
  ASSUME KInv, IInv', UNCHANGED <<status, stopFirst, previous, active, stopDue, stopFailed, deployCmd, container>>,
         CommandHeld', VictimsChosen', CandidateStands', PredecessorReady',
         \A p \in Deployment : Retired(p) => pc' \notin After /\ (pc' # "idle" => run' # p)
  PROVE  KInv'
<1>1. \A d \in Deployment : StopAsked(d) => StopAsked(d)'
  BY AskedStays
<1>2. QED
  BY <1>1, RunnerStep DEF KInv, RetiredIsKept, RunningIsKept, RunningServes

\* A row on its way that moves on, or fails, keeps the invariant.
LEMMA RowMoves ==
  ASSUME KInv, IInv', NEW x \in Deployment, NEW v \in InProgress \cup {"FAILED"}, status[x] \in InProgress,
         status' = [status EXCEPT ![x] = v],
         UNCHANGED <<stopFirst, previous, active, stopDue, stopFailed, container>>,
         \A d \in Deployment \ {x} : deployCmd'[d] = deployCmd[d],
         CommandHeld', VictimsChosen', CandidateStands', PredecessorReady',
         \A p \in Deployment : Retired(p) => pc' \notin After /\ (pc' # "idle" => run' # p)
  PROVE  KInv'
<1>1. \A d \in Deployment : StopAsked(d) => StopAsked(d)'
  BY AskedStays
<1>2. /\ \A d \in Deployment \ {x} : status'[d] = status[d]
      /\ status'[x] = v /\ v \notin {"ABSENT", "RUNNING", "STOPPING"} /\ status[x] \notin {"ABSENT", "RUNNING", "STOPPING"}
  BY DEF KInv, IInv, TypeOK, InProgress
<1>3. RowsInOrder'
  BY <1>2 DEF KInv, RowsInOrder, InProgress
<1>4. \A p \in Deployment : Retired(p)' => Retired(p)
  BY <1>1, <1>2 DEF Retired
<1>5. RetiredIsKept'
  BY <1>2, <1>4 DEF KInv, RetiredIsKept
<1>6. RunningIsKept' /\ RunningServes'
  BY <1>1, <1>2 DEF KInv, RunningIsKept, RunningServes
<1>7. QED
  BY <1>3, <1>5, <1>6 DEF KInv

\* clear_active and mark_stopped keep the invariant, whichever row they write.
LEMMA StopRowStep ==
  ASSUME KInv, IInv', NEW x \in Deployment, StopRow(x), status[x] # "ABSENT",
         UNCHANGED <<stopFirst, previous, deployCmd, container>>,
         \A d \in Deployment \ {x} : StopAsked(d) => StopAsked(d)',
         CommandHeld', VictimsChosen', CandidateStands', PredecessorReady',
         \A p \in Deployment : Retired(p) => pc' \notin After /\ (pc' # "idle" => run' # p)
  PROVE  KInv'
<1>1. /\ \A d \in Deployment \ {x} : status'[d] = status[d]
      /\ status'[x] = "STOPPED"
      /\ active' = active \/ active' = NoDeployment
  BY DEF KInv, IInv, TypeOK, StopRow
<1>2. RowsInOrder'
  BY <1>1 DEF KInv, RowsInOrder, InProgress
<1>3. \A p \in Deployment : Retired(p)' => Retired(p) /\ p # x
  BY <1>1 DEF Retired
<1>4. RetiredIsKept'
  BY <1>1, <1>3 DEF KInv, RetiredIsKept, InProgress
<1>5. RunningIsKept' /\ RunningServes'
  BY <1>1 DEF KInv, RunningIsKept, RunningServes
<1>6. QED
  BY <1>2, <1>4, <1>5 DEF KInv

\* Asking live rows to stop keeps the invariant: nothing is retired by it.
LEMMA StopsStep ==
  ASSUME KInv, IInv', NEW S \in SUBSET {d \in Deployment : Live(d)}, NEW t \in Deployment \cup {Alone},
         status' = Stopping(S), ScheduleStops(S, t),
         UNCHANGED <<phase, stopFirst, previous, active, stopFailed, deployCmd, container, runner>>
  PROVE  KInv'
<1>1. /\ \A d \in S : status'[d] = "STOPPING" /\ status[d] # "ABSENT"
      /\ \A d \in Deployment \ S : status'[d] = status[d]
  BY DEF Stopping, Live, Stoppable, InProgress
<1>2. (\A d \in Deployment : StopAsked(d) => StopAsked(d)') /\ \A d \in S : StopAsked(d)'
  <2>1. \A d \in S : <<d, t>> \in stopDue'
    BY DEF ScheduleStops
  <2>2. stopDue \cup stopFailed \subseteq stopDue' \cup stopFailed'
    BY DEF ScheduleStops
  <2>3. QED
    BY <2>1, <2>2, AskedStays DEF StopAsked
<1>3. RowsInOrder'
  BY <1>1 DEF KInv, RowsInOrder, InProgress
<1>4. CommandHeld'
  <2>1. \A d \in Deployment, u \in Deployment \cup {Alone} : <<d, u>> \in stopDue' => status'[d] # "ABSENT"
    BY <1>1 DEF KInv, CommandHeld, ScheduleStops
  <2>2. stopDue \subseteq stopDue'
    BY DEF ScheduleStops
  <2>3. pc # "idle" => run \in Deployment /\ status'[run] # "ABSENT"
    BY <1>1 DEF KInv, CommandHeld, IInv, TypeOK
  <2>4. QED
    BY <2>1, <2>2, <2>3 DEF KInv, CommandHeld, runner, locals
<1>5. VictimsChosen'
  BY <1>1, <1>2 DEF KInv, VictimsChosen, runner, locals
<1>6. CandidateStands' /\ PredecessorReady'
  BY DEF KInv, CandidateStands, PredecessorReady, runner, locals
<1>7. \A p \in Deployment : Retired(p)' => Retired(p)
  BY <1>1, <1>2 DEF Retired
<1>8. RetiredIsKept'
  BY <1>1, <1>7 DEF KInv, RetiredIsKept, InProgress, runner, locals
<1>9. RunningIsKept' /\ RunningServes'
  BY <1>1, <1>2 DEF KInv, RunningIsKept, RunningServes
<1>10. QED
  BY <1>3, <1>4, <1>5, <1>6, <1>8, <1>9 DEF KInv

\* A new deployment keeps the invariant: whatever is STOPPING then was asked to stop.
LEMMA CreateStep ==
  ASSUME KInv, IInv', NEW n \in Deployment, NEW k, NEW t, NEW first \in BOOLEAN,
         NEW S \in SUBSET {d \in Deployment : Live(d)}, Create(n, k, t, first, S)
  PROVE  KInv'
<1> USE DEF runner, locals, project
<1>1. /\ status[n] = "ABSENT" /\ \A d \in Deployment : d < n => status[d] # "ABSENT"
      /\ ~Conflict(S)
      /\ status' = [Stopping(S) EXCEPT ![n] = "PENDING"]
      /\ previous' = [previous EXCEPT ![n] = active]
      /\ stopFirst' = [stopFirst EXCEPT ![n] = first]
      /\ deployCmd' = [deployCmd EXCEPT ![n] = "due"]
      /\ stopDue' = stopDue \cup (S \X {n})
      /\ UNCHANGED <<phase, active, stopFailed, container, pc, run, stopFor, victim, todo, ready>>
  BY DEF Create, Fresh, ScheduleStops
<1>2. /\ n \notin S /\ status'[n] = "PENDING"
      /\ \A d \in S : status'[d] = "STOPPING" /\ status[d] # "ABSENT"
      /\ \A d \in Deployment \ (S \cup {n}) : status'[d] = status[d]
  BY <1>1 DEF Stopping, Live, Stoppable, InProgress
<1>3. \A d \in Deployment \ (S \cup {n}) : status[d] \notin InProgress \cup {"STOPPING"}
  BY <1>1 DEF Conflict, KInv, RowsInOrder
<1>4. (\A d \in Deployment : StopAsked(d) => StopAsked(d)') /\ \A d \in S : StopAsked(d)'
  <2>1. \A d \in S : <<d, n>> \in stopDue'
    BY <1>1
  <2>2. \A d \in Deployment : stopFirst[d] => stopFirst'[d]
    BY <1>1 DEF KInv, RowsInOrder, IInv, TypeOK
  <2>3. QED
    BY <1>1, <2>1, <2>2 DEF StopAsked
<1>5. RowsInOrder'
  <2>1. ASSUME NEW c \in Deployment, NEW d \in Deployment, c < d, status'[d] # "ABSENT"
        PROVE  status'[c] \notin InProgress \cup {"ABSENT"}
    <3>1. c # n
      <4>1. SUFFICES ASSUME c = n PROVE FALSE
        OBVIOUS
      <4>2. status[d] # "ABSENT"
        BY <1>2, <2>1, <4>1
      <4>3. QED
        BY <1>1, <2>1, <4>1, <4>2 DEF KInv, RowsInOrder
    <3>2. status[c] # "ABSENT"
      BY <1>1, <1>2, <2>1 DEF KInv, RowsInOrder
    <3>3. QED
      BY <1>2, <1>3, <3>1, <3>2 DEF InProgress
  <2>2. \A d \in Deployment : status'[d] = "ABSENT" => ~stopFirst'[d]
    BY <1>1, <1>2 DEF KInv, RowsInOrder, IInv, TypeOK
  <2>3. QED
    BY <2>1, <2>2 DEF RowsInOrder
<1>6. CommandHeld' /\ (pc # "idle" => run # n)
  <2>1. pc # "idle" => run \in Deployment /\ run # n /\ status[run] # "ABSENT"
    BY <1>1 DEF KInv, CommandHeld, IInv, TypeOK
  <2>2. \A d \in Deployment \ {n} : deployCmd'[d] = deployCmd[d] /\ (status[d] # "ABSENT" => status'[d] # "ABSENT")
    BY <1>1, <1>2 DEF KInv, IInv, TypeOK
  <2>3. \A d \in Deployment, u \in Deployment \cup {Alone} : <<d, u>> \in stopDue' => status'[d] # "ABSENT"
    BY <1>1, <1>2 DEF KInv, CommandHeld
  <2>4. QED
    BY <1>1, <2>1, <2>2, <2>3 DEF KInv, CommandHeld
<1>7. VictimsChosen'
  <2>1. \A d \in Deployment : status[d] # "ABSENT" => status'[d] # "ABSENT"
    BY <1>2
  <2>2. QED
    BY <1>1, <1>4, <2>1 DEF KInv, VictimsChosen
<1>8. CandidateStands'
  BY <1>1, <1>2 DEF KInv, CandidateStands
<1>9. PredecessorReady'
  BY <1>1, <1>2, <1>6 DEF KInv, PredecessorReady, IInv, TypeOK
<1>10. \A p \in Deployment : ~Retired(p)'
  BY <1>2, <1>3, <1>4 DEF Retired
<1>11. RunningIsKept' /\ RunningServes'
  <2>1. \A d \in Deployment : status'[d] = "RUNNING" => status[d] = "RUNNING" /\ d # n
    BY <1>2
  <2>2. \A d \in Deployment \ {n} : deployCmd'[d] = deployCmd[d]
    BY <1>1 DEF KInv, IInv, TypeOK
  <2>3. QED
    BY <1>1, <1>4, <2>1, <2>2 DEF KInv, RunningIsKept, RunningServes
<1>12. QED
  BY <1>5, <1>6, <1>7, <1>8, <1>9, <1>10, <1>11 DEF KInv, RetiredIsKept

\* The operations of the control plane keep the invariant.
LEMMA HoldsAsks == KInv /\ IInv' /\ Asks => KInv'
<1> SUFFICES ASSUME KInv, IInv' PROVE Asks => KInv'
  OBVIOUS
<1> USE DEF request, project
<1>0. {} \in SUBSET {d \in Deployment : Live(d)}
  OBVIOUS
<1>1. ASSUME NEW n \in Deployment, NEW first \in BOOLEAN, Request(n, first)
      PROVE  KInv'
  <2>1. Create(n, "deploy", NoDeployment, first, {})
    BY <1>1 DEF Request
  <2>2. QED
    BY <1>0, <2>1, CreateStep
<1>2. ASSUME NEW n \in Deployment, Restart(n)
      PROVE  KInv'
  <2>1. Create(n, "restart", active, FALSE, {})
    BY <1>2 DEF Restart
  <2>2. QED
    BY <1>0, <2>1, CreateStep
<1>3. ASSUME NEW n \in Deployment, NEW t \in Deployment, Rollback(n, t)
      PROVE  KInv'
  <2>1. Create(n, "rollback", t, FALSE, {})
    BY <1>3 DEF Rollback
  <2>2. QED
    BY <1>0, <2>1, CreateStep
<1>4. ASSUME NEW n \in Deployment, NEW first \in BOOLEAN, RedeployActive(n, first)
      PROVE  KInv'
  <2> DEFINE S == {d \in Deployment : Live(d) /\ (first \/ status[d] \in InProgress)}
  <2>1. Create(n, "deploy", NoDeployment, first, S)
    BY <1>4 DEF RedeployActive
  <2>2. S \in SUBSET {d \in Deployment : Live(d)}
    OBVIOUS
  <2> HIDE DEF S
  <2>3. QED
    BY <2>1, <2>2, CreateStep
<1>5. CASE StopProject \/ Disable
  <2> DEFINE S == {d \in Deployment : Live(d)}
  <2>1. /\ status' = Stopping(S) /\ ScheduleStops(S, Alone)
        /\ UNCHANGED <<phase, stopFirst, previous, active, stopFailed, deployCmd, container, runner>>
    BY <1>5 DEF StopProject, Disable, StopAll
  <2>2. S \in SUBSET {d \in Deployment : Live(d)}
    OBVIOUS
  <2> HIDE DEF S
  <2>3. QED
    BY <2>1, <2>2, StopsStep
<1>6. ASSUME NEW d \in Deployment, Stop(d)
      PROVE  KInv'
  <2>1. {d} \in SUBSET {c \in Deployment : Live(c)}
    BY <1>6 DEF Stop
  <2>2. /\ status' = Stopping({d}) /\ ScheduleStops({d}, Alone)
        /\ UNCHANGED <<phase, stopFirst, previous, active, stopFailed, deployCmd, container, runner>>
    BY <1>6 DEF Stop
  <2>3. QED
    BY <2>1, <2>2, StopsStep
<1>7. CASE Enable
  <2>1. UNCHANGED <<lifecycle, request, active, commands, container, runner>>
    BY <1>7 DEF Enable
  <2> USE DEF lifecycle, commands, runner, locals
  <2>2. \A d \in Deployment : StopAsked(d) => StopAsked(d)'
    BY <2>1, AskedStays
  <2>3. CommandHeld' /\ VictimsChosen' /\ CandidateStands' /\ PredecessorReady'
    BY <2>1, <2>2 DEF KInv, CommandHeld, VictimsChosen, CandidateStands, PredecessorReady
  <2>4. QED
    BY <2>1, <2>3, MoveStep DEF KInv, RetiredIsKept
<1>8. QED
  BY <1>1, <1>2, <1>3, <1>4, <1>5, <1>6, <1>7 DEF Asks

\* Picking up a command keeps the invariant.
LEMMA HoldsCommands == KInv /\ IInv' /\ PicksUp => KInv'
<1> SUFFICES ASSUME KInv, IInv' PROVE PicksUp => KInv'
  OBVIOUS
<1> USE DEF lifecycle, request, project, commands, runner, locals
<1>t. TypeOK /\ IInv
  BY DEF KInv, IInv
<1>r. pc = "idle" => ~ready
  BY DEF KInv, PredecessorReady
<1>1. ASSUME NEW d \in Deployment, DeployIsOver(d)
      PROVE  KInv'
  <2>1. /\ pc = "idle" /\ status[d] # "RUNNING" /\ deployCmd' = [deployCmd EXCEPT ![d] = Verdict(d)]
        /\ UNCHANGED <<lifecycle, request, project, stopDue, stopFailed, container, runner>>
    BY <1>1 DEF DeployIsOver, DeployDue
  <2>2. \A c \in Deployment : StopAsked(c) => StopAsked(c)'
    BY <2>1, AskedStays
  <2>3. CommandHeld' /\ VictimsChosen' /\ CandidateStands' /\ PredecessorReady'
    BY <2>1, <1>r DEF KInv, CommandHeld, VictimsChosen, CandidateStands, PredecessorReady, Switched, Proved, After
  <2>4. \A c \in Deployment : status[c] = "RUNNING" => deployCmd'[c] = deployCmd[c]
    BY <2>1, <1>t DEF TypeOK
  <2>5. QED
    BY <2>1, <2>2, <2>3, <2>4, RunnerStep DEF KInv, RetiredIsKept, RunningIsKept, RunningServes
<1>2. ASSUME NEW d \in Deployment, DeployResumes(d)
      PROVE  KInv'
  <2>1. /\ pc = "idle" /\ deployCmd[d] = "due" /\ status[d] \in {"RUNNING", "HEALTHCHECK"}
        /\ run' = d /\ pc' = "recheck" /\ UNCHANGED <<victim, todo, ready>>
        /\ UNCHANGED <<lifecycle, request, project, commands, container>>
    BY <1>2 DEF DeployResumes, DeployDue, Pending
  <2>2. active = d
    BY <1>2, <1>t DEF DeployResumes, Pending, IInv, ActiveIsLive
  <2>3. CommandHeld' /\ VictimsChosen' /\ CandidateStands' /\ PredecessorReady'
    BY <2>1, <2>2, <1>r DEF KInv, CommandHeld, VictimsChosen, CandidateStands, PredecessorReady, Switched, Proved, After
  <2>4. QED
    BY <2>1, <2>3, MoveStep DEF Retired, After
<1>3. ASSUME NEW d \in Deployment, DeployRefused(d)
      PROVE  KInv'
  <2>1. /\ pc = "idle" /\ deployCmd[d] = "due" /\ status[d] \in InProgress
        /\ run' = d /\ pc' = "cleanup" /\ UNCHANGED <<victim, todo, ready>>
        /\ UNCHANGED <<lifecycle, request, project, commands, container>>
    BY <1>3 DEF DeployRefused, DeployDue
  <2>2. CommandHeld' /\ VictimsChosen' /\ CandidateStands' /\ PredecessorReady'
    BY <2>1, <1>r DEF KInv, CommandHeld, VictimsChosen, CandidateStands, PredecessorReady, Switched, Proved, After, InProgress
  <2>3. QED
    BY <2>1, <2>2, MoveStep DEF Retired, After, InProgress
<1>4. ASSUME NEW d \in Deployment, DeployBegins(d)
      PROVE  KInv'
  <2>1. /\ pc = "idle" /\ deployCmd[d] = "due" /\ status[d] \in InProgress
        /\ status' = [status EXCEPT ![d] = "DEPLOYING"]
        /\ run' = d /\ pc' = "prepare" /\ ready' = ready
        /\ victim' = IF stopFirst[d] /\ active # d THEN active ELSE NoDeployment
        /\ UNCHANGED <<request, project, commands, container>>
    BY <1>4 DEF DeployBegins, DeployDue
  <2>2. ASSUME victim' \in Deployment PROVE StopAsked(victim)'
    <3>1. stopFirst[d] /\ active # d /\ victim' = active /\ active \in Deployment
      BY <2>1, <2>2
    <3>2. status[active] # "ABSENT"
      BY <1>t, <3>1 DEF IInv, ActiveIsLive, Pending
    <3>3. active < d
      BY <2>1, <3>1, <3>2 DEF KInv, RowsInOrder
    <3>4. stopFirst'[d]
      BY <2>1, <3>1
    <3>5. QED
      BY <3>1, <3>3, <3>4 DEF StopAsked
  <2>3. CommandHeld'
    BY <2>1, <1>t DEF KInv, CommandHeld, TypeOK, InProgress
  <2>4. VictimsChosen'
    <3>1. \A c \in Deployment : status[c] # "ABSENT" => status'[c] # "ABSENT"
      BY <2>1, <1>t DEF TypeOK
    <3>2. \A c \in Deployment : c = active => status[c] # "ABSENT"
      BY <1>t DEF IInv, ActiveIsLive, Pending
    <3>3. victim' = active \/ victim' \notin Deployment
      BY <2>1
    <3>4. todo' = todo /\ pc' = "prepare"
      BY <1>4 DEF DeployBegins
    <3>5. QED
      BY <2>2, <3>1, <3>2, <3>3, <3>4 DEF KInv, VictimsChosen
  <2>5. CandidateStands' /\ PredecessorReady'
    BY <2>1, <1>r DEF CandidateStands, PredecessorReady, Switched, Proved, After
  <2>6. \A p \in Deployment : Retired(p) => p # d
    BY <2>1 DEF Retired, InProgress
  <2>7. "DEPLOYING" \in InProgress \cup {"FAILED"} /\ pc' \notin After
    BY <2>1 DEF InProgress, After
  <2>8. QED
    BY <2>1, <2>3, <2>4, <2>5, <2>6, <2>7, RowMoves
<1>5. ASSUME NEW d \in Deployment, NEW t \in Deployment \cup {Alone}, StopStarts(d, t)
      PROVE  KInv'
  <2>1. /\ pc = "idle" /\ <<d, t>> \in stopDue
        /\ UNCHANGED <<lifecycle, request, project, deployCmd, stopFailed, container>>
    BY <1>5 DEF StopStarts
  <2>2. CASE status[d] \in {"STOPPED", "FAILED"}
    <3>1. stopDue' = stopDue \ {<<d, t>>} /\ UNCHANGED runner
      BY <1>5, <2>2 DEF StopStarts
    <3>2. \A c \in Deployment : StopAsked(c) /\ status[c] \notin {"STOPPED", "FAILED"} => StopAsked(c)'
      BY <2>1, <2>2, <3>1, AskedEnds
    <3>3. CommandHeld' /\ VictimsChosen' /\ CandidateStands' /\ PredecessorReady'
      BY <2>1, <3>1, <1>r DEF KInv, CommandHeld, VictimsChosen, CandidateStands, PredecessorReady, Switched, Proved, After
    <3>4. QED
      BY <2>1, <3>1, <3>2, <3>3, RunnerStep DEF KInv, RetiredIsKept, RunningIsKept, RunningServes
  <2>3. status[d] # "ABSENT"
    BY <2>1 DEF KInv, CommandHeld
  <2>4. CASE status[d] \notin {"STOPPED", "FAILED"}
    <3>1. pc' = "stop" /\ run' = d /\ stopFor' = t /\ UNCHANGED <<stopDue, victim, todo, ready>>
      BY <1>5, <2>4 DEF StopStarts
    <3>2. CommandHeld' /\ VictimsChosen' /\ CandidateStands' /\ PredecessorReady'
      BY <2>1, <2>3, <3>1, <1>r DEF KInv, CommandHeld, VictimsChosen, CandidateStands, PredecessorReady, Switched, Proved, After
    <3>3. StopAsked(d)
      BY <2>1 DEF StopAsked
    <3>4. QED
      BY <2>1, <3>1, <3>2, <3>3, MoveStep DEF Retired, After
  <2>5. QED
    BY <2>2, <2>4
<1>6. QED
  BY <1>1, <1>2, <1>3, <1>4, <1>5 DEF PicksUp

\* A step that changes one container keeps the invariant, if that one may change.
LEMMA ContainerStep ==
  ASSUME KInv, IInv', UNCHANGED <<status, stopFirst, previous, active, stopDue, stopFailed>>,
         NEW x, NEW c, container' = [container EXCEPT ![x] = c],
         x \in Deployment =>
            /\ c = "none" => ~Retired(x)
            /\ status[x] = "RUNNING" => /\ c = "none" => StopAsked(x)
                                        /\ c # "up" => deployCmd'[x] = "due" \/ StopAsked(x),
         \A d \in Deployment : status[d] = "RUNNING" /\ d # x =>
            deployCmd'[d] = deployCmd[d] \/ container[d] = "up",
         CommandHeld', VictimsChosen', CandidateStands', PredecessorReady',
         \A p \in Deployment : Retired(p) => pc' \notin After /\ (pc' # "idle" => run' # p)
  PROVE  KInv'
<1>1. \A d \in Deployment : StopAsked(d) => StopAsked(d)'
  BY AskedStays
<1>2. \A d \in Deployment : container'[d] = IF d = x THEN c ELSE container[d]
  BY DEF KInv, IInv, TypeOK
<1>3. \A p \in Deployment : Retired(p) => container'[p] # "none"
  BY <1>2 DEF KInv, RetiredIsKept
<1>4. \A d \in Deployment : status[d] = "RUNNING" =>
         /\ container'[d] = "none" => StopAsked(d)
         /\ container'[d] # "up" => deployCmd'[d] = "due" \/ StopAsked(d)
  BY <1>2 DEF KInv, RunningIsKept, RunningServes
<1>5. QED
  BY <1>1, <1>3, <1>4, RunnerStep

\* begin_activation: the predecessor, if it is RUNNING, is retired, with its container.
LEMMA BeginStep == KInv /\ IInv' /\ BeginActivation => KInv'
<1> SUFFICES ASSUME KInv, IInv', BeginActivation PROVE KInv'
  OBVIOUS
<1> USE DEF request, commands
<1>t. TypeOK /\ IInv
  BY DEF KInv, IInv
<1>1. /\ pc = "activate" /\ status[run] = "HEALTHCHECK" /\ run \in Deployment
      /\ status' = [d \in Deployment |->
                      IF d = previous[run] /\ active = d /\ status[d] = "RUNNING"
                        THEN "STOPPING" ELSE status[d]]
      /\ active' = run /\ pc' = "retire"
      /\ UNCHANGED <<request, commands, container, run, stopFor, victim, todo, ready>>
  BY <1>t DEF BeginActivation, MayActivate, TypeOK
<1>2. \A d \in Deployment : StopAsked(d) => StopAsked(d)'
  BY <1>1, AskedStays
<1>3. previous[run] # run
  BY <1>1, <1>t DEF IInv, PreviousIsOther
<1>4. \A d \in Deployment : status'[d] = status[d] \/ (d = previous[run] /\ status[d] = "RUNNING" /\ status'[d] = "STOPPING")
  BY <1>1
<1>5. RowsInOrder'
  BY <1>1, <1>4 DEF KInv, RowsInOrder, InProgress
<1>6. CommandHeld'
  <2>1. \A d \in Deployment : status[d] # "ABSENT" => status'[d] # "ABSENT"
    BY <1>4
  <2>2. QED
    BY <1>1, <2>1 DEF KInv, CommandHeld
<1>7. VictimsChosen'
  BY <1>1, <1>4 DEF KInv, VictimsChosen
<1>8. CandidateStands' /\ PredecessorReady'
  BY <1>1 DEF KInv, CandidateStands, PredecessorReady, Proved
<1>9. ASSUME NEW d \in Deployment, status'[d] = "RUNNING" PROVE FALSE
  <2>1. status[d] = "RUNNING" /\ active = d
    BY <1>4, <1>9, <1>t DEF IInv, ActiveIsLive
  <2>2. active = previous[run]
    BY <1>1, <2>1, <1>t DEF BeginActivation, MayActivate, IInv, StartingIsNotActive, Starting
  <2>3. QED
    BY <1>1, <1>9, <2>1, <2>2
<1>10. RetiredIsKept'
  <2>1. SUFFICES ASSUME NEW p \in Deployment, Retired(p)'
                 PROVE  container'[p] # "none" /\ p = previous[run]
    <3>1. \A d \in Deployment : status'[d] \in InProgress => d = run
      BY <1>1, <1>4, <1>t DEF IInv, OneInProgress, InProgress
    <3>2. QED
      BY <1>1, <1>3, <1>9, <2>1, <3>1 DEF RetiredIsKept, After
  <2>2. CASE Retired(p)
    BY <1>1, <2>2 DEF KInv, RetiredIsKept, InProgress
  <2>3. CASE ~Retired(p)
    <3>1. p = previous[run] /\ status[p] = "RUNNING" /\ ~StopAsked(p)
      BY <1>2, <1>4, <2>1, <2>3 DEF Retired
    <3>2. QED
      BY <1>1, <3>1 DEF KInv, RunningIsKept
  <2>4. QED
    BY <2>2, <2>3
<1>11. RunningIsKept' /\ RunningServes'
  BY <1>9 DEF RunningIsKept, RunningServes
<1>12. QED
  BY <1>5, <1>6, <1>7, <1>8, <1>10, <1>11 DEF KInv

\* complete_activation: nothing stays retired beside the deployment that is RUNNING.
LEMMA CompleteStep == KInv /\ IInv' /\ Complete => KInv'
<1> SUFFICES ASSUME KInv, IInv', Complete PROVE KInv'
  OBVIOUS
<1> USE DEF request, project, commands, locals
<1>t. TypeOK /\ IInv
  BY DEF KInv, IInv
<1>1. /\ pc = "complete" /\ status[run] = "HEALTHCHECK" /\ active = run /\ run \in Deployment
      /\ container[run] = "up"
      /\ \A o \in Deployment \ {run} : status[o] # "RUNNING"
      /\ previous[run] # NoDeployment => status[previous[run]] \in {"STOPPING", "STOPPED"}
      /\ status' = [d \in Deployment |->
                      IF d = run THEN "RUNNING"
                      ELSE IF d = previous[run] THEN "STOPPED" ELSE status[d]]
      /\ pc' \in {"removePrevious", "sweep"}
      /\ UNCHANGED <<request, project, commands, container, locals>>
  BY <1>t DEF Complete, MayComplete, Goto, TypeOK
<1>2. \A d \in Deployment : StopAsked(d) => StopAsked(d)'
  BY <1>1, AskedStays
<1>3. /\ status'[run] = "RUNNING"
      /\ \A d \in Deployment \ {run} :
           \/ status'[d] = status[d] /\ d # previous[run]
           \/ d = previous[run] /\ status[d] \in {"STOPPING", "STOPPED"} /\ status'[d] = "STOPPED"
  BY <1>1
<1>4. \A d \in Deployment : status[d] # "ABSENT" => status'[d] # "ABSENT"
  BY <1>3
<1>5. RowsInOrder'
  BY <1>1, <1>3 DEF KInv, RowsInOrder, InProgress
<1>6. CommandHeld'
  BY <1>1, <1>4 DEF KInv, CommandHeld
<1>7. VictimsChosen'
  BY <1>1, <1>4 DEF KInv, VictimsChosen
<1>8. CandidateStands' /\ PredecessorReady'
  BY <1>1 DEF KInv, CandidateStands, PredecessorReady
<1>9. \A p \in Deployment : ~Retired(p)'
  <2>1. SUFFICES ASSUME NEW p \in Deployment, Retired(p)' PROVE FALSE
    OBVIOUS
  <2>2. Retired(p) /\ p # previous[run]
    BY <1>2, <1>3, <2>1 DEF Retired
  <2>3. QED
    BY <1>1, <2>2 DEF KInv, RetiredIsKept
<1>10. RunningIsKept' /\ RunningServes'
  BY <1>1, <1>3 DEF RunningIsKept, RunningServes
<1>11. QED
  BY <1>5, <1>6, <1>7, <1>8, <1>9, <1>10 DEF KInv, RetiredIsKept

\* restore_previous_after_failed_activation: a predecessor that takes over is up, and
\* the retired one is it.
LEMMA RestoreStep == KInv /\ IInv' /\ RestoreRow => KInv'
<1> SUFFICES ASSUME KInv, IInv', RestoreRow PROVE KInv'
  OBVIOUS
<1> USE DEF request
<1>t. TypeOK /\ IInv
  BY DEF KInv, IInv
<1> DEFINE p == previous[run]
           back == Restorable(p)
           fails == status[run] \in {"HEALTHCHECK", "RUNNING"}
<1>1. /\ pc = "restoreRow" /\ run \in Deployment /\ active = run
      /\ UNCHANGED <<request, stopDue, stopFailed, container>>
  BY <1>t DEF RestoreRow, KInv, CandidateStands, Switched, TypeOK
<1>2. /\ status' = [d \in Deployment |-> IF d = run /\ fails THEN "UNHEALTHY"
                     ELSE IF d = p /\ back THEN "RUNNING" ELSE status[d]]
      /\ active' = IF back THEN p ELSE NoDeployment
  BY <1>1 DEF RestoreRow
<1>3. back => p \in Deployment /\ container[p] = "up" /\ status[p] \in {"STOPPING", "STOPPED"}
  BY <1>1 DEF Restorable, KInv, PredecessorReady
<1>4. p # run /\ back \in BOOLEAN
  BY <1>1, <1>t DEF IInv, PreviousIsOther, Restorable
<1>5. \/ /\ pc' = "idle" /\ ready' = FALSE /\ victim' = NoDeployment /\ todo' = {}
         /\ \A d \in Deployment \ {run} : deployCmd'[d] = deployCmd[d]
      \/ pc' = "cleanup" /\ UNCHANGED <<run, stopFor, victim, todo, err, owner, ready, deployCmd>>
  BY <1>t DEF RestoreRow, AfterRestore, DeployRaises, Leave, locals, TypeOK
<1>6. \A d \in Deployment : StopAsked(d) => StopAsked(d)'
  BY <1>1, AskedStays
<1> HIDE DEF back, p
<1>7. /\ \A d \in Deployment \ {run} : status'[d] = status[d] \/ (d = p /\ back /\ status'[d] = "RUNNING")
      /\ back => status'[p] = "RUNNING"
      /\ status'[run] = "UNHEALTHY" \/ (status'[run] = status[run] /\ status[run] \notin {"HEALTHCHECK", "RUNNING"})
  BY <1>1, <1>2, <1>3, <1>4
<1>8. \A d \in Deployment : /\ status[d] # "ABSENT" => status'[d] # "ABSENT"
                            /\ status'[d] \in InProgress => status[d] \in InProgress
                            /\ status[d] = "ABSENT" => status'[d] = "ABSENT" \/ d = run
  BY <1>3, <1>7 DEF InProgress
<1>9. RowsInOrder'
  <2>1. status[run] # "ABSENT"
    BY <1>1 DEF KInv, CommandHeld
  <2>2. QED
    BY <1>1, <1>8, <2>1 DEF KInv, RowsInOrder
<1>10. CommandHeld'
  BY <1>1, <1>5, <1>8 DEF KInv, CommandHeld
<1>11. VictimsChosen'
  BY <1>1, <1>5, <1>8 DEF KInv, VictimsChosen
<1>12. CandidateStands' /\ PredecessorReady'
  BY <1>5 DEF CandidateStands, PredecessorReady, Switched, Proved, After
<1>13. \A q \in Deployment : Retired(q)' => Retired(q) /\ ~back
  <2>1. SUFFICES ASSUME NEW q \in Deployment, Retired(q)' PROVE Retired(q) /\ ~back
    OBVIOUS
  <2>2. Retired(q)
    BY <1>6, <1>7, <2>1 DEF Retired
  <2>3. q = p
    BY <1>1, <2>2 DEF KInv, RetiredIsKept, p
  <2>4. QED
    BY <1>7, <2>1, <2>2, <2>3 DEF Retired
<1>14. RetiredIsKept'
  <2>1. SUFFICES ASSUME NEW q \in Deployment, Retired(q), ~back
                 PROVE  /\ container'[q] # "none"
                        /\ active' \notin Deployment
                        /\ \A d \in Deployment : status'[d] \in InProgress => previous'[d] = q
                        /\ \A d \in Deployment : status'[d] # "RUNNING"
                        /\ pc' \notin After
                        /\ pc' # "idle" => run' # q
    BY <1>13 DEF RetiredIsKept
  <2>2. container'[q] # "none" /\ \A d \in Deployment : status'[d] \in InProgress => previous'[d] = q
    BY <1>1, <1>8, <2>1 DEF KInv, RetiredIsKept
  <2>3. \A d \in Deployment : status'[d] # "RUNNING"
    BY <1>7, <2>1 DEF KInv, RetiredIsKept
  <2>4. active' \notin Deployment /\ pc' \notin After
    BY <1>2, <1>5, <2>1 DEF After
  <2>5. pc' # "idle" => run' # q
    BY <1>1, <1>5, <2>1 DEF KInv, RetiredIsKept
  <2>6. QED
    BY <2>2, <2>3, <2>4, <2>5
<1>15. \A d \in Deployment : status'[d] = "RUNNING" =>
          d # run /\ (container[d] = "up" \/ status[d] = "RUNNING")
  BY <1>3, <1>7
<1>16. RunningIsKept' /\ RunningServes'
  <2>1. \A d \in Deployment : status'[d] = "RUNNING" => deployCmd'[d] = deployCmd[d]
    BY <1>5, <1>15
  <2>2. QED
    BY <1>1, <1>6, <1>15, <2>1 DEF KInv, RunningIsKept, RunningServes
<1>17. QED
  BY <1>9, <1>10, <1>11, <1>12, <1>14, <1>16 DEF KInv

\* The runner's steps that go as they should keep the invariant.
LEMMA HoldsProgress == KInv /\ IInv' /\ Progress => KInv'
<1> SUFFICES ASSUME KInv, IInv' PROVE Progress => KInv'
  OBVIOUS
<1> USE DEF lifecycle, request, project, commands, runner, locals
<1>t. TypeOK /\ IInv
  BY DEF KInv, IInv
<1>a. ASSUME UNCHANGED <<stopFirst, stopDue, stopFailed>> PROVE \A d \in Deployment : StopAsked(d) => StopAsked(d)'
  BY <1>a, AskedStays
<1>o. \A d \in Deployment : status[d] = "RUNNING" => active = d
  BY <1>t DEF IInv, ActiveIsLive
<1>1. CASE Prepare
  <2>1. UNCHANGED <<status, stopFirst, previous, active, stopDue, stopFailed, deployCmd, container>>
    BY <1>1 DEF Prepare, Goto
  <2>2. CommandHeld' /\ VictimsChosen' /\ CandidateStands' /\ PredecessorReady'
    BY <1>1, <1>t, <1>a, <2>1 DEF Prepare, Goto, KInv, CommandHeld, VictimsChosen, CandidateStands,
       PredecessorReady, Switched, Proved, After, TypeOK
  <2>3. \A p \in Deployment : Retired(p) => pc' \notin After /\ (pc' # "idle" => run' # p)
    BY <1>1 DEF Prepare, Goto, KInv, RetiredIsKept, After
  <2>4. QED
    BY <2>1, <2>2, <2>3, MoveStep
<1>2. CASE StopOld
  <2>1. UNCHANGED <<status, stopFirst, previous, active, stopDue, stopFailed>>
    BY <1>2 DEF StopOld, Goto
  <2>2. container' = [container EXCEPT ![victim] = "none"]
    BY <1>2 DEF StopOld, RemoveRuntime
  <2>3. victim \in Deployment /\ StopAsked(victim)
    BY <1>2, <1>t DEF StopOld, KInv, VictimsChosen, TypeOK
  <2>4. ~Retired(victim)
    BY <2>3 DEF Retired
  <2>5. deployCmd' = deployCmd
    BY <1>2 DEF StopOld, Goto
  <2>6. CommandHeld' /\ VictimsChosen' /\ CandidateStands' /\ PredecessorReady'
    BY <1>2, <1>t, <1>a, <2>1, <2>2, <2>3 DEF StopOld, Goto, KInv, CommandHeld, VictimsChosen, CandidateStands,
       PredecessorReady, Switched, Proved, After, TypeOK
  <2>7. \A p \in Deployment : Retired(p) => pc' \notin After /\ (pc' # "idle" => run' # p)
    BY <1>2 DEF StopOld, Goto, KInv, RetiredIsKept, After
  <2>8. QED
    BY <2>1, <2>2, <2>3, <2>4, <2>5, <2>6, <2>7, ContainerStep
<1>3. CASE StopOldRow
  <2>1. victim \in Deployment /\ status[victim] # "ABSENT"
    BY <1>3, <1>t DEF StopOldRow, KInv, VictimsChosen, TypeOK
  <2>2. StopRow(victim) /\ pc = "stopOldRow" /\ pc' = "start" /\ UNCHANGED <<request, commands, container, locals>>
    BY <1>3 DEF StopOldRow, Goto
  <2>3. \A d \in Deployment : status[d] # "ABSENT" => status'[d] # "ABSENT"
    BY <2>1, <2>2, <1>t DEF StopRow, TypeOK
  <2>4. CommandHeld' /\ VictimsChosen' /\ CandidateStands' /\ PredecessorReady'
    BY <1>t, <1>a, <2>2, <2>3 DEF KInv, CommandHeld, VictimsChosen, CandidateStands, PredecessorReady, Switched,
       Proved, After, TypeOK
  <2>5. \A p \in Deployment : Retired(p) => pc' \notin After /\ (pc' # "idle" => run' # p)
    BY <2>2 DEF KInv, RetiredIsKept, After
  <2>6. QED
    BY <1>a, <2>1, <2>2, <2>4, <2>5, StopRowStep
<1>4. CASE StopRuntime
  <2>1. UNCHANGED <<status, stopFirst, previous, active, stopDue, stopFailed>>
    BY <1>4 DEF StopRuntime, Goto
  <2>2. container' = [container EXCEPT ![run] = "none"]
    BY <1>4 DEF StopRuntime, RemoveRuntime
  <2>3. run \in Deployment /\ StopAsked(run)
    BY <1>4, <1>t DEF StopRuntime, KInv, CommandHeld, TypeOK, StopAsked
  <2>4. ~Retired(run)
    BY <2>3 DEF Retired
  <2>5. deployCmd' = deployCmd
    BY <1>4 DEF StopRuntime, Goto
  <2>6. CommandHeld' /\ VictimsChosen' /\ CandidateStands' /\ PredecessorReady'
    BY <1>4, <1>t, <1>a, <2>1, <2>2, <2>3 DEF StopRuntime, Goto, KInv, CommandHeld, VictimsChosen,
       CandidateStands, PredecessorReady, Switched, Proved, After, TypeOK
  <2>7. \A p \in Deployment : Retired(p) => pc' \notin After /\ (pc' # "idle" => run' # p)
    BY <1>4 DEF StopRuntime, Goto, KInv, RetiredIsKept, After
  <2>8. QED
    BY <2>1, <2>2, <2>3, <2>4, <2>5, <2>6, <2>7, ContainerStep
<1>5. ASSUME NEW m \in BOOLEAN, StopTakesEffect(m)
      PROVE  KInv'
  <2>1. run \in Deployment /\ status[run] # "ABSENT"
    BY <1>5, <1>t DEF StopTakesEffect, KInv, CommandHeld, TypeOK
  <2>2. /\ StopRow(run) /\ stopDue' \subseteq stopDue /\ stopDue \ {<<run, stopFor>>} \subseteq stopDue'
        /\ pc' = "idle" /\ victim' = NoDeployment /\ todo' = {} /\ ready' = FALSE
        /\ UNCHANGED <<request, deployCmd, stopFailed, container>>
    BY <1>5 DEF StopTakesEffect, Leave
  <2>3. \A d \in Deployment : status[d] # "ABSENT" => status'[d] # "ABSENT"
    BY <2>1, <2>2, <1>t DEF StopRow, TypeOK
  <2>4. CommandHeld' /\ VictimsChosen' /\ CandidateStands' /\ PredecessorReady'
    BY <1>t, <2>2, <2>3 DEF KInv, CommandHeld, VictimsChosen, CandidateStands, PredecessorReady, Switched,
       Proved, After, TypeOK
  <2>5. \A d \in Deployment \ {run} : StopAsked(d) => StopAsked(d)'
    BY <2>2, AskedEnds
  <2>6. QED
    BY <2>1, <2>2, <2>4, <2>5, StopRowStep DEF After
<1>6. CASE Start
  <2>1. /\ pc = "start" /\ status[run] \in {"DEPLOYING", "HEALTHCHECK"} /\ run \in Deployment
        /\ status' = [status EXCEPT ![run] = "HEALTHCHECK"] /\ pc' = "provision"
        /\ UNCHANGED <<request, project, commands, container, locals>>
    BY <1>6, <1>t DEF Start, Goto, TypeOK
  <2>2. \A d \in Deployment : status[d] # "ABSENT" => status'[d] # "ABSENT"
    BY <2>1, <1>t DEF TypeOK
  <2>3. CommandHeld' /\ VictimsChosen' /\ CandidateStands' /\ PredecessorReady'
    BY <1>t, <2>1, <2>2 DEF KInv, CommandHeld, VictimsChosen, CandidateStands, PredecessorReady, Switched,
       Proved, After, TypeOK
  <2>4. \A p \in Deployment : Retired(p) => pc' \notin After /\ (pc' # "idle" => run' # p)
    BY <2>1 DEF KInv, RetiredIsKept, After
  <2>5. status[run] \in InProgress /\ "HEALTHCHECK" \in InProgress \cup {"FAILED"}
    BY <2>1 DEF InProgress
  <2>6. QED
    BY <2>1, <2>3, <2>4, <2>5, RowMoves
<1>7. CASE StartRefused
  <2>1. UNCHANGED <<status, stopFirst, previous, active, stopDue, stopFailed, deployCmd, container>>
    BY <1>7 DEF StartRefused, Raise
  <2>2. CommandHeld' /\ VictimsChosen' /\ CandidateStands' /\ PredecessorReady'
    BY <1>7, <1>t, <1>a, <2>1 DEF StartRefused, Raise, KInv, CommandHeld, VictimsChosen, CandidateStands,
       PredecessorReady, Switched, Proved, After, TypeOK
  <2>3. \A p \in Deployment : Retired(p) => pc' \notin After /\ (pc' # "idle" => run' # p)
    BY <1>7 DEF StartRefused, Raise, KInv, RetiredIsKept, After
  <2>4. QED
    BY <2>1, <2>2, <2>3, MoveStep
<1>8. CASE Provision
  <2>1. UNCHANGED <<status, stopFirst, previous, active, stopDue, stopFailed>>
    BY <1>8 DEF Provision, Goto
  <2>2. container' = [container EXCEPT ![run] = "up"]
    BY <1>8 DEF Provision, RemoveRuntime
  <2>3. run \in Deployment /\ status[run] # "RUNNING" /\ deployCmd[run] = "due"
    BY <1>8, <1>t, <1>o DEF Provision, KInv, CommandHeld, TypeOK, IInv, StartingIsNotActive, Starting
  <2>4. ~Retired(run)
    BY <1>8, <2>3 DEF Provision, KInv, RetiredIsKept
  <2>5. deployCmd' = deployCmd
    BY <1>8 DEF Provision, Goto
  <2>6. CommandHeld' /\ VictimsChosen' /\ CandidateStands' /\ PredecessorReady'
    BY <1>8, <1>t, <1>a, <2>1, <2>2, <2>3 DEF Provision, Goto, KInv, CommandHeld, VictimsChosen, CandidateStands,
       PredecessorReady, Switched, Proved, After, TypeOK
  <2>7. \A p \in Deployment : Retired(p) => pc' \notin After /\ (pc' # "idle" => run' # p)
    BY <1>8 DEF Provision, Goto, KInv, RetiredIsKept, After
  <2>8. QED
    BY <2>1, <2>2, <2>3, <2>4, <2>5, <2>6, <2>7, ContainerStep
<1>9. CASE BeginActivation
  BY <1>9, BeginStep
<1>10. CASE ActivationRefused
  <2>1. UNCHANGED <<status, stopFirst, previous, active, stopDue, stopFailed, deployCmd, container>>
    BY <1>10 DEF ActivationRefused, Raise
  <2>2. CommandHeld' /\ VictimsChosen' /\ CandidateStands' /\ PredecessorReady'
    BY <1>10, <1>t, <1>a, <2>1 DEF ActivationRefused, Raise, KInv, CommandHeld, VictimsChosen, CandidateStands,
       PredecessorReady, Switched, Proved, After, TypeOK
  <2>3. \A p \in Deployment : Retired(p) => pc' \notin After /\ (pc' # "idle" => run' # p)
    BY <1>10 DEF ActivationRefused, Raise, KInv, RetiredIsKept, After
  <2>4. QED
    BY <2>1, <2>2, <2>3, MoveStep
<1>11. CASE Retire
  <2>1. UNCHANGED <<status, stopFirst, previous, active, stopDue, stopFailed, deployCmd, container>>
    BY <1>11 DEF Retire, Goto
  <2>2. CommandHeld' /\ VictimsChosen' /\ CandidateStands' /\ PredecessorReady'
    BY <1>11, <1>t, <1>a, <2>1 DEF Retire, Goto, KInv, CommandHeld, VictimsChosen, CandidateStands,
       PredecessorReady, Switched, Proved, After, TypeOK
  <2>3. \A p \in Deployment : Retired(p) => pc' \notin After /\ (pc' # "idle" => run' # p)
    BY <1>11 DEF Retire, Goto, KInv, RetiredIsKept, After
  <2>4. QED
    BY <2>1, <2>2, <2>3, MoveStep
<1>12. CASE RetireRefused
  <2>1. UNCHANGED <<status, stopFirst, previous, active, stopDue, stopFailed, deployCmd, container>>
    BY <1>12 DEF RetireRefused, Raise
  <2>2. CommandHeld' /\ VictimsChosen' /\ CandidateStands' /\ PredecessorReady'
    BY <1>12, <1>t, <1>a, <2>1 DEF RetireRefused, Raise, KInv, CommandHeld, VictimsChosen, CandidateStands,
       PredecessorReady, Switched, Proved, After, TypeOK
  <2>3. \A p \in Deployment : Retired(p) => pc' \notin After /\ (pc' # "idle" => run' # p)
    BY <1>12 DEF RetireRefused, Raise, KInv, RetiredIsKept, After
  <2>4. QED
    BY <2>1, <2>2, <2>3, MoveStep
<1>13. CASE StopPrevious
  <2>1. UNCHANGED <<status, stopFirst, previous, active, stopDue, stopFailed>>
    BY <1>13 DEF StopPrevious, Goto
  <2>2. container' = [container EXCEPT ![previous[run]] = Halted(container[previous[run]])]
    BY <1>13 DEF StopPrevious, RemoveRuntime
  <2>3. /\ previous[run] # run /\ run \in Deployment
        /\ \A d \in Deployment : status[d] = "RUNNING" => d # previous[run]
        /\ previous[run] \in Deployment /\ Halted(container[previous[run]]) = "none" => container[previous[run]] = "none"
    BY <1>13, <1>t, <1>o, <2>2 DEF StopPrevious, KInv, CandidateStands, Switched, TypeOK, IInv, PreviousIsOther,
       Halted
  <2>4. previous[run] \in Deployment /\ Retired(previous[run]) => Halted(container[previous[run]]) # "none"
    BY <2>3 DEF KInv, RetiredIsKept
  <2>5. deployCmd' = deployCmd
    BY <1>13 DEF StopPrevious, Goto
  <2>6. CommandHeld' /\ VictimsChosen' /\ CandidateStands' /\ PredecessorReady'
    BY <1>13, <1>t, <1>a, <2>1, <2>2, <2>3 DEF StopPrevious, Goto, KInv, CommandHeld, VictimsChosen,
       CandidateStands, PredecessorReady, Switched, Proved, After, TypeOK
  <2>7. \A p \in Deployment : Retired(p) => pc' \notin After /\ (pc' # "idle" => run' # p)
    BY <1>13 DEF StopPrevious, Goto, KInv, RetiredIsKept, After
  <2>8. QED
    BY <2>1, <2>2, <2>3, <2>4, <2>5, <2>6, <2>7, ContainerStep
<1>14. CASE Complete
  BY <1>14, CompleteStep
<1>15. CASE RemovePrevious
  <2>1. UNCHANGED <<status, stopFirst, previous, active, stopDue, stopFailed>>
    BY <1>15 DEF RemovePrevious, Goto
  <2>2. container' = [container EXCEPT ![previous[run]] = "none"]
    BY <1>15 DEF RemovePrevious, RemoveRuntime
  <2>3. /\ previous[run] # run /\ run \in Deployment /\ active = run /\ container[run] = "up"
        /\ \A b \in Deployment : status[b] = "RUNNING" => b = run
    BY <1>15, <1>t, <1>o DEF RemovePrevious, KInv, CandidateStands, VictimsChosen, Switched, Proved, After,
       TypeOK, IInv, PreviousIsOther
  <2>4. previous[run] \in Deployment => ~Retired(previous[run])
    BY <1>15 DEF RemovePrevious, KInv, RetiredIsKept, After
  <2>5. \A b \in Deployment : status[b] = "RUNNING" => deployCmd'[b] = deployCmd[b] \/ container[b] = "up"
    BY <2>3
  <2>6. CommandHeld' /\ VictimsChosen' /\ CandidateStands' /\ PredecessorReady'
    BY <1>15, <1>t, <1>a, <2>1, <2>2, <2>3 DEF RemovePrevious, Goto, KInv, CommandHeld, VictimsChosen,
       CandidateStands, PredecessorReady, Switched, Proved, After, TypeOK
  <2>7. \A p \in Deployment : Retired(p) => pc' \notin After /\ (pc' # "idle" => run' # p)
    BY <1>15 DEF RemovePrevious, Goto, KInv, RetiredIsKept, After
  <2>8. QED
    BY <2>1, <2>2, <2>3, <2>4, <2>5, <2>6, <2>7, ContainerStep
<1>16. CASE Sweep
  <2>1. UNCHANGED <<status, stopFirst, previous, active, stopDue, stopFailed, deployCmd, container>>
    BY <1>16 DEF Sweep
  <2>2. CommandHeld' /\ VictimsChosen' /\ CandidateStands' /\ PredecessorReady'
    BY <1>16, <1>t, <1>a, <2>1 DEF Sweep, KInv, CommandHeld, VictimsChosen, CandidateStands, PredecessorReady,
       Switched, Proved, After, TypeOK
  <2>3. \A p \in Deployment : Retired(p) => pc' \notin After /\ (pc' # "idle" => run' # p)
    BY <1>16 DEF Sweep, KInv, RetiredIsKept, After
  <2>4. QED
    BY <2>1, <2>2, <2>3, MoveStep
<1>17. ASSUME NEW d \in Deployment, SweepStop(d)
      PROVE  KInv'
  <2>1. UNCHANGED <<status, stopFirst, previous, active, stopDue, stopFailed>>
    BY <1>17 DEF SweepStop
  <2>2. container' = [container EXCEPT ![d] = "none"]
    BY <1>17 DEF SweepStop, RemoveRuntime
  <2>3. /\ d # run /\ run \in Deployment /\ active = run /\ container[run] = "up"
        /\ \A b \in Deployment : status[b] = "RUNNING" => b = run
    BY <1>17, <1>t, <1>o DEF SweepStop, KInv, CandidateStands, VictimsChosen, Switched, Proved, After, TypeOK,
       IInv, PreviousIsOther
  <2>4. d \in Deployment => ~Retired(d)
    BY <1>17 DEF SweepStop, KInv, RetiredIsKept, After
  <2>5. \A b \in Deployment : status[b] = "RUNNING" => deployCmd'[b] = deployCmd[b] \/ container[b] = "up"
    BY <2>3
  <2>6. CommandHeld' /\ VictimsChosen' /\ CandidateStands' /\ PredecessorReady'
    BY <1>17, <1>t, <1>a, <2>1, <2>2, <2>3 DEF SweepStop, KInv, CommandHeld, VictimsChosen, CandidateStands,
       PredecessorReady, Switched, Proved, After, TypeOK
  <2>7. \A p \in Deployment : Retired(p) => pc' \notin After /\ (pc' # "idle" => run' # p)
    BY <1>17 DEF SweepStop, KInv, RetiredIsKept, After
  <2>8. QED
    BY <2>1, <2>2, <2>3, <2>4, <2>5, <2>6, <2>7, ContainerStep
<1>18. CASE SweepRow
  <2>1. victim \in Deployment /\ status[victim] # "ABSENT" /\ victim # run /\ active = run
    BY <1>18, <1>t DEF SweepRow, KInv, VictimsChosen, CandidateStands, Switched, After, TypeOK
  <2>2. /\ StopRow(victim) /\ pc = "sweepRow" /\ pc' \in {"verify", "sweepStop"}
        /\ UNCHANGED <<request, commands, container, locals>>
    BY <1>18 DEF SweepRow, Goto
  <2>3. \A d \in Deployment : status[d] # "ABSENT" => status'[d] # "ABSENT"
    BY <2>1, <2>2, <1>t DEF StopRow, TypeOK
  <2>4. active' = active
    BY <2>1, <2>2 DEF StopRow
  <2>5. CommandHeld' /\ VictimsChosen'
    BY <1>t, <1>a, <2>2, <2>3 DEF KInv, CommandHeld, VictimsChosen, CandidateStands, PredecessorReady, Switched,
       Proved, After, TypeOK
  <2>6. CandidateStands' /\ PredecessorReady'
    BY <2>2, <2>4 DEF KInv, CandidateStands, PredecessorReady, Switched, Proved, After
  <2>7. \A p \in Deployment : ~Retired(p)
    BY <2>2 DEF KInv, RetiredIsKept, After
  <2>8. QED
    BY <1>a, <2>1, <2>2, <2>5, <2>6, <2>7, StopRowStep
<1>19. CASE Verify
  <2>1. /\ pc = "verify" /\ run \in Deployment /\ deployCmd' = [deployCmd EXCEPT ![run] = Verdict(run)]
        /\ pc' = "idle" /\ victim' = NoDeployment /\ todo' = {} /\ ready' = FALSE
        /\ UNCHANGED <<lifecycle, request, project, stopDue, stopFailed, container>>
    BY <1>19, <1>t DEF Verify, Leave, TypeOK
  <2>2. CommandHeld' /\ VictimsChosen' /\ CandidateStands' /\ PredecessorReady'
    BY <2>1 DEF KInv, CommandHeld, VictimsChosen, CandidateStands, PredecessorReady, Switched, Proved, After, TypeOK
  <2>3. container[run] = "up"
    BY <2>1 DEF KInv, CandidateStands, Proved, After
  <2>4. \A d \in Deployment : deployCmd'[d] = deployCmd[d] \/ container[d] = "up"
    BY <2>1, <2>3, <1>t DEF TypeOK
  <2>5. QED
    BY <1>a, <2>1, <2>2, <2>4, RunnerStep DEF KInv, RetiredIsKept, RunningIsKept, RunningServes, After
<1>20. CASE Recheck
  <2>1. /\ pc = "recheck" /\ container[run] = "up" /\ run \in Deployment
        /\ pc' \in {"retire", "removePrevious", "sweep"} /\ (pc' # "retire" => status[run] = "RUNNING")
        /\ UNCHANGED <<run, victim, todo, ready, status, request, project, commands, container>>
    BY <1>20, <1>t DEF Recheck, MayRefresh, TypeOK
  <2>2. CommandHeld' /\ VictimsChosen' /\ CandidateStands' /\ PredecessorReady'
    BY <1>t, <1>a, <2>1 DEF KInv, CommandHeld, VictimsChosen, CandidateStands, PredecessorReady, Switched,
       Proved, After, TypeOK
  <2>3. \A p \in Deployment : Retired(p) => pc' \notin After /\ (pc' # "idle" => run' # p)
    BY <2>1 DEF KInv, RetiredIsKept, After
  <2>4. QED
    BY <2>1, <2>2, <2>3, MoveStep
<1>21. CASE StopCandidate
  <2>1. UNCHANGED <<status, stopFirst, previous, active, stopDue, stopFailed>>
    BY <1>21 DEF StopCandidate, Goto
  <2>2. container' = [container EXCEPT ![run] = Halted(container[run])]
    BY <1>21 DEF StopCandidate, RemoveRuntime
  <2>3. run \in Deployment /\ deployCmd[run] = "due" /\ (Halted(container[run]) = "none" => container[run] = "none")
    BY <1>21, <1>t, <2>2 DEF StopCandidate, KInv, CommandHeld, TypeOK, Halted
  <2>4. /\ Retired(run) => Halted(container[run]) # "none"
        /\ status[run] = "RUNNING" /\ Halted(container[run]) = "none" => StopAsked(run)
    BY <2>3 DEF KInv, RetiredIsKept, RunningIsKept
  <2>5. deployCmd' = deployCmd
    BY <1>21 DEF StopCandidate, Goto
  <2>6. CommandHeld' /\ VictimsChosen' /\ CandidateStands' /\ PredecessorReady'
    BY <1>21, <1>t, <1>a, <2>1, <2>2, <2>3 DEF StopCandidate, Goto, KInv, CommandHeld, VictimsChosen,
       CandidateStands, PredecessorReady, Switched, Proved, After, TypeOK
  <2>7. \A p \in Deployment : Retired(p) => pc' \notin After /\ (pc' # "idle" => run' # p)
    BY <1>21 DEF StopCandidate, Goto, KInv, RetiredIsKept, After
  <2>8. QED
    BY <2>1, <2>2, <2>3, <2>4, <2>5, <2>6, <2>7, ContainerStep
<1>22. CASE RestorePrevious
  <2>1. UNCHANGED <<status, stopFirst, previous, active, stopDue, stopFailed>>
    BY <1>22 DEF RestorePrevious
  <2>2. container' = [container EXCEPT ![previous[run]] = "up"]
    BY <1>22 DEF RestorePrevious, RemoveRuntime
  <2>3. /\ previous[run] # run /\ run \in Deployment
        /\ \A d \in Deployment : status[d] = "RUNNING" => d # previous[run]
        /\ previous[run] \in Deployment /\ "up" = "none" => container[previous[run]] = "none"
    BY <1>22, <1>t, <1>o, <2>2 DEF RestorePrevious, KInv, CandidateStands, Switched, TypeOK, IInv,
       PreviousIsOther, Halted
  <2>4. previous[run] \in Deployment /\ Retired(previous[run]) => "up" # "none"
    BY <2>3 DEF KInv, RetiredIsKept
  <2>5. deployCmd' = deployCmd
    BY <1>22 DEF RestorePrevious
  <2>6. CommandHeld' /\ VictimsChosen' /\ CandidateStands' /\ PredecessorReady'
    BY <1>22, <1>t, <1>a, <2>1, <2>2, <2>3 DEF RestorePrevious, KInv, CommandHeld, VictimsChosen,
       CandidateStands, PredecessorReady, Switched, Proved, After, TypeOK
  <2>7. \A p \in Deployment : Retired(p) => pc' \notin After /\ (pc' # "idle" => run' # p)
    BY <1>22 DEF RestorePrevious, KInv, RetiredIsKept, After
  <2>8. QED
    BY <2>1, <2>2, <2>3, <2>4, <2>5, <2>6, <2>7, ContainerStep
<1>23. CASE RestoreRow
  BY <1>23, RestoreStep
<1>24. ASSUME NEW r \in BOOLEAN, Cleanup(r)
      PROVE  KInv'
  <2>1. UNCHANGED <<status, stopFirst, previous, active, stopDue, stopFailed>>
    BY <1>24 DEF Cleanup, Goto
  <2>2. container' = [container EXCEPT ![run] = (IF r THEN "none" ELSE container[run])]
    BY <1>24 DEF Cleanup, RemoveRuntime
  <2>3. run \in Deployment /\ status[run] # "RUNNING" /\ deployCmd[run] = "due"
    BY <1>24, <1>t, <1>o DEF Cleanup, KInv, CommandHeld, TypeOK, IInv, StartingIsNotActive, Starting
  <2>4. ~Retired(run)
    BY <1>24, <2>3 DEF Cleanup, KInv, RetiredIsKept
  <2>5. deployCmd' = deployCmd
    BY <1>24 DEF Cleanup, Goto
  <2>6. CommandHeld' /\ VictimsChosen' /\ CandidateStands' /\ PredecessorReady'
    BY <1>24, <1>t, <1>a, <2>1, <2>2, <2>3 DEF Cleanup, Goto, KInv, CommandHeld, VictimsChosen, CandidateStands,
       PredecessorReady, Switched, Proved, After, TypeOK
  <2>7. \A p \in Deployment : Retired(p) => pc' \notin After /\ (pc' # "idle" => run' # p)
    BY <1>24 DEF Cleanup, Goto, KInv, RetiredIsKept, After
  <2>8. QED
    BY <2>1, <2>2, <2>3, <2>4, <2>5, <2>6, <2>7, ContainerStep
<1>25. CASE SettleForRetry
  <2>1. /\ pc = "settle" /\ run \in Deployment /\ pc' = "idle" /\ victim' = NoDeployment /\ todo' = {} /\ ready' = FALSE
        /\ UNCHANGED <<request, project, stopDue, stopFailed, container>>
        /\ \A d \in Deployment \ {run} : deployCmd'[d] = deployCmd[d]
    BY <1>25, <1>t DEF SettleForRetry, Leave, TypeOK
  <2>2. status[run] # "RUNNING"
    BY <2>1, <1>o, <1>t DEF IInv, StartingIsNotActive, Starting
  <2>3. CASE status[run] \in {"DEPLOYING", "HEALTHCHECK"}
    <3>1. /\ status' = [status EXCEPT ![run] = "PENDING"]
          /\ status[run] \in InProgress /\ "PENDING" \in InProgress \cup {"FAILED"}
      BY <1>25, <2>3 DEF SettleForRetry, InProgress
    <3>2. \A d \in Deployment : status[d] # "ABSENT" => status'[d] # "ABSENT"
      BY <3>1, <1>t DEF TypeOK
    <3>3. CommandHeld' /\ VictimsChosen' /\ CandidateStands' /\ PredecessorReady'
      BY <2>1, <3>2 DEF KInv, CommandHeld, VictimsChosen, CandidateStands, PredecessorReady, Switched, Proved,
         After, TypeOK
    <3>4. QED
      BY <2>1, <3>1, <3>3, RowMoves DEF After
  <2>4. CASE status[run] \notin {"DEPLOYING", "HEALTHCHECK"}
    <3>1. status' = status
      BY <1>25, <2>4 DEF SettleForRetry
    <3>2. CommandHeld' /\ VictimsChosen' /\ CandidateStands' /\ PredecessorReady'
      BY <2>1, <3>1 DEF KInv, CommandHeld, VictimsChosen, CandidateStands, PredecessorReady, Switched, Proved,
         After, TypeOK
    <3>3. \A d \in Deployment : status[d] = "RUNNING" => deployCmd'[d] = deployCmd[d]
      BY <2>1, <2>2
    <3>4. QED
      BY <1>a, <2>1, <3>1, <3>2, <3>3, RunnerStep DEF KInv, RetiredIsKept, RunningIsKept, RunningServes, After
  <2>5. QED
    BY <2>3, <2>4
<1>26. CASE SettleAsFailed
  <2>1. /\ pc = "settle" /\ run \in Deployment /\ pc' = "idle" /\ victim' = NoDeployment /\ todo' = {} /\ ready' = FALSE
        /\ UNCHANGED <<request, project, stopDue, stopFailed, container>>
        /\ \A d \in Deployment \ {run} : deployCmd'[d] = deployCmd[d]
    BY <1>26, <1>t DEF SettleAsFailed, Leave, TypeOK
  <2>2. status[run] # "RUNNING"
    BY <2>1, <1>o, <1>t DEF IInv, StartingIsNotActive, Starting
  <2>3. CASE status[run] \in InProgress
    <3>1. /\ status' = [status EXCEPT ![run] = "FAILED"]
          /\ status[run] \in InProgress /\ "FAILED" \in InProgress \cup {"FAILED"}
      BY <1>26, <2>3 DEF SettleAsFailed, InProgress
    <3>2. \A d \in Deployment : status[d] # "ABSENT" => status'[d] # "ABSENT"
      BY <3>1, <1>t DEF TypeOK
    <3>3. CommandHeld' /\ VictimsChosen' /\ CandidateStands' /\ PredecessorReady'
      BY <2>1, <3>2 DEF KInv, CommandHeld, VictimsChosen, CandidateStands, PredecessorReady, Switched, Proved,
         After, TypeOK
    <3>4. QED
      BY <2>1, <3>1, <3>3, RowMoves DEF After
  <2>4. CASE status[run] \notin InProgress
    <3>1. status' = status
      BY <1>26, <2>4 DEF SettleAsFailed
    <3>2. CommandHeld' /\ VictimsChosen' /\ CandidateStands' /\ PredecessorReady'
      BY <2>1, <3>1 DEF KInv, CommandHeld, VictimsChosen, CandidateStands, PredecessorReady, Switched, Proved,
         After, TypeOK
    <3>3. \A d \in Deployment : status[d] = "RUNNING" => deployCmd'[d] = deployCmd[d]
      BY <2>1, <2>2
    <3>4. QED
      BY <1>a, <2>1, <3>1, <3>2, <3>3, RunnerStep DEF KInv, RetiredIsKept, RunningIsKept, RunningServes, After
  <2>5. QED
    BY <2>3, <2>4
<1>27. QED
  BY <1>1, <1>2, <1>3, <1>4, <1>5, <1>6, <1>7, <1>8, <1>9, <1>10, <1>11, <1>12, <1>13,
     <1>14, <1>15, <1>16, <1>17, <1>18, <1>19, <1>20, <1>21, <1>22, <1>23, <1>24, <1>25, <1>26 DEF
     Progress

\* The runner's steps that fail keep the invariant.
LEMMA HoldsFailing == KInv /\ IInv' /\ Failing => KInv'
<1> SUFFICES ASSUME KInv, IInv' PROVE Failing => KInv'
  OBVIOUS
<1> USE DEF lifecycle, request, project, commands, runner, locals
<1>t. TypeOK /\ IInv
  BY DEF KInv, IInv
<1>a. ASSUME UNCHANGED <<stopFirst, stopDue, stopFailed>> PROVE \A d \in Deployment : StopAsked(d) => StopAsked(d)'
  BY <1>a, AskedStays
<1>o. \A d \in Deployment : status[d] = "RUNNING" => active = d
  BY <1>t DEF IInv, ActiveIsLive
<1>1. CASE Abandon
  <2>1. UNCHANGED <<status, stopFirst, previous, active, stopDue, stopFailed, deployCmd, container>>
    BY <1>1 DEF Abandon, Leave
  <2>2. CommandHeld' /\ VictimsChosen' /\ CandidateStands' /\ PredecessorReady'
    BY <1>1, <1>t, <1>a, <2>1 DEF Abandon, Leave, KInv, CommandHeld, VictimsChosen, CandidateStands,
       PredecessorReady, Switched, Proved, After, TypeOK
  <2>3. \A p \in Deployment : Retired(p) => pc' \notin After /\ (pc' # "idle" => run' # p)
    BY <1>1 DEF Abandon, Leave, KInv, RetiredIsKept, After
  <2>4. QED
    BY <2>1, <2>2, <2>3, MoveStep
<1>2. CASE PrepareFails
  <2>1. UNCHANGED <<status, stopFirst, previous, active, stopDue, stopFailed, deployCmd, container>>
    BY <1>2 DEF PrepareFails, Raise
  <2>2. CommandHeld' /\ VictimsChosen' /\ CandidateStands' /\ PredecessorReady'
    BY <1>2, <1>t, <1>a, <2>1 DEF PrepareFails, Raise, KInv, CommandHeld, VictimsChosen, CandidateStands,
       PredecessorReady, Switched, Proved, After, TypeOK
  <2>3. \A p \in Deployment : Retired(p) => pc' \notin After /\ (pc' # "idle" => run' # p)
    BY <1>2 DEF PrepareFails, Raise, KInv, RetiredIsKept, After
  <2>4. QED
    BY <2>1, <2>2, <2>3, MoveStep
<1>3. CASE ProvisionFails
  <2>1. UNCHANGED <<status, stopFirst, previous, active, stopDue, stopFailed>>
    BY <1>3 DEF ProvisionFails, Raise
  <2>2. PICK c \in {container[run], "stopped", "up"} : container' = [container EXCEPT ![run] = c]
    BY <1>3 DEF ProvisionFails
  <2>3. run \in Deployment /\ status[run] # "RUNNING" /\ deployCmd[run] = "due"
    BY <1>3, <1>t, <1>o DEF ProvisionFails, KInv, CommandHeld, TypeOK, IInv, StartingIsNotActive, Starting
  <2>4. ~Retired(run)
    BY <1>3, <2>3 DEF ProvisionFails, KInv, RetiredIsKept
  <2>5. deployCmd' = deployCmd
    BY <1>3 DEF ProvisionFails, Raise
  <2>6. CommandHeld' /\ VictimsChosen' /\ CandidateStands' /\ PredecessorReady'
    BY <1>3, <1>t, <1>a, <2>1, <2>2, <2>3 DEF ProvisionFails, Raise, KInv, CommandHeld, VictimsChosen,
       CandidateStands, PredecessorReady, Switched, Proved, After, TypeOK
  <2>7. \A p \in Deployment : Retired(p) => pc' \notin After /\ (pc' # "idle" => run' # p)
    BY <1>3 DEF ProvisionFails, Raise, KInv, RetiredIsKept, After
  <2>8. QED
    BY <2>1, <2>2, <2>3, <2>4, <2>5, <2>6, <2>7, ContainerStep
<1>4. CASE StopPreviousFails
  <2>1. UNCHANGED <<status, stopFirst, previous, active, stopDue, stopFailed>>
    BY <1>4 DEF StopPreviousFails, Raise
  <2>2. PICK c \in {container[previous[run]], Halted(container[previous[run]])} :
          container' = [container EXCEPT ![previous[run]] = c]
    BY <1>4 DEF StopPreviousFails
  <2>3. /\ previous[run] # run /\ run \in Deployment
        /\ \A d \in Deployment : status[d] = "RUNNING" => d # previous[run]
        /\ previous[run] \in Deployment /\ c = "none" => container[previous[run]] = "none"
    BY <1>4, <1>t, <1>o, <2>2 DEF StopPreviousFails, KInv, CandidateStands, Switched, TypeOK, IInv,
       PreviousIsOther, Halted
  <2>4. previous[run] \in Deployment /\ Retired(previous[run]) => c # "none"
    BY <2>3 DEF KInv, RetiredIsKept
  <2>5. deployCmd' = deployCmd
    BY <1>4 DEF StopPreviousFails, Raise
  <2>6. CommandHeld' /\ VictimsChosen' /\ CandidateStands' /\ PredecessorReady'
    BY <1>4, <1>t, <1>a, <2>1, <2>2, <2>3 DEF StopPreviousFails, Raise, KInv, CommandHeld, VictimsChosen,
       CandidateStands, PredecessorReady, Switched, Proved, After, TypeOK
  <2>7. \A p \in Deployment : Retired(p) => pc' \notin After /\ (pc' # "idle" => run' # p)
    BY <1>4 DEF StopPreviousFails, Raise, KInv, RetiredIsKept, After
  <2>8. QED
    BY <2>1, <2>2, <2>3, <2>4, <2>5, <2>6, <2>7, ContainerStep
<1>5. ASSUME NEW e \in {"retry", "final"}, StopOldFails(e)
      PROVE  KInv'
  <2>1. UNCHANGED <<status, stopFirst, previous, active, stopDue, stopFailed>>
    BY <1>5 DEF StopOldFails, Raise
  <2>2. PICK c \in {"none"} \cup {y \in {container[victim], Halted(container[victim])} : e = "retry"} :
          container' = [container EXCEPT ![victim] = c]
    BY <1>5 DEF StopOldFails, RemoveBreaksOff
  <2>3. victim \in Deployment /\ StopAsked(victim)
    BY <1>5, <1>t DEF StopOldFails, KInv, VictimsChosen, TypeOK
  <2>4. ~Retired(victim)
    BY <2>3 DEF Retired
  <2>5. deployCmd' = deployCmd
    BY <1>5 DEF StopOldFails, Raise
  <2>6. CommandHeld' /\ VictimsChosen' /\ CandidateStands' /\ PredecessorReady'
    BY <1>5, <1>t, <1>a, <2>1, <2>2, <2>3 DEF StopOldFails, Raise, KInv, CommandHeld, VictimsChosen,
       CandidateStands, PredecessorReady, Switched, Proved, After, TypeOK
  <2>7. \A p \in Deployment : Retired(p) => pc' \notin After /\ (pc' # "idle" => run' # p)
    BY <1>5 DEF StopOldFails, Raise, KInv, RetiredIsKept, After
  <2>8. QED
    BY <2>1, <2>2, <2>3, <2>4, <2>5, <2>6, <2>7, ContainerStep
<1>6. ASSUME NEW e \in {"retry", "final"}, StopFails(e)
      PROVE  KInv'
  <2>1. PICK c \in {"none"} \cup {y \in {container[run], Halted(container[run])} : e = "retry"} :
          container' = [container EXCEPT ![run] = c]
    BY <1>6 DEF StopFails, RemoveBreaksOff
  <2>2. /\ pc = "stop" /\ run \in Deployment /\ stopDue' \subseteq stopDue
        /\ pc' = "idle" /\ victim' = NoDeployment /\ todo' = {} /\ ready' = FALSE
        /\ stopDue \cup stopFailed \subseteq stopDue' \cup stopFailed'
        /\ UNCHANGED <<lifecycle, request, project, deployCmd>>
    BY <1>6, <1>t DEF StopFails, Leave, TypeOK
  <2>3. StopAsked(run)
    BY <2>2, <1>t DEF KInv, CommandHeld, TypeOK, StopAsked
  <2>4. \A d \in Deployment : StopAsked(d) => StopAsked(d)'
    BY <2>2, AskedStays
  <2>5. CommandHeld' /\ VictimsChosen' /\ CandidateStands' /\ PredecessorReady'
    BY <2>2 DEF KInv, CommandHeld, VictimsChosen, CandidateStands, PredecessorReady, Switched, Proved, After, TypeOK
  <2>6. \A d \in Deployment \ {run} : container'[d] = container[d]
    BY <2>1, <1>t DEF TypeOK
  <2>7. QED
    BY <2>2, <2>3, <2>4, <2>5, <2>6, RunnerStep DEF KInv, RetiredIsKept, RunningIsKept, RunningServes, After, Retired
<1>7. ASSUME NEW e \in {"retry", "final"}, CompleteFails(e)
      PROVE  KInv'
  <2>1. UNCHANGED <<status, stopFirst, previous, active, stopDue, stopFailed, deployCmd, container>>
    BY <1>7 DEF CompleteFails, Raise
  <2>2. CommandHeld' /\ VictimsChosen' /\ CandidateStands' /\ PredecessorReady'
    BY <1>7, <1>t, <1>a, <2>1 DEF CompleteFails, Raise, KInv, CommandHeld, VictimsChosen, CandidateStands,
       PredecessorReady, Switched, Proved, After, TypeOK
  <2>3. \A p \in Deployment : Retired(p) => pc' \notin After /\ (pc' # "idle" => run' # p)
    BY <1>7 DEF CompleteFails, Raise, KInv, RetiredIsKept, After
  <2>4. QED
    BY <2>1, <2>2, <2>3, MoveStep
<1>8. ASSUME NEW e \in {"retry", "final"}, RemovePreviousFails(e)
      PROVE  KInv'
  <2>1. UNCHANGED <<status, stopFirst, previous, active, stopDue, stopFailed>>
    BY <1>8 DEF RemovePreviousFails, DeployRaises, Leave
  <2>2. PICK c \in {"none"} \cup {y \in {container[previous[run]], Halted(container[previous[run]])} : e = "retry"} :
          container' = [container EXCEPT ![previous[run]] = c]
    BY <1>8 DEF RemovePreviousFails, RemoveBreaksOff
  <2>3. /\ previous[run] # run /\ run \in Deployment /\ active = run /\ container[run] = "up"
        /\ \A b \in Deployment : status[b] = "RUNNING" => b = run
    BY <1>8, <1>t, <1>o DEF RemovePreviousFails, KInv, CandidateStands, VictimsChosen, Switched, Proved, After,
       TypeOK, IInv, PreviousIsOther
  <2>4. previous[run] \in Deployment => ~Retired(previous[run])
    BY <1>8 DEF RemovePreviousFails, KInv, RetiredIsKept, After
  <2>5. \A b \in Deployment : status[b] = "RUNNING" => deployCmd'[b] = deployCmd[b] \/ container[b] = "up"
    BY <2>3
  <2>6. CommandHeld' /\ VictimsChosen' /\ CandidateStands' /\ PredecessorReady'
    BY <1>8, <1>t, <1>a, <2>1, <2>2, <2>3 DEF RemovePreviousFails, DeployRaises, Leave, KInv, CommandHeld,
       VictimsChosen, CandidateStands, PredecessorReady, Switched, Proved, After, TypeOK
  <2>7. \A p \in Deployment : Retired(p) => pc' \notin After /\ (pc' # "idle" => run' # p)
    BY <1>8 DEF RemovePreviousFails, DeployRaises, Leave, KInv, RetiredIsKept, After
  <2>8. QED
    BY <2>1, <2>2, <2>3, <2>4, <2>5, <2>6, <2>7, ContainerStep
<1>9. ASSUME NEW d \in Deployment, NEW e \in {"retry", "final"}, SweepFails(d, e)
      PROVE  KInv'
  <2>1. UNCHANGED <<status, stopFirst, previous, active, stopDue, stopFailed>>
    BY <1>9 DEF SweepFails, DeployRaises, Leave
  <2>2. PICK c \in {"none"} \cup {y \in {container[d], Halted(container[d])} : e = "retry"} :
          container' = [container EXCEPT ![d] = c]
    BY <1>9 DEF SweepFails, RemoveBreaksOff
  <2>3. /\ d # run /\ run \in Deployment /\ active = run /\ container[run] = "up"
        /\ \A b \in Deployment : status[b] = "RUNNING" => b = run
    BY <1>9, <1>t, <1>o DEF SweepFails, KInv, CandidateStands, VictimsChosen, Switched, Proved, After, TypeOK,
       IInv, PreviousIsOther
  <2>4. d \in Deployment => ~Retired(d)
    BY <1>9 DEF SweepFails, KInv, RetiredIsKept, After
  <2>5. \A b \in Deployment : status[b] = "RUNNING" => deployCmd'[b] = deployCmd[b] \/ container[b] = "up"
    BY <2>3
  <2>6. CommandHeld' /\ VictimsChosen' /\ CandidateStands' /\ PredecessorReady'
    BY <1>9, <1>t, <1>a, <2>1, <2>2, <2>3 DEF SweepFails, DeployRaises, Leave, KInv, CommandHeld, VictimsChosen,
       CandidateStands, PredecessorReady, Switched, Proved, After, TypeOK
  <2>7. \A p \in Deployment : Retired(p) => pc' \notin After /\ (pc' # "idle" => run' # p)
    BY <1>9 DEF SweepFails, DeployRaises, Leave, KInv, RetiredIsKept, After
  <2>8. QED
    BY <2>1, <2>2, <2>3, <2>4, <2>5, <2>6, <2>7, ContainerStep
<1>10. ASSUME NEW e \in {"retry", "final"}, RecheckFails(e)
      PROVE  KInv'
  <2>1. UNCHANGED <<status, stopFirst, previous, active, stopDue, stopFailed, deployCmd, container>>
    BY <1>10 DEF RecheckFails, MayRefresh, Raise
  <2>2. CommandHeld' /\ VictimsChosen' /\ CandidateStands' /\ PredecessorReady'
    BY <1>10, <1>t, <1>a, <2>1 DEF RecheckFails, MayRefresh, Raise, KInv, CommandHeld, VictimsChosen, CandidateStands,
       PredecessorReady, Switched, Proved, After, TypeOK
  <2>3. \A p \in Deployment : Retired(p) => pc' \notin After /\ (pc' # "idle" => run' # p)
    BY <1>10 DEF RecheckFails, MayRefresh, Raise, KInv, RetiredIsKept, After
  <2>4. QED
    BY <2>1, <2>2, <2>3, MoveStep
<1>11. CASE StopCandidateFails
  <2>1. UNCHANGED <<status, stopFirst, previous, active, stopDue, stopFailed>>
    BY <1>11 DEF StopCandidateFails, Goto
  <2>2. PICK c \in {container[run], Halted(container[run])} : container' = [container EXCEPT ![run] = c]
    BY <1>11 DEF StopCandidateFails
  <2>3. run \in Deployment /\ deployCmd[run] = "due" /\ (c = "none" => container[run] = "none")
    BY <1>11, <1>t, <2>2 DEF StopCandidateFails, KInv, CommandHeld, TypeOK, Halted
  <2>4. (Retired(run) => c # "none") /\ (status[run] = "RUNNING" /\ c = "none" => StopAsked(run))
    BY <2>3 DEF KInv, RetiredIsKept, RunningIsKept
  <2>5. deployCmd' = deployCmd
    BY <1>11 DEF StopCandidateFails, Goto
  <2>6. CommandHeld' /\ VictimsChosen' /\ CandidateStands' /\ PredecessorReady'
    BY <1>11, <1>t, <1>a, <2>1, <2>2, <2>3 DEF StopCandidateFails, Goto, KInv, CommandHeld, VictimsChosen,
       CandidateStands, PredecessorReady, Switched, Proved, After, TypeOK
  <2>7. \A p \in Deployment : Retired(p) => pc' \notin After /\ (pc' # "idle" => run' # p)
    BY <1>11 DEF StopCandidateFails, Goto, KInv, RetiredIsKept, After
  <2>8. QED
    BY <2>1, <2>2, <2>3, <2>4, <2>5, <2>6, <2>7, ContainerStep
<1>12. CASE RestorePreviousFails
  <2>1. UNCHANGED <<status, stopFirst, previous, active, stopDue, stopFailed>>
    BY <1>12 DEF RestorePreviousFails, Goto
  <2>2. PICK c \in {container[previous[run]]} \cup {y \in {"up"} : container[previous[run]] # "none"} :
          container' = [container EXCEPT ![previous[run]] = c]
    BY <1>12 DEF RestorePreviousFails
  <2>3. /\ previous[run] # run /\ run \in Deployment
        /\ \A d \in Deployment : status[d] = "RUNNING" => d # previous[run]
        /\ previous[run] \in Deployment /\ c = "none" => container[previous[run]] = "none"
    BY <1>12, <1>t, <1>o, <2>2 DEF RestorePreviousFails, KInv, CandidateStands, Switched, TypeOK, IInv,
       PreviousIsOther, Halted
  <2>4. previous[run] \in Deployment /\ Retired(previous[run]) => c # "none"
    BY <2>3 DEF KInv, RetiredIsKept
  <2>5. deployCmd' = deployCmd
    BY <1>12 DEF RestorePreviousFails, Goto
  <2>6. CommandHeld' /\ VictimsChosen' /\ CandidateStands' /\ PredecessorReady'
    BY <1>12, <1>t, <1>a, <2>1, <2>2, <2>3 DEF RestorePreviousFails, Goto, KInv, CommandHeld, VictimsChosen,
       CandidateStands, PredecessorReady, Switched, Proved, After, TypeOK
  <2>7. \A p \in Deployment : Retired(p) => pc' \notin After /\ (pc' # "idle" => run' # p)
    BY <1>12 DEF RestorePreviousFails, Goto, KInv, RetiredIsKept, After
  <2>8. QED
    BY <2>1, <2>2, <2>3, <2>4, <2>5, <2>6, <2>7, ContainerStep
<1>13. ASSUME NEW m \in BOOLEAN, StopTakesEffect(m)
      PROVE  KInv'
  <2>1. run \in Deployment /\ status[run] # "ABSENT"
    BY <1>13, <1>t DEF StopTakesEffect, KInv, CommandHeld, TypeOK
  <2>2. /\ StopRow(run) /\ stopDue' \subseteq stopDue /\ stopDue \ {<<run, stopFor>>} \subseteq stopDue'
        /\ pc' = "idle" /\ victim' = NoDeployment /\ todo' = {} /\ ready' = FALSE
        /\ UNCHANGED <<request, deployCmd, stopFailed, container>>
    BY <1>13 DEF StopTakesEffect, Leave
  <2>3. \A d \in Deployment : status[d] # "ABSENT" => status'[d] # "ABSENT"
    BY <2>1, <2>2, <1>t DEF StopRow, TypeOK
  <2>4. CommandHeld' /\ VictimsChosen' /\ CandidateStands' /\ PredecessorReady'
    BY <1>t, <2>2, <2>3 DEF KInv, CommandHeld, VictimsChosen, CandidateStands, PredecessorReady, Switched,
       Proved, After, TypeOK
  <2>5. \A d \in Deployment \ {run} : StopAsked(d) => StopAsked(d)'
    BY <2>2, AskedEnds
  <2>6. QED
    BY <2>1, <2>2, <2>4, <2>5, StopRowStep DEF After
<1>14. ASSUME NEW r \in BOOLEAN, Cleanup(r)
      PROVE  KInv'
  <2>1. UNCHANGED <<status, stopFirst, previous, active, stopDue, stopFailed>>
    BY <1>14 DEF Cleanup, Goto
  <2>2. container' = [container EXCEPT ![run] = (IF r THEN "none" ELSE container[run])]
    BY <1>14 DEF Cleanup, RemoveRuntime
  <2>3. run \in Deployment /\ status[run] # "RUNNING" /\ deployCmd[run] = "due"
    BY <1>14, <1>t, <1>o DEF Cleanup, KInv, CommandHeld, TypeOK, IInv, StartingIsNotActive, Starting
  <2>4. ~Retired(run)
    BY <1>14, <2>3 DEF Cleanup, KInv, RetiredIsKept
  <2>5. deployCmd' = deployCmd
    BY <1>14 DEF Cleanup, Goto
  <2>6. CommandHeld' /\ VictimsChosen' /\ CandidateStands' /\ PredecessorReady'
    BY <1>14, <1>t, <1>a, <2>1, <2>2, <2>3 DEF Cleanup, Goto, KInv, CommandHeld, VictimsChosen, CandidateStands,
       PredecessorReady, Switched, Proved, After, TypeOK
  <2>7. \A p \in Deployment : Retired(p) => pc' \notin After /\ (pc' # "idle" => run' # p)
    BY <1>14 DEF Cleanup, Goto, KInv, RetiredIsKept, After
  <2>8. QED
    BY <2>1, <2>2, <2>3, <2>4, <2>5, <2>6, <2>7, ContainerStep
<1>15. QED
  BY <1>1, <1>2, <1>3, <1>4, <1>5, <1>6, <1>7, <1>8, <1>9, <1>10, <1>11, <1>12, <1>13, <1>14 DEF Failing

\* Every step keeps the invariant.
LEMMA HoldsStep == KInv /\ [Step]_vars => KInv'
<1> SUFFICES ASSUME KInv, [Step]_vars PROVE KInv'
  OBVIOUS
<1>1. IInv'
  BY SwitchStep DEF KInv
<1>2. CASE UNCHANGED vars
  <2> USE DEF vars, lifecycle, request, project, commands, runner, locals
  <2>1. \A d \in Deployment : StopAsked(d) => StopAsked(d)'
    BY <1>2, AskedStays
  <2>2. CommandHeld' /\ VictimsChosen' /\ CandidateStands' /\ PredecessorReady'
    BY <1>2, <2>1 DEF KInv, CommandHeld, VictimsChosen, CandidateStands, PredecessorReady
  <2>3. QED
    BY <1>1, <1>2, <2>2, MoveStep DEF KInv, RetiredIsKept
<1>3. CASE Step
  BY <1>1, <1>3, HoldsAsks, HoldsCommands, HoldsProgress, HoldsFailing DEF Step
<1>4. QED
  BY <1>2, <1>3

\* The invariant about the containers holds at first.
LEMMA ContainersInit == Init => KInv
<1> SUFFICES ASSUME Init PROVE KInv
  OBVIOUS
<1>1. IInv
  BY InitType DEF Init, IInv, OneInProgress, ActiveIsLive, InFlightEnabled, InProgress,
                  StartingIsNotActive, Starting, PreviousIsOther
<1>2. /\ \A d \in Deployment : status[d] = "ABSENT" /\ ~stopFirst[d]
      /\ pc = "idle" /\ victim = NoDeployment /\ todo = {} /\ stopDue = {} /\ ready = FALSE
  BY DEF Init
<1>3. RowsInOrder /\ CommandHeld /\ VictimsChosen
  BY <1>2 DEF RowsInOrder, CommandHeld, VictimsChosen
<1>4. CandidateStands /\ PredecessorReady
  BY <1>2 DEF CandidateStands, PredecessorReady, Switched, Proved, After
<1>5. RetiredIsKept /\ RunningIsKept /\ RunningServes
  BY <1>2 DEF RetiredIsKept, Retired, RunningIsKept, RunningServes
<1>6. QED
  BY <1>1, <1>3, <1>4, <1>5 DEF KInv

\* It always holds.
LEMMA ContainersInvariant == Spec => []KInv
BY ContainersInit, HoldsStep, NextIsStep, PTL DEF Spec

\* "Keep the predecessor container recoverable": as long as an activation can still fail,
\* the container it would go back to is there, unless somebody asked for its stop.
THEOREM PredecessorStays == Spec => []PredecessorRecoverable
<1>1. KInv => PredecessorRecoverable
  BY DEF KInv, RetiredIsKept, Retired, PredecessorRecoverable
<1>2. QED
  BY <1>1, ContainersInvariant, PTL

\* A deployment that is shown as RUNNING has its container up, or a command is due that
\* repairs it, or somebody asked for it to go.
THEOREM RunningIsServed == Spec => []RunningServes
<1>1. KInv => RunningServes
  BY DEF KInv
<1>2. QED
  BY <1>1, ContainersInvariant, PTL

\* The steps that take down a runtime which the runner is not working on: the stop of the
\* old one that was asked to go first, the retirement of the predecessor, the clean-up.
LEMMA TakesDown ==
  ASSUME TypeOK, Step, NEW d \in Deployment, d # run, container[d] = "up", container'[d] # "up"
  PROVE  (pc = "stopOld" /\ d = victim) \/ pc = "stopPrevious" \/ pc \in After
<1> USE DEF lifecycle, request, project, commands, runner, locals
<1>0. \A x, c : container' = [container EXCEPT ![x] = c] => d = x /\ c # "up"
  BY DEF TypeOK
<1>1. Asks => container' = container
  BY DEF Asks, Request, Restart, Rollback, RedeployActive, Create, StopProject, Stop, Disable, Enable
<1>2. PicksUp => container' = container
  BY DEF PicksUp, DeployIsOver, DeployResumes, DeployRefused, DeployBegins, StopStarts
<1>3. ASSUME Progress
      PROVE  (pc = "stopOld" /\ d = victim) \/ pc = "stopPrevious" \/ pc \in After
  <2>1. CASE \/ Prepare \/ StopOldRow \/ StopTakesEffect(TRUE) \/ Start \/ StartRefused \/ BeginActivation
             \/ ActivationRefused \/ Retire \/ RetireRefused \/ Complete \/ Recheck \/ RestoreRow
             \/ SettleForRetry \/ SettleAsFailed
    BY <2>1 DEF Prepare, StopOldRow, StopTakesEffect, Start, StartRefused, BeginActivation, ActivationRefused,
                Retire, RetireRefused, Complete, Recheck, MayRefresh, RestoreRow, SettleForRetry, SettleAsFailed
  <2>2. CASE RemovePrevious \/ Sweep \/ (\E x \in Deployment : SweepStop(x)) \/ SweepRow \/ Verify
    BY <2>2 DEF RemovePrevious, Sweep, SweepStop, SweepRow, Verify, After
  <2>3. CASE StopOld \/ StopPrevious
    BY <1>0, <2>3 DEF StopOld, RemoveRuntime, StopPrevious
  <2>4. CASE StopRuntime \/ Provision \/ StopCandidate \/ Cleanup(TRUE)
    BY <1>0, <2>4 DEF StopRuntime, RemoveRuntime, Provision, StopCandidate, Cleanup
  <2>5. CASE RestorePrevious
    BY <1>0, <2>5 DEF RestorePrevious
  <2>6. QED
    BY <1>3, <2>1, <2>2, <2>3, <2>4, <2>5 DEF Progress
<1>4. ASSUME Failing
      PROVE  (pc = "stopOld" /\ d = victim) \/ pc = "stopPrevious" \/ pc \in After
  <2>1. CASE \/ Abandon \/ PrepareFails \/ StopTakesEffect(FALSE)
             \/ \E e \in {"retry", "final"} : CompleteFails(e) \/ RecheckFails(e)
    BY <2>1 DEF Abandon, PrepareFails, StopTakesEffect, CompleteFails, RecheckFails, MayRefresh
  <2>2. CASE \/ StopPreviousFails
             \/ \E e \in {"retry", "final"} : \/ RemovePreviousFails(e)
                                              \/ \E x \in Deployment : SweepFails(x, e)
    BY <2>2 DEF StopPreviousFails, RemovePreviousFails, SweepFails, After
  <2>3. CASE ProvisionFails \/ StopCandidateFails \/ Cleanup(FALSE)
    BY <1>0, <2>3 DEF ProvisionFails, StopCandidateFails, Cleanup
  <2>4. ASSUME NEW e \in {"retry", "final"}, StopOldFails(e) \/ StopFails(e)
        PROVE  pc = "stopOld" /\ d = victim
    BY <1>0, <2>4 DEF StopOldFails, StopFails, RemoveBreaksOff
  <2>5. CASE RestorePreviousFails
    <3>1. PICK c \in {container[previous[run]]} \cup {x \in {"up"} : container[previous[run]] # "none"} :
            container' = [container EXCEPT ![previous[run]] = c]
      BY <2>5 DEF RestorePreviousFails
    <3>2. QED
      BY <1>0, <3>1
  <2>6. QED
    BY <1>4, <2>1, <2>2, <2>3, <2>4, <2>5 DEF Failing
<1>5. QED
  BY <1>1, <1>2, <1>3, <1>4 DEF Step

\* Health before switch: a runtime that nobody asked to stop goes down only for a
\* replacement that has been proved and still runs, wherever the runner is cut off.
THEOREM SwitchesAfterProof == Spec => HealthBeforeSwitch
<1> DEFINE A == \A d \in Deployment :
                  /\ container[d] = "up"
                  /\ container'[d] # "up"
                  /\ d # run
                  /\ status[d] \in {"RUNNING", "STOPPING"}
                  /\ ~StopAsked(d)
                  => phase[run] \in {"retiring", "running"} /\ container[run] = "up"
<1>1. ASSUME KInv, [Next]_vars PROVE [A]_vars
  <2>1. SUFFICES ASSUME Next, NEW d \in Deployment, container[d] = "up", container'[d] # "up", d # run,
                        status[d] \in {"RUNNING", "STOPPING"}, ~StopAsked(d)
                 PROVE  phase[run] \in {"retiring", "running"} /\ container[run] = "up"
    BY <1>1
  <2>2. (pc = "stopOld" /\ d = victim) \/ pc = "stopPrevious" \/ pc \in After
    BY <1>1, <2>1, TakesDown, NextIsStep DEF KInv, IInv
  <2>3. CASE pc = "stopOld" /\ d = victim
    BY <1>1, <2>1, <2>3 DEF KInv, VictimsChosen
  <2>4. CASE pc = "stopPrevious"
    BY <1>1, <2>4 DEF KInv, CandidateStands, Proved
  <2>5. CASE pc \in After
    <3>1. active = run
      BY <1>1, <2>5 DEF KInv, CandidateStands, Switched
    <3>2. status[d] = "STOPPING"
      BY <1>1, <2>1, <3>1 DEF KInv, IInv, ActiveIsLive
    <3>3. Retired(d)
      BY <2>1, <3>2 DEF Retired
    <3>4. QED
      BY <1>1, <2>5, <3>3 DEF KInv, RetiredIsKept
  <2>6. QED
    BY <2>2, <2>3, <2>4, <2>5
<1>2. QED
  BY <1>1, ContainersInvariant, PTL DEF Spec, HealthBeforeSwitch
=============================================================================
