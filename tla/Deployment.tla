----------------------------- MODULE Deployment -----------------------------
(***************************************************************************)
(* The deployments of one project: the requests of the control plane, the  *)
(* worker that carries them out against Docker, and the switch from one    *)
(* runtime to the next.                                                    *)
(*                                                                         *)
(*   services/deployment/service.py          DeploymentService and Runner  *)
(*   services/deployment/runtime_manager.py  what is asked of Docker       *)
(*   services/deployment/command_executor.py what a command's end records  *)
(*   repositories/deployments.py             the rows and their guards     *)
(*   services/projects.py                    enabling and disabling        *)
(*                                                                         *)
(* A transaction of the code is one action, and so is a sequence of Docker *)
(* calls for one purpose; a failure may leave part of its effect.  The     *)
(* project's advisory lock lets one command execute at a time (module      *)
(* RuntimeCommands), so there is one runner.  It may be cut off between    *)
(* any two steps (Abandon): its command stays due and is executed again.   *)
(*                                                                         *)
(* Rows are created and never removed.  A container is identified with its *)
(* deployment: its name is the deployment's, and one that exists is reused *)
(* (create_runtime_container), so the recorded identity, written by the    *)
(* transaction that begins the activation, never differs from the one that *)
(* Docker reports.                                                         *)
(***************************************************************************)
EXTENDS Naturals

CONSTANTS
    Deployment,       \* the deployments, numbered in the order of creation
    NoDeployment,
    Alone,            \* the transition of a STOP that no DEPLOY follows
    Offered           \* the operations of the control plane that are called

ASSUME DeploymentAssumption ==
    /\ Deployment \subseteq Nat
    /\ NoDeployment \notin Deployment
    /\ Alone \notin Deployment \cup {NoDeployment}

VARIABLES
    status, phase, activating, activated,       \* the rows
    previous, kind, target, stopFirst,          \* the rows, fixed at creation
    enabled, active, hasBuild,                  \* the project
    deployCmd, stopDue, stopFailed,             \* the runtime commands
    container,                                  \* Docker
    pc, run, stopFor, victim, todo, err, owner, ready   \* the runner

lifecycle == <<status, phase, activating, activated>>
request == <<previous, kind, target, stopFirst>>
project == <<enabled, active, hasBuild>>
commands == <<deployCmd, stopDue, stopFailed>>
locals == <<run, stopFor, victim, todo, err, owner, ready>>
runner == <<pc, locals>>
vars == <<lifecycle, request, project, commands, container, runner>>

InProgress == {"PENDING", "DEPLOYING", "HEALTHCHECK"}
Stoppable == InProgress \cup {"RUNNING", "UNHEALTHY", "STOPPING"}
Status == Stoppable \cup {"ABSENT", "STOPPED", "FAILED"}

\* Where the runner is; each names the step that comes next.
PC == {"idle", "prepare", "stopOld", "stopOldRow", "start", "provision", "activate", "retire",
       "stopPrevious", "complete", "removePrevious", "sweep", "sweepStop", "sweepRow",
       "verify", "recheck", "restore", "restorePrevious", "restoreRow",
       "cleanup", "settle", "stop", "stopRow"}

\* is_retryable_deployment_error: what Docker raises, a RuntimeHealthError too, is
\* tried again; a row in the wrong state or files that cannot be written are not.
Error == {"none", "retry", "final"}

OrNone(S) == S \cup {NoDeployment}

TypeOK ==
    /\ status \in [Deployment -> Status]
    /\ phase \in [Deployment -> {"none", "verified", "retiring", "running", "failed"}]
    /\ activating \in [Deployment -> BOOLEAN]
    /\ activated \in [Deployment -> BOOLEAN]
    /\ previous \in [Deployment -> OrNone(Deployment)]
    /\ kind \in [Deployment -> {"deploy", "restart", "rollback"}]
    /\ target \in [Deployment -> OrNone(Deployment)]
    /\ stopFirst \in [Deployment -> BOOLEAN]
    /\ enabled \in BOOLEAN
    /\ active \in OrNone(Deployment)
    /\ hasBuild \in BOOLEAN
    /\ deployCmd \in [Deployment -> {"none", "due", "effective", "failed"}]
    /\ stopDue \in SUBSET (Deployment \X (Deployment \cup {Alone}))
    /\ stopFailed \in SUBSET (Deployment \X (Deployment \cup {Alone}))
    /\ container \in [Deployment -> {"none", "stopped", "up"}]
    /\ pc \in PC
    /\ run \in OrNone(Deployment)
    /\ stopFor \in Deployment \cup {Alone, NoDeployment}
    /\ victim \in OrNone(Deployment)
    /\ todo \in SUBSET Deployment
    /\ err \in Error
    /\ owner \in BOOLEAN
    /\ ready \in BOOLEAN
    /\ pc # "idle" => run \in Deployment
    /\ pc \in {"stopOld", "stopOldRow", "sweepRow"} => victim \in Deployment
    /\ pc \in {"stop", "stopRow"} => stopFor # NoDeployment

Init ==
    /\ status = [d \in Deployment |-> "ABSENT"]
    /\ phase = [d \in Deployment |-> "none"]
    /\ activating = [d \in Deployment |-> FALSE]
    /\ activated = [d \in Deployment |-> FALSE]
    /\ previous = [d \in Deployment |-> NoDeployment]
    /\ kind = [d \in Deployment |-> "deploy"]
    /\ target = [d \in Deployment |-> NoDeployment]
    /\ stopFirst = [d \in Deployment |-> FALSE]
    /\ enabled = TRUE
    /\ active = NoDeployment
    /\ hasBuild = FALSE
    /\ deployCmd = [d \in Deployment |-> "none"]
    /\ stopDue = {}
    /\ stopFailed = {}
    /\ container = [d \in Deployment |-> "none"]
    /\ pc = "idle"
    /\ run = NoDeployment
    /\ stopFor = NoDeployment
    /\ victim = NoDeployment
    /\ todo = {}
    /\ err = "none"
    /\ owner = FALSE
    /\ ready = FALSE

-----------------------------------------------------------------------------
(* The control plane: each operation is one transaction under the project's *)
(* row lock (stop takes only the deployment's).                             *)

Live(d) == status[d] \in Stoppable

\* The new row's id.
Fresh(n) ==
    /\ status[n] = "ABSENT"
    /\ \A d \in Deployment : d < n => status[d] # "ABSENT"

\* Faulty variant: a candidate that is being checked does not count.
Conflict_NotChecked(stopping) ==
    \E d \in Deployment :
        d \notin stopping /\ status[d] \in {"PENDING", "DEPLOYING", "STOPPING"}

\* has_in_progress, but for the rows that this transition stops.
Conflict(stopping) ==
    \E d \in Deployment : d \notin stopping /\ status[d] \in InProgress \cup {"STOPPING"}

\* is_rollback_eligible, is_restart_eligible: the evidence is kept for ever.
RollbackEligible(t) == t # active /\ activated[t]
RestartEligible(t) == t = active /\ status[t] = "RUNNING" /\ activated[t]

\* _schedule_stop_in_session for every row of S, in the transition t.
ScheduleStops(S, t) == stopDue' = stopDue \cup (S \X {t})

Stopping(S) == [d \in Deployment |-> IF d \in S THEN "STOPPING" ELSE status[d]]

\* _request_in_session: the row and its DEPLOY command.  A build that is not
\* READY and a preflight that rejects leave everything as it is.
Create(n, k, t, first, S) ==
    /\ Fresh(n)
    /\ enabled
    /\ ~Conflict(S)
    /\ status' = [Stopping(S) EXCEPT ![n] = "PENDING"]
    /\ previous' = [previous EXCEPT ![n] = active]
    /\ kind' = [kind EXCEPT ![n] = k]
    /\ target' = [target EXCEPT ![n] = t]
    /\ stopFirst' = [stopFirst EXCEPT ![n] = first]
    /\ deployCmd' = [deployCmd EXCEPT ![n] = "due"]
    /\ ScheduleStops(S, n)
    /\ UNCHANGED <<phase, activating, activated, project, stopFailed, container, runner>>

Request(n, first) == Create(n, "deploy", NoDeployment, first, {})

Restart(n) ==
    /\ active \in Deployment
    /\ RestartEligible(active)
    /\ Create(n, "restart", active, FALSE, {})

Rollback(n, t) ==
    /\ status[t] # "ABSENT"
    /\ RollbackEligible(t)
    /\ Create(n, "rollback", t, FALSE, {})

\* schedule_redeploy_active: candidates on their way are stopped, with
\* stop_old_first every live row is; the replacement follows the stops.
RedeployActive(n, first) ==
    /\ active # NoDeployment \/ hasBuild \/ \E d \in Deployment : Live(d)
    /\ Create(n, "deploy", NoDeployment, first,
              {d \in Deployment : Live(d) /\ (first \/ status[d] \in InProgress)})

\* schedule_stop_project, also the fallback of a redeploy that cannot be done.
StopAll ==
    LET S == {d \in Deployment : Live(d)}
    IN  /\ status' = Stopping(S)
        /\ ScheduleStops(S, Alone)

StopProject ==
    /\ StopAll
    /\ UNCHANGED <<phase, activating, activated, request, project, deployCmd, stopFailed,
                   container, runner>>

Stop(d) ==
    /\ Live(d)
    /\ status' = Stopping({d})
    /\ ScheduleStops({d}, Alone)
    /\ UNCHANGED <<phase, activating, activated, request, project, deployCmd, stopFailed,
                   container, runner>>

\* ProjectService.update
Disable ==
    /\ enabled' = FALSE
    /\ StopAll
    /\ UNCHANGED <<phase, activating, activated, request, active, hasBuild, deployCmd,
                   stopFailed, container, runner>>

Enable ==
    /\ ~enabled
    /\ enabled' = TRUE
    /\ UNCHANGED <<lifecycle, request, active, hasBuild, commands, container, runner>>

-----------------------------------------------------------------------------
(* The runner: picking up a command, and leaving it. *)

Goto(p) == pc' = p /\ UNCHANGED locals

\* An exception: err is what the handlers further out see.
Raise(p, e) == pc' = p /\ err' = e /\ UNCHANGED <<run, stopFor, victim, todo, owner, ready>>

Leave ==
    /\ pc' = "idle"
    /\ run' = NoDeployment
    /\ stopFor' = NoDeployment
    /\ victim' = NoDeployment
    /\ todo' = {}
    /\ err' = "none"
    /\ owner' = FALSE
    /\ ready' = FALSE

\* The execution is cut off: a crash, or a checkpoint that finds the lease lost.
Abandon ==
    /\ pc # "idle"
    /\ Leave
    /\ UNCHANGED <<lifecycle, request, project, commands, container>>

\* mark_failed of the DEPLOY command: an error that can be retried leaves it due.
DeployRaises(e) ==
    /\ deployCmd' = [deployCmd EXCEPT ![run] = IF e = "retry" THEN "due" ELSE "failed"]
    /\ Leave

\* Faulty variant: the command is given the deployment's status.
Verdict_Copied(d) == status[d]

\* _verify_and_mark_effective
Verdict(d) == IF status[d] = "RUNNING" THEN "effective" ELSE "failed"

DeployDue(d) ==
    /\ pc = "idle"
    /\ deployCmd[d] = "due"
    /\ \A s \in Deployment : <<s, d>> \notin stopDue \cup stopFailed

\* An activation that was cut off, to be taken up again.
Pending(d) == status[d] = "HEALTHCHECK" /\ activating[d] /\ active = d

Eligible(d) ==
    /\ kind[d] = "rollback" => RollbackEligible(target[d])
    /\ kind[d] = "restart" => previous[d] = target[d] /\ RestartEligible(target[d])

\* The deployment has been stopped or has failed: the run returns at once and
\* the verification fails the command for good.
DeployIsOver(d) ==
    /\ DeployDue(d)
    /\ status[d] \notin InProgress \cup {"RUNNING"}
    /\ deployCmd' = [deployCmd EXCEPT ![d] = Verdict(d)]
    /\ UNCHANGED <<lifecycle, request, project, stopDue, stopFailed, container, runner>>

\* An earlier execution came as far as the switch: prove the runtime again.
DeployResumes(d) ==
    /\ DeployDue(d)
    /\ status[d] = "RUNNING" \/ (enabled /\ Pending(d))
    /\ run' = d
    /\ pc' = "recheck"
    /\ UNCHANGED <<stopFor, victim, todo, err, owner, ready>>
    /\ UNCHANGED <<lifecycle, request, project, commands, container>>

\* The project is disabled, the build or the target is no longer eligible, or
\* the preflight rejects: the transaction is rolled back.
DeployRefused(d) ==
    /\ DeployDue(d)
    /\ status[d] \in InProgress
    /\ ~(enabled /\ Pending(d))
    /\ run' = d
    /\ pc' = "cleanup"
    /\ err' = "final"
    /\ UNCHANGED <<stopFor, victim, todo, owner, ready>>
    /\ UNCHANGED <<lifecycle, request, project, commands, container>>

\* Faulty variant: the old deployment is always stopped first.
DeployBegins_StopsOld(d) ==
    /\ DeployDue(d)
    /\ status[d] \in InProgress
    /\ enabled
    /\ ~Pending(d)
    /\ Eligible(d)
    /\ status' = [status EXCEPT ![d] = "DEPLOYING"]
    /\ run' = d
    /\ victim' = IF active # d THEN active ELSE NoDeployment
    /\ pc' = "prepare"
    /\ UNCHANGED <<phase, activating, activated, stopFor, todo, err, owner, ready>>
    /\ UNCHANGED <<request, project, commands, container>>

DeployBegins(d) ==
    /\ DeployDue(d)
    /\ status[d] \in InProgress
    /\ enabled
    /\ ~Pending(d)
    /\ Eligible(d)
    /\ status' = [status EXCEPT ![d] = "DEPLOYING"]
    /\ run' = d
    /\ victim' = IF stopFirst[d] /\ active # d THEN active ELSE NoDeployment
    /\ pc' = "prepare"
    /\ UNCHANGED <<phase, activating, activated, stopFor, todo, err, owner, ready>>
    /\ UNCHANGED <<request, project, commands, container>>

\* The secrets are collected and the runtime's files written; then the runtime
\* that is to go first, as the transaction above has read it.
Prepare ==
    /\ pc = "prepare"
    /\ Goto(IF victim # NoDeployment THEN "stopOld" ELSE "start")
    /\ UNCHANGED <<lifecycle, request, project, commands, container>>

PrepareFails ==
    /\ pc = "prepare"
    /\ Raise("cleanup", "final")
    /\ UNCHANGED <<lifecycle, request, project, commands, container>>

-----------------------------------------------------------------------------
(* Stopping a runtime for good: _stop_existing and DeploymentRunner.stop.   *)

\* RuntimeManager.stop with remove=True, and the runtime's files.
RemoveRuntime(d) == container' = [container EXCEPT ![d] = "none"]

Halted(c) == IF c = "up" THEN "stopped" ELSE c

\* It breaks off: the container is as it was, stopped, or already removed.  Only
\* the files, which come last, raise an error that is not tried again.
RemoveBreaksOff(d, e) ==
    \E c \in {"none"} \cup {x \in {container[d], Halted(container[d])} : e = "retry"} :
        container' = [container EXCEPT ![d] = c]

\* clear_active and mark_stopped, in one transaction and whatever the status.
StopRow(d) ==
    /\ status' = [status EXCEPT ![d] = "STOPPED"]
    /\ activating' = [activating EXCEPT ![d] = FALSE]
    /\ active' = IF active = d THEN NoDeployment ELSE active
    /\ UNCHANGED <<phase, activated, enabled, hasBuild>>

StopOld ==
    /\ pc = "stopOld"
    /\ RemoveRuntime(victim)
    /\ Goto("stopOldRow")
    /\ UNCHANGED <<lifecycle, request, project, commands>>

StopOldRow ==
    /\ pc = "stopOldRow"
    /\ StopRow(victim)
    /\ Goto("start")
    /\ UNCHANGED <<request, commands, container>>

StopOldFails(e) ==
    /\ pc = "stopOld"
    /\ RemoveBreaksOff(victim, e)
    /\ Raise("cleanup", e)
    /\ UNCHANGED <<lifecycle, request, project, commands>>

\* The STOP command (d, t): nothing to do if the row is at rest.
StopStarts(d, t) ==
    /\ pc = "idle"
    /\ <<d, t>> \in stopDue
    /\ IF status[d] \in {"STOPPED", "FAILED"}
         THEN stopDue' = stopDue \ {<<d, t>>} /\ UNCHANGED runner
         ELSE /\ pc' = "stop"
              /\ run' = d
              /\ stopFor' = t
              /\ UNCHANGED <<victim, todo, err, owner, ready, stopDue>>
    /\ UNCHANGED <<lifecycle, request, project, deployCmd, stopFailed, container>>

StopRuntime ==
    /\ pc = "stop"
    /\ RemoveRuntime(run)
    /\ Goto("stopRow")
    /\ UNCHANGED <<lifecycle, request, project, commands>>

\* Faulty variant: a STOP is given up after any error.
StopFails_Forgets(e) ==
    /\ pc = "stop"
    /\ RemoveBreaksOff(run, e)
    /\ stopDue' = stopDue \ {<<run, stopFor>>}
    /\ Leave
    /\ UNCHANGED <<lifecycle, request, project, deployCmd, stopFailed>>

StopFails(e) ==
    /\ pc = "stop"
    /\ RemoveBreaksOff(run, e)
    /\ IF e = "final"
         THEN /\ stopDue' = stopDue \ {<<run, stopFor>>}
              /\ stopFailed' = stopFailed \cup {<<run, stopFor>>}
         ELSE UNCHANGED <<stopDue, stopFailed>>
    /\ Leave
    /\ UNCHANGED <<lifecycle, request, project, deployCmd>>

\* The row is written; then the network is cleaned up, which may fail and
\* leave the command due once more, and the command is marked effective.
StopTakesEffect(marked) ==
    /\ pc = "stopRow"
    /\ StopRow(run)
    /\ stopDue' = IF marked THEN stopDue \ {<<run, stopFor>>} ELSE stopDue
    /\ Leave
    /\ UNCHANGED <<request, deployCmd, stopFailed, container>>

-----------------------------------------------------------------------------
(* Starting the candidate and making it the active deployment. *)

\* The row goes to HEALTHCHECK unless it has been stopped meanwhile.
Start ==
    /\ pc = "start"
    /\ status[run] \in {"DEPLOYING", "HEALTHCHECK"}
    /\ status' = [status EXCEPT ![run] = "HEALTHCHECK"]
    /\ activating' = [activating EXCEPT ![run] = FALSE]
    /\ Goto("provision")
    /\ UNCHANGED <<phase, activated, request, project, commands, container>>

StartRefused ==
    /\ pc = "start"
    /\ status[run] \notin {"DEPLOYING", "HEALTHCHECK"}
    /\ Raise("cleanup", "final")
    /\ UNCHANGED <<lifecycle, request, project, commands, container>>

\* RuntimeManager.provision: created or reused, started, healthy, routed to.
Provision ==
    /\ pc = "provision"
    /\ container' = [container EXCEPT ![run] = "up"]
    /\ Goto("activate")
    /\ UNCHANGED <<lifecycle, request, project, commands>>

ProvisionFails ==
    /\ pc = "provision"
    /\ \E c \in {container[run], "stopped", "up"} : container' = [container EXCEPT ![run] = c]
    /\ Raise("cleanup", "retry")
    /\ UNCHANGED <<lifecycle, request, project, commands>>

MayActivate(d) ==
    /\ status[d] = "HEALTHCHECK"
    /\ enabled
    /\ active \in {NoDeployment, d, previous[d]}

\* begin_activation: from here on (owner, the local "activated") a failure
\* restores the predecessor instead of removing the candidate.
BeginActivation ==
    /\ pc = "activate"
    /\ MayActivate(run)
    /\ status' = [d \in Deployment |->
                    IF d = previous[run] /\ active = d /\ status[d] = "RUNNING"
                      THEN "STOPPING" ELSE status[d]]
    /\ phase' = [phase EXCEPT ![run] = "verified"]
    /\ activating' = [activating EXCEPT ![run] = TRUE]
    /\ active' = run
    /\ hasBuild' = TRUE
    /\ owner' = TRUE
    /\ pc' = "retire"
    /\ UNCHANGED <<activated, request, enabled, commands, container>>
    /\ UNCHANGED <<run, stopFor, victim, todo, err, ready>>

ActivationRefused ==
    /\ pc = "activate"
    /\ ~MayActivate(run)
    /\ Raise("cleanup", "final")
    /\ UNCHANGED <<lifecycle, request, project, commands, container>>

-----------------------------------------------------------------------------
(* _finish_activation *)

\* mark_retiring_previous, and the predecessor's status.
MayRetire(d) ==
    /\ status[d] = "HEALTHCHECK"
    /\ phase[d] \in {"verified", "retiring"}
    /\ previous[d] # NoDeployment => status[previous[d]] \in {"STOPPING", "STOPPED"}

Retire ==
    /\ pc = "retire"
    /\ MayRetire(run)
    /\ phase' = [phase EXCEPT ![run] = "retiring"]
    /\ Goto(IF previous[run] # NoDeployment /\ status[previous[run]] = "STOPPING"
              THEN "stopPrevious" ELSE "complete")
    /\ UNCHANGED <<status, activating, activated, request, project, commands, container>>

RetireRefused ==
    /\ pc = "retire"
    /\ ~MayRetire(run)
    /\ Raise("restore", "final")
    /\ UNCHANGED <<lifecycle, request, project, commands, container>>

\* Faulty variant: the predecessor's container is removed with the stop.
StopPrevious_Removes ==
    /\ pc = "stopPrevious"
    /\ container' = [container EXCEPT ![previous[run]] = "none"]
    /\ Goto("complete")
    /\ UNCHANGED <<lifecycle, request, project, commands>>

\* RuntimeManager.stop with remove=False
StopPrevious ==
    /\ pc = "stopPrevious"
    /\ container' = [container EXCEPT ![previous[run]] = Halted(@)]
    /\ Goto("complete")
    /\ UNCHANGED <<lifecycle, request, project, commands>>

StopPreviousFails ==
    /\ pc = "stopPrevious"
    /\ \E c \in {container[previous[run]], Halted(container[previous[run]])} :
           container' = [container EXCEPT ![previous[run]] = c]
    /\ Raise("restore", "retry")
    /\ UNCHANGED <<lifecycle, request, project, commands>>

\* refresh_activation_proof and complete_activation
MayComplete(d) ==
    /\ status[d] = "HEALTHCHECK"
    /\ phase[d] = "retiring"
    /\ enabled
    /\ active = d
    /\ previous[d] # NoDeployment => status[previous[d]] \in {"STOPPING", "STOPPED"}
    /\ \A o \in Deployment \ {d} : status[o] # "RUNNING"

\* The candidate is proved once more, without its predecessor; then RUNNING and
\* the predecessor's STOPPED commit together.
Complete ==
    /\ pc = "complete"
    /\ container[run] = "up"
    /\ MayComplete(run)
    /\ status' = [d \in Deployment |->
                    IF d = run THEN "RUNNING"
                    ELSE IF d = previous[run] THEN "STOPPED" ELSE status[d]]
    /\ phase' = [phase EXCEPT ![run] = "running"]
    /\ activated' = [activated EXCEPT ![run] = TRUE]
    /\ activating' = [activating EXCEPT ![run] = FALSE]
    /\ Goto(IF previous[run] # NoDeployment THEN "removePrevious" ELSE "sweep")
    /\ UNCHANGED <<request, project, commands, container>>

CompleteFails(e) ==
    /\ pc = "complete"
    /\ e = "final" => ~MayComplete(run)
    /\ Raise("restore", e)
    /\ UNCHANGED <<lifecycle, request, project, commands, container>>

\* _remove_retired_runtime
RemovePrevious ==
    /\ pc = "removePrevious"
    /\ RemoveRuntime(previous[run])
    /\ Goto("sweep")
    /\ UNCHANGED <<lifecycle, request, project, commands>>

RemovePreviousFails(e) ==
    /\ pc = "removePrevious"
    /\ RemoveBreaksOff(previous[run], e)
    /\ DeployRaises(e)
    /\ UNCHANGED <<lifecycle, request, project, stopDue, stopFailed>>

\* _cleanup_superseded
Sweep ==
    /\ pc = "sweep"
    /\ todo' = {d \in Deployment \ {run} : status[d] \in {"RUNNING", "STOPPING"}}
    /\ pc' = IF todo' = {} THEN "verify" ELSE "sweepStop"
    /\ UNCHANGED <<run, stopFor, victim, err, owner, ready>>
    /\ UNCHANGED <<lifecycle, request, project, commands, container>>

SweepStop(d) ==
    /\ pc = "sweepStop"
    /\ d \in todo
    /\ RemoveRuntime(d)
    /\ victim' = d
    /\ todo' = todo \ {d}
    /\ pc' = "sweepRow"
    /\ UNCHANGED <<run, stopFor, err, owner, ready>>
    /\ UNCHANGED <<lifecycle, request, project, commands>>

SweepRow ==
    /\ pc = "sweepRow"
    /\ StopRow(victim)
    /\ Goto(IF todo = {} THEN "verify" ELSE "sweepStop")
    /\ UNCHANGED <<request, commands, container>>

SweepFails(d, e) ==
    /\ pc = "sweepStop"
    /\ d \in todo
    /\ RemoveBreaksOff(d, e)
    /\ DeployRaises(e)
    /\ UNCHANGED <<lifecycle, request, project, stopDue, stopFailed>>

Verify ==
    /\ pc = "verify"
    /\ deployCmd' = [deployCmd EXCEPT ![run] = Verdict(run)]
    /\ Leave
    /\ UNCHANGED <<lifecycle, request, project, stopDue, stopFailed, container>>

-----------------------------------------------------------------------------
(* Taking up an activation again. *)

\* refresh_activation_proof finds the row in one of two states.
MayRefresh(d) == status[d] \in {"HEALTHCHECK", "RUNNING"}

\* The runtime is proved (revalidate_activation_candidate) and the proof stored
\* (refresh_activation_proof).  A RUNNING row goes on to its clean-up.
Recheck ==
    /\ pc = "recheck"
    /\ container[run] = "up"
    /\ MayRefresh(run)
    /\ IF status[run] = "RUNNING"
         THEN UNCHANGED <<phase, activating>>
         ELSE /\ phase' = [phase EXCEPT ![run] = IF @ = "retiring" THEN @ ELSE "verified"]
              /\ activating' = [activating EXCEPT ![run] = TRUE]
    /\ owner' = TRUE
    /\ pc' = CASE status[run] = "HEALTHCHECK" -> "retire"
               [] status[run] = "RUNNING" /\ previous[run] # NoDeployment
                    /\ status[previous[run]] = "STOPPED" -> "removePrevious"
               [] OTHER -> "sweep"
    /\ UNCHANGED <<run, stopFor, victim, todo, err, ready>>
    /\ UNCHANGED <<status, activated, request, project, commands, container>>

RecheckFails(e) ==
    /\ pc = "recheck"
    /\ e = "final" => ~MayRefresh(run)
    /\ Raise("restore", e)
    /\ UNCHANGED <<lifecycle, request, project, commands, container>>

-----------------------------------------------------------------------------
(* _fail_activation_and_restore *)

\* The candidate's container is stopped, not removed.
StopCandidate ==
    /\ pc = "restore"
    /\ container' = [container EXCEPT ![run] = Halted(@)]
    /\ Goto(IF previous[run] # NoDeployment THEN "restorePrevious" ELSE "restoreRow")
    /\ UNCHANGED <<lifecycle, request, project, commands>>

\* Docker refuses the stop: the error is logged, the predecessor left alone.
StopCandidateFails ==
    /\ pc = "restore"
    /\ \E c \in {container[run], Halted(container[run])} :
           container' = [container EXCEPT ![run] = c]
    /\ Goto("restoreRow")
    /\ UNCHANGED <<lifecycle, request, project, commands>>

\* restore_activation_predecessor starts the container that was kept.
RestorePrevious ==
    /\ pc = "restorePrevious"
    /\ container[previous[run]] # "none"
    /\ container' = [container EXCEPT ![previous[run]] = "up"]
    /\ ready' = TRUE
    /\ pc' = "restoreRow"
    /\ UNCHANGED <<run, stopFor, victim, todo, err, owner>>
    /\ UNCHANGED <<lifecycle, request, project, commands>>

\* It is gone, or does not come up healthy and routed to.
RestorePreviousFails ==
    /\ pc = "restorePrevious"
    /\ \E c \in {container[previous[run]]} \cup
                {x \in {"up"} : container[previous[run]] # "none"} :
           container' = [container EXCEPT ![previous[run]] = c]
    /\ Goto("restoreRow")
    /\ UNCHANGED <<lifecycle, request, project, commands>>

\* Faulty variant: the predecessor is taken back without a proof.
Restorable_Unproved(p) ==
    /\ p \in Deployment
    /\ status[p] \in {"STOPPING", "STOPPED"}
    /\ activated[p]

\* The predecessor takes over only if its runtime is ready and its row is not
\* in another state.
Restorable(p) ==
    /\ ready
    /\ p \in Deployment
    /\ status[p] \in {"STOPPING", "STOPPED"}
    /\ activated[p]

\* The end of a failed activation: the error goes on to the caller, which
\* removes the candidate unless the activation was its own (owner).
AfterRestore ==
    IF owner
      THEN DeployRaises(err)
      ELSE pc' = "cleanup" /\ UNCHANGED <<locals, deployCmd>>

\* Faulty variant: the project keeps pointing at the failed candidate.
RestoreRow_KeepsActive ==
    /\ pc = "restoreRow"
    /\ status' = [status EXCEPT ![run] = IF @ \in {"HEALTHCHECK", "RUNNING"}
                                           THEN "UNHEALTHY" ELSE @]
    /\ phase' = [phase EXCEPT ![run] = "failed"]
    /\ activating' = [activating EXCEPT ![run] = FALSE]
    /\ AfterRestore
    /\ UNCHANGED <<activated, request, project, stopDue, stopFailed, container>>

\* restore_previous_after_failed_activation
RestoreRow ==
    /\ pc = "restoreRow"
    /\ IF active = run
         THEN LET p == previous[run]
                  back == Restorable(p)
                  fails == status[run] \in {"HEALTHCHECK", "RUNNING"}
              IN  /\ status' = [d \in Deployment |->
                                  IF d = run /\ fails THEN "UNHEALTHY"
                                  ELSE IF d = p /\ back THEN "RUNNING" ELSE status[d]]
                  /\ phase' = [phase EXCEPT ![run] = IF fails THEN "failed" ELSE @]
                  /\ activating' = [activating EXCEPT ![run] = ~fails /\ @]
                  /\ active' = IF back THEN p ELSE NoDeployment
                  /\ hasBuild' = back
         ELSE UNCHANGED <<status, phase, activating, active, hasBuild>>
    /\ AfterRestore
    /\ UNCHANGED <<activated, request, enabled, stopDue, stopFailed, container>>

-----------------------------------------------------------------------------
(* The handler of DeploymentRunner.run. *)

\* _cleanup_failed_without_masking: removed, or Docker's error is logged.
Cleanup(removed) ==
    /\ pc = "cleanup"
    /\ container' = [container EXCEPT ![run] = IF removed THEN "none" ELSE @]
    /\ Goto("settle")
    /\ UNCHANGED <<lifecycle, request, project, commands>>

\* Faulty variant: the row is made ready for another attempt, the command is not.
SettleForRetry_GivesUp ==
    /\ pc = "settle"
    /\ err = "retry"
    /\ IF status[run] \in {"DEPLOYING", "HEALTHCHECK"}
         THEN /\ status' = [status EXCEPT ![run] = "PENDING"]
              /\ phase' = [phase EXCEPT ![run] = "none"]
              /\ activating' = [activating EXCEPT ![run] = FALSE]
              /\ activated' = [activated EXCEPT ![run] = FALSE]
         ELSE UNCHANGED lifecycle
    /\ deployCmd' = [deployCmd EXCEPT ![run] = "failed"]
    /\ Leave
    /\ UNCHANGED <<request, project, stopDue, stopFailed, container>>

\* reset_for_retry; a row that is no longer on its way ends the command.
SettleForRetry ==
    /\ pc = "settle"
    /\ err = "retry"
    /\ IF status[run] \in {"DEPLOYING", "HEALTHCHECK"}
         THEN /\ status' = [status EXCEPT ![run] = "PENDING"]
              /\ phase' = [phase EXCEPT ![run] = "none"]
              /\ activating' = [activating EXCEPT ![run] = FALSE]
              /\ activated' = [activated EXCEPT ![run] = FALSE]
              /\ UNCHANGED deployCmd
         ELSE /\ deployCmd' = [deployCmd EXCEPT ![run] = Verdict(run)]
              /\ UNCHANGED lifecycle
    /\ Leave
    /\ UNCHANGED <<request, project, stopDue, stopFailed, container>>

\* mark_failed; unhealthy is never set, for a RuntimeHealthError is tried again.
SettleAsFailed ==
    /\ pc = "settle"
    /\ err = "final"
    /\ IF status[run] \in InProgress
         THEN /\ status' = [status EXCEPT ![run] = "FAILED"]
              /\ phase' = [phase EXCEPT ![run] = "failed"]
              /\ activating' = [activating EXCEPT ![run] = FALSE]
         ELSE UNCHANGED <<status, phase, activating>>
    /\ deployCmd' = [deployCmd EXCEPT ![run] = "failed"]
    /\ Leave
    /\ UNCHANGED <<activated, request, project, stopDue, stopFailed, container>>

-----------------------------------------------------------------------------

ControlPlane ==
    \/ "request" \in Offered /\ \E n \in Deployment, first \in BOOLEAN : Request(n, first)
    \/ "restart" \in Offered /\ \E n \in Deployment : Restart(n)
    \/ "rollback" \in Offered /\ \E n, t \in Deployment : Rollback(n, t)
    \/ "redeploy" \in Offered
         /\ \E n \in Deployment, first \in BOOLEAN : RedeployActive(n, first)
    \/ "stopProject" \in Offered /\ StopProject
    \/ "stop" \in Offered /\ \E d \in Deployment : Stop(d)
    \/ "disable" \in Offered /\ (Disable \/ Enable)

\* The runner's steps that go as they should.
Progress ==
    \/ StopOld \/ StopOldRow
    \/ StopRuntime \/ StopTakesEffect(TRUE)
    \/ Prepare \/ Start \/ StartRefused \/ Provision \/ BeginActivation \/ ActivationRefused
    \/ Retire \/ RetireRefused \/ StopPrevious \/ Complete \/ RemovePrevious
    \/ Sweep \/ (\E d \in Deployment : SweepStop(d)) \/ SweepRow \/ Verify
    \/ Recheck
    \/ StopCandidate \/ RestorePrevious \/ RestoreRow
    \/ Cleanup(TRUE) \/ SettleForRetry \/ SettleAsFailed

Failing ==
    \/ Abandon
    \/ PrepareFails
    \/ ProvisionFails
    \/ StopPreviousFails
    \/ \E e \in {"retry", "final"} :
        \/ StopOldFails(e)
        \/ StopFails(e)
        \/ CompleteFails(e)
        \/ RemovePreviousFails(e)
        \/ \E d \in Deployment : SweepFails(d, e)
        \/ RecheckFails(e)
    \/ StopTakesEffect(FALSE)
    \/ StopCandidateFails
    \/ RestorePreviousFails
    \/ Cleanup(FALSE)

Next ==
    \/ ControlPlane
    \/ \E d \in Deployment : DeployIsOver(d) \/ DeployResumes(d) \/ DeployRefused(d)
                                \/ DeployBegins(d)
    \/ \E d \in Deployment, t \in Deployment \cup {Alone} : StopStarts(d, t)
    \/ Progress
    \/ Failing

Spec == Init /\ [][Next]_vars

(***************************************************************************)
(* Fairness.  The dispatcher offers every due command again and again and  *)
(* the runner goes on with the command it has.  A step can fail because of *)
(* the state it finds (Forced), or because of a fault: Docker or the disk  *)
(* refuses, or the execution is cut off.  Faults may occur any number of   *)
(* times, but not for ever (FaultsEnd).                                    *)
(***************************************************************************)
Forced ==
    \/ pc = "recheck" /\ (container[run] # "up" \/ status[run] \notin {"HEALTHCHECK", "RUNNING"})
    \/ pc = "complete" /\ (container[run] # "up" \/ ~MayComplete(run))
    \/ pc = "restorePrevious" /\ container[previous[run]] = "none"

ForcedFailure == Forced /\ Failing /\ pc' # "idle"

FaultsEnd == <>[][Failing => ForcedFailure]_vars

Fairness ==
    /\ WF_vars(Progress \/ ForcedFailure)
    /\ \A d \in Deployment :
        /\ WF_vars(DeployIsOver(d) \/ DeployResumes(d) \/ DeployRefused(d) \/ DeployBegins(d))
        /\ \A t \in Deployment \cup {Alone} : WF_vars(StopStarts(d, t))

LiveSpec == Spec /\ Fairness /\ FaultsEnd

-----------------------------------------------------------------------------
(* Properties. *)

\* The two partial unique indexes of the table are never what stops the code:
\* no project has two RUNNING deployments, nor two on their way.
OneRuntimePerProject ==
    \A c, d \in Deployment :
        c # d => /\ ~(status[c] = "RUNNING" /\ status[d] = "RUNNING")
                 /\ ~(status[c] \in InProgress /\ status[d] \in InProgress)

\* The project's pointer and the rows agree, whatever was cut off or stopped: a
\* RUNNING deployment is the active one, and the active one is running, being
\* stopped, or in an activation that the next execution takes up.
ActiveIsLive ==
    /\ \A d \in Deployment : status[d] = "RUNNING" => active = d
    /\ active \in Deployment => \/ status[active] \in {"RUNNING", "STOPPING"}
                                \/ Pending(active)

\* Somebody asked for d to go: a STOP that has not succeeded yet, or a later
\* deployment that was to stop what it finds active.
StopAsked(d) ==
    \/ \E t \in Deployment \cup {Alone} : <<d, t>> \in stopDue \cup stopFailed
    \/ \E n \in Deployment : stopFirst[n] /\ d < n

\* "Keep the predecessor container recoverable": while the candidate's activation
\* can still fail, the predecessor that it is retiring has its container, unless
\* somebody asked for that predecessor's stop.
PredecessorRecoverable ==
    \A d \in Deployment :
        /\ Pending(d)
        /\ previous[d] \in Deployment
        /\ status[previous[d]] = "STOPPING"
        /\ ~StopAsked(previous[d])
        => container[previous[d]] # "none"

\* A deployment that is shown as RUNNING has its container up, or a command is due
\* that repairs it, or somebody asked for it to go.
RunningServes ==
    \A d \in Deployment :
        status[d] = "RUNNING" /\ container[d] # "up" =>
            deployCmd[d] = "due" \/ StopAsked(d)

\* Health before switch: a runtime that nobody asked to stop goes down only for a
\* replacement that has been proved and still runs.
HealthBeforeSwitch ==
    [][\A d \in Deployment :
        /\ container[d] = "up"
        /\ container'[d] # "up"
        /\ d # run
        /\ status[d] \in {"RUNNING", "STOPPING"}
        /\ ~StopAsked(d)
        => phase[run] \in {"retiring", "running"} /\ container[run] = "up"]_vars

\* A deployment that was asked to stop comes to rest, unless the STOP failed for
\* good: no crash, and no restoration of the deployment by a failing successor,
\* loses the request.
StopHonoured ==
    \A d \in Deployment :
        (\E t \in Deployment \cup {Alone} : <<d, t>> \in stopDue) ~>
            \/ status[d] \in {"STOPPED", "FAILED"}
            \/ \E t \in Deployment \cup {Alone} : <<d, t>> \in stopFailed

\* A deployment does not stay on its way for ever, where it would block every
\* other request, unless a STOP it has to wait for failed for good.
DeploymentSettles ==
    \A d \in Deployment :
        (status[d] \in InProgress) ~>
            \/ status[d] \notin InProgress
            \/ \E s \in Deployment : <<s, d>> \in stopFailed
=============================================================================
