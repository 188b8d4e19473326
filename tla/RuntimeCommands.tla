-------------------------- MODULE RuntimeCommands --------------------------
(***************************************************************************)
(* The runtime-command outbox: lifecycle commands (deploy, stop) stored in *)
(* PostgreSQL, leased by a dispatcher, delivered through a Redis queue and *)
(* executed by deployment workers that are fenced by a token and a lease.  *)
(*                                                                         *)
(*   repositories/runtime_commands.py          the table and its guards    *)
(*   services/deployment/command_dispatcher.py the dispatcher              *)
(*   services/deployment/command_executor.py   the executor, its heartbeat *)
(*   clients/queue.py                          the queue                   *)
(*                                                                         *)
(* Time.  A deadline is kept as the time that remains until it: a lease    *)
(* that is null or not later than the database clock is 0, next_attempt_at *)
(* in the past is 0.  Tick advances every clock by one unit; the database  *)
(* clock and the workers' monotonic clocks run at the same rate, which is  *)
(* what the heartbeat's arithmetic in the code relies on.                  *)
(***************************************************************************)
EXTENDS Naturals, FiniteSets

CONSTANTS
    Command,          \* the commands; a command is its sequence number
    Transition,       \* the lifecycle transitions that group commands
    TransitionOf,     \* the transition_id of each command
    Project,          \* the projects
    ProjectOf,        \* the project_id of each command
    Worker,           \* the deployment worker processes
    Token,            \* execution tokens; a bound on the tokens in use at once
    NoCommand, NoToken, NoWorker,
    DispatchLease,    \* runtime_command_dispatch_lease_seconds
    ExecutionLease,   \* runtime_command_execution_lease_seconds
    DispatchRetry,    \* runtime_command_dispatch_interval_seconds
    RetryDelays,      \* the values of min(300, 2 ** min(attempt_count, 8))
    BatchSize,        \* the dispatcher's batch_size
    MaxRedelivery     \* how often the queue may deliver one message again

ASSUME CommandAssumption ==
    /\ Command \subseteq Nat
    /\ TransitionOf \in [Command -> Transition]
    /\ ProjectOf \in [Command -> Project]
    /\ NoCommand \notin Command

ASSUME IdentityAssumption == NoToken \notin Token /\ NoWorker \notin Worker

ASSUME TimingAssumption ==
    /\ DispatchLease \in Nat \ {0}
    /\ ExecutionLease \in Nat \ {0}
    /\ DispatchRetry \in Nat
    /\ RetryDelays \subseteq Nat
    /\ MaxRedelivery \in Nat

VARIABLES
    status, retryable, wait, lease, token,      \* the command rows
    outbox,                                     \* claimed, enqueue not yet returned
    queue,                                      \* the Redis queue
    pc, wcmd, wtok, left, renewal, renewalLeft, \* the workers
    lock                                        \* project advisory locks

rows == <<status, retryable, wait, lease, token>>
transport == <<outbox, queue>>
heartbeat == <<left, renewal, renewalLeft>>
workers == <<pc, wcmd, wtok, heartbeat>>
vars == <<rows, transport, workers, lock>>

Status == {"ABSENT", "PENDING", "DISPATCHED", "RUNNING", "FAILED", "EFFECTIVE"}

\* A worker executes a command it claimed until it settles or abandons it.
Executing == {"locking", "ready", "effect", "failing"}

\* After ownership is lost the cancelled asyncio task is gone, but the thread
\* of its Docker call runs on: the worker is draining.
PC == {"idle", "claiming", "draining"} \cup Executing

Message == [cmd : Command, token : Token, again : 0..MaxRedelivery]

TypeOK ==
    /\ status \in [Command -> Status]
    /\ retryable \in [Command -> BOOLEAN]
    /\ wait \in [Command -> Nat]
    /\ lease \in [Command -> Nat]
    /\ token \in [Command -> Token \cup {NoToken}]
    /\ outbox \in SUBSET (Command \X Token \X {"claimed", "sent"})
    /\ queue \in SUBSET Message
    /\ pc \in [Worker -> PC]
    /\ wcmd \in [Worker -> Command \cup {NoCommand}]
    /\ wtok \in [Worker -> Token \cup {NoToken}]
    /\ left \in [Worker -> Nat]
    /\ renewal \in [Worker -> {"none", "sent", "committed"}]
    /\ renewalLeft \in [Worker -> Nat]
    /\ lock \in [Project -> Worker \cup {NoWorker}]
    /\ \A w \in Worker : pc[w] # "idle" => wcmd[w] \in Command /\ wtok[w] \in Token

Init ==
    /\ status = [c \in Command |-> "ABSENT"]
    /\ retryable = [c \in Command |-> TRUE]
    /\ wait = [c \in Command |-> 0]
    /\ lease = [c \in Command |-> 0]
    /\ token = [c \in Command |-> NoToken]
    /\ outbox = {}
    /\ queue = {}
    /\ pc = [w \in Worker |-> "idle"]
    /\ wcmd = [w \in Worker |-> NoCommand]
    /\ wtok = [w \in Worker |-> NoToken]
    /\ left = [w \in Worker |-> 0]
    /\ renewal = [w \in Worker |-> "none"]
    /\ renewalLeft = [w \in Worker |-> 0]
    /\ lock = [p \in Project |-> NoWorker]

-----------------------------------------------------------------------------
(* The command table. *)

PredecessorsEffective(c) ==
    \A p \in Command :
        TransitionOf[p] = TransitionOf[c] /\ p < c => status[p] = "EFFECTIVE"

\* require_execution_owner: what a worker must satisfy to write anything.
Owns(c, t) ==
    /\ status[c] = "RUNNING"
    /\ token[c] = t
    /\ lease[c] > 0
    /\ PredecessorsEffective(c)

\* Faulty variants of the selection: without the predecessor test, without the
\* retryable test, and without the RUNNING rows a crashed worker leaves behind.
Due_NoPredecessors ==
    {c \in Command : /\ status[c] \in {"PENDING", "DISPATCHED", "RUNNING", "FAILED"}
                     /\ retryable[c] /\ wait[c] = 0 /\ lease[c] = 0}

Due_IgnoresRetryable ==
    {c \in Command : /\ status[c] \in {"PENDING", "DISPATCHED", "RUNNING", "FAILED"}
                     /\ wait[c] = 0 /\ lease[c] = 0 /\ PredecessorsEffective(c)}

Due_NoRunning ==
    {c \in Command : /\ status[c] \in {"PENDING", "DISPATCHED", "FAILED"}
                     /\ retryable[c] /\ wait[c] = 0 /\ lease[c] = 0
                     /\ PredecessorsEffective(c)}

\* The rows claim_due_for_dispatch selects.
Due ==
    {c \in Command :
        /\ status[c] \in {"PENDING", "DISPATCHED", "RUNNING", "FAILED"}
        /\ retryable[c]
        /\ wait[c] = 0
        /\ lease[c] = 0
        /\ PredecessorsEffective(c)}

\* Tokens that some row, message or process still holds; uuid4 returns others.
UsedTokens ==
    {token[c] : c \in Command} \cup {wtok[w] : w \in Worker}
        \cup {o[2] : o \in outbox} \cup {m.token : m \in queue}

\* One transaction inserts every command of a transition.
Create(t) ==
    /\ \E c \in Command : TransitionOf[c] = t
    /\ \A c \in Command : TransitionOf[c] = t => status[c] = "ABSENT"
    /\ status' = [c \in Command |->
                    IF TransitionOf[c] = t THEN "PENDING" ELSE status[c]]
    /\ UNCHANGED <<retryable, wait, lease, token, transport, workers, lock>>

\* Leases the rows S under the fresh tokens f.  S is not all of Due: the query
\* has a limit and skips rows another transaction has locked.
ClaimDue(S, f) ==
    /\ S # {}
    /\ S \subseteq Due
    /\ Cardinality(S) <= BatchSize
    /\ \A c, d \in S : c # d => f[c] # f[d]
    /\ status' = [c \in Command |-> IF c \in S THEN "DISPATCHED" ELSE status[c]]
    /\ token' = [c \in Command |-> IF c \in S THEN f[c] ELSE token[c]]
    /\ lease' = [c \in Command |-> IF c \in S THEN DispatchLease ELSE lease[c]]
    /\ wait' = [c \in Command |-> IF c \in S THEN DispatchLease ELSE wait[c]]
    /\ outbox' = outbox \cup {<<c, f[c], "claimed">> : c \in S}
    /\ UNCHANGED <<retryable, queue, workers, lock>>

\* _apply_failure
ApplyFailure(c, again, delay) ==
    /\ status' = [status EXCEPT ![c] = "FAILED"]
    /\ retryable' = [retryable EXCEPT ![c] = again]
    /\ lease' = [lease EXCEPT ![c] = 0]
    /\ token' = [token EXCEPT ![c] = NoToken]
    /\ wait' = [wait EXCEPT ![c] = delay]

-----------------------------------------------------------------------------
(* The dispatcher and the queue. *)

\* The job reaches Redis; the dispatcher waits for the reply.
Enqueue(o) ==
    /\ o[3] = "claimed"
    /\ queue' = queue \cup {[cmd |-> o[1], token |-> o[2], again |-> MaxRedelivery]}
    /\ outbox' = (outbox \ {o}) \cup {<<o[1], o[2], "sent">>}
    /\ UNCHANGED <<rows, workers, lock>>

EnqueueReturns(o) ==
    /\ o[3] = "sent"
    /\ outbox' = outbox \ {o}
    /\ UNCHANGED <<rows, queue, workers, lock>>

\* The enqueue raises, with or without the job in Redis, where a worker may
\* have claimed the command by now (mark_dispatch_failed).
EnqueueFails(o) ==
    /\ outbox' = outbox \ {o}
    /\ IF status[o[1]] = "DISPATCHED" /\ token[o[1]] = o[2] /\ lease[o[1]] > 0
         THEN ApplyFailure(o[1], TRUE, DispatchRetry)
         ELSE UNCHANGED rows
    /\ UNCHANGED <<queue, workers, lock>>

\* A dispatcher that dies between the claim and the enqueue.
DispatcherCrash(o) ==
    /\ outbox' = outbox \ {o}
    /\ UNCHANGED <<rows, queue, workers, lock>>

LoseMessage(m) ==
    /\ queue' = queue \ {m}
    /\ UNCHANGED <<rows, outbox, workers, lock>>

\* Faulty variant: the worker does not keep the token it was sent.
Deliver_NoToken(w, m, kept) ==
    /\ pc[w] = "idle"
    /\ kept => m.again > 0
    /\ queue' = queue \ {m}
    /\ pc' = [pc EXCEPT ![w] = "claiming"]
    /\ wcmd' = [wcmd EXCEPT ![w] = m.cmd]
    /\ left' = [left EXCEPT ![w] = ExecutionLease]
    /\ UNCHANGED <<rows, outbox, wtok, renewal, renewalLeft, lock>>

\* A worker takes a message and notes the time (claim_started).  The message
\* may stay for another delivery: RQ retries jobs and requeues abandoned ones.
Deliver(w, m, kept) ==
    /\ pc[w] = "idle"
    /\ kept => m.again > 0
    /\ queue' = (queue \ {m}) \cup
                  (IF kept THEN {[m EXCEPT !.again = @ - 1]} ELSE {})
    /\ pc' = [pc EXCEPT ![w] = "claiming"]
    /\ wcmd' = [wcmd EXCEPT ![w] = m.cmd]
    /\ wtok' = [wtok EXCEPT ![w] = m.token]
    /\ left' = [left EXCEPT ![w] = ExecutionLease]
    /\ UNCHANGED <<rows, outbox, renewal, renewalLeft, lock>>

-----------------------------------------------------------------------------
(* The executor. *)

\* The worker's process leaves the command; its PostgreSQL session, and with it
\* an advisory lock it holds, ends.
Leave(w) ==
    /\ pc' = [pc EXCEPT ![w] = "idle"]
    /\ wcmd' = [wcmd EXCEPT ![w] = NoCommand]
    /\ wtok' = [wtok EXCEPT ![w] = NoToken]
    /\ left' = [left EXCEPT ![w] = 0]
    /\ renewal' = [renewal EXCEPT ![w] = "none"]
    /\ renewalLeft' = [renewalLeft EXCEPT ![w] = 0]

Unlock(w) == lock' = [p \in Project |-> IF lock[p] = w THEN NoWorker ELSE lock[p]]

\* Faulty variant: a row that is already RUNNING can be claimed again.
Claimable_Leased(c, t) ==
    /\ status[c] \in {"DISPATCHED", "RUNNING"}
    /\ token[c] = t
    /\ lease[c] > 0
    /\ PredecessorsEffective(c)

Claimable(c, t) ==
    /\ status[c] = "DISPATCHED"
    /\ token[c] = t
    /\ lease[c] > 0
    /\ PredecessorsEffective(c)

ClaimForExecution(w) ==
    /\ pc[w] = "claiming"
    /\ Claimable(wcmd[w], wtok[w])
    /\ status' = [status EXCEPT ![wcmd[w]] = "RUNNING"]
    /\ lease' = [lease EXCEPT ![wcmd[w]] = ExecutionLease]
    /\ wait' = [wait EXCEPT ![wcmd[w]] = ExecutionLease]
    /\ pc' = [pc EXCEPT ![w] = "locking"]
    /\ UNCHANGED <<retryable, token, transport, wcmd, wtok, heartbeat, lock>>

RejectDelivery(w) ==
    /\ pc[w] = "claiming"
    /\ ~Claimable(wcmd[w], wtok[w])
    /\ Leave(w)
    /\ UNCHANGED <<rows, transport, lock>>

\* Faulty variant: a lock that does not make its caller wait.
AcquireLock_NoWait(w) ==
    /\ pc[w] = "locking"
    /\ lock' = [lock EXCEPT ![ProjectOf[wcmd[w]]] = w]
    /\ pc' = [pc EXCEPT ![w] = "ready"]
    /\ UNCHANGED <<rows, transport, wcmd, wtok, heartbeat>>

AcquireLock(w) ==
    /\ pc[w] = "locking"
    /\ lock[ProjectOf[wcmd[w]]] = NoWorker
    /\ lock' = [lock EXCEPT ![ProjectOf[wcmd[w]]] = w]
    /\ pc' = [pc EXCEPT ![w] = "ready"]
    /\ UNCHANGED <<rows, transport, wcmd, wtok, heartbeat>>

\* A checkpoint passes and the runner issues its next external call.
BeginEffect(w) ==
    /\ pc[w] = "ready"
    /\ Owns(wcmd[w], wtok[w])
    /\ pc' = [pc EXCEPT ![w] = "effect"]
    /\ UNCHANGED <<rows, transport, wcmd, wtok, heartbeat, lock>>

EndEffect(w) ==
    /\ pc[w] = "effect"
    /\ pc' = [pc EXCEPT ![w] = "ready"]
    /\ UNCHANGED <<rows, transport, wcmd, wtok, heartbeat, lock>>

\* A checkpoint raises ExecutionOwnershipError: the execution is discarded.
Discard(w) ==
    /\ pc[w] = "ready"
    /\ ~Owns(wcmd[w], wtok[w])
    /\ Leave(w)
    /\ Unlock(w)
    /\ UNCHANGED <<rows, transport>>

\* The runner returned and the deployment has the requested status.
MarkEffective(w) ==
    /\ pc[w] = "ready"
    /\ Owns(wcmd[w], wtok[w])
    /\ status' = [status EXCEPT ![wcmd[w]] = "EFFECTIVE"]
    /\ retryable' = [retryable EXCEPT ![wcmd[w]] = FALSE]
    /\ lease' = [lease EXCEPT ![wcmd[w]] = 0]
    /\ token' = [token EXCEPT ![wcmd[w]] = NoToken]
    /\ Leave(w)
    /\ Unlock(w)
    /\ UNCHANGED <<wait, transport>>

\* The lock's session, the runner or the verification raises: the exception
\* leaves the advisory lock's block before mark_failed runs.
Fail(w) ==
    /\ pc[w] \in {"locking", "ready", "effect"}
    /\ pc' = [pc EXCEPT ![w] = "failing"]
    /\ Unlock(w)
    /\ UNCHANGED <<rows, transport, wcmd, wtok, heartbeat>>

\* mark_failed, or its discarded stale failure.
MarkFailed(w, again, delay) ==
    /\ pc[w] = "failing"
    /\ IF Owns(wcmd[w], wtok[w])
         THEN ApplyFailure(wcmd[w], again, delay)
         ELSE UNCHANGED rows
    /\ Leave(w)
    /\ UNCHANGED <<transport, lock>>

-----------------------------------------------------------------------------
(* The heartbeat of an execution. *)

RenewBegin(w) ==
    /\ pc[w] \in Executing
    /\ renewal[w] = "none"
    /\ renewal' = [renewal EXCEPT ![w] = "sent"]
    /\ renewalLeft' = [renewalLeft EXCEPT ![w] = ExecutionLease]
    /\ UNCHANGED <<rows, transport, pc, wcmd, wtok, left, lock>>

RenewCommit(w) ==
    /\ renewal[w] = "sent"
    /\ Owns(wcmd[w], wtok[w])
    /\ lease' = [lease EXCEPT ![wcmd[w]] = ExecutionLease]
    /\ wait' = [wait EXCEPT ![wcmd[w]] = ExecutionLease]
    /\ renewal' = [renewal EXCEPT ![w] = "committed"]
    /\ UNCHANGED <<status, retryable, token, transport, pc, wcmd, wtok, left,
                   renewalLeft, lock>>

\* Faulty variant: the new deadline is counted from the arrival of the reply.
RenewConfirm_FromReply(w) ==
    /\ renewal[w] = "committed"
    /\ left' = [left EXCEPT ![w] = ExecutionLease]
    /\ renewal' = [renewal EXCEPT ![w] = "none"]
    /\ renewalLeft' = [renewalLeft EXCEPT ![w] = 0]
    /\ UNCHANGED <<rows, transport, pc, wcmd, wtok, lock>>

\* The reply arrives: the deadline is counted from before the request was sent.
RenewConfirm(w) ==
    /\ renewal[w] = "committed"
    /\ left' = [left EXCEPT ![w] = renewalLeft[w]]
    /\ renewal' = [renewal EXCEPT ![w] = "none"]
    /\ renewalLeft' = [renewalLeft EXCEPT ![w] = 0]
    /\ UNCHANGED <<rows, transport, pc, wcmd, wtok, lock>>

\* The renewal times out or raises, before or after it committed.
RenewError(w) ==
    /\ renewal[w] # "none"
    /\ renewal' = [renewal EXCEPT ![w] = "none"]
    /\ renewalLeft' = [renewalLeft EXCEPT ![w] = 0]
    /\ UNCHANGED <<rows, transport, pc, wcmd, wtok, left, lock>>

\* The confirmed deadline passes, or a renewal reports LOST: the owner task is
\* cancelled.  Cancellation unwinds the advisory lock at once; a Docker call in
\* flight keeps its thread.
LoseOwnership(w) ==
    /\ pc[w] \in Executing
    /\ \/ left[w] = 0
       \/ renewal[w] = "sent" /\ ~Owns(wcmd[w], wtok[w])
    /\ IF pc[w] = "effect"
         THEN /\ pc' = [pc EXCEPT ![w] = "draining"]
              /\ renewal' = [renewal EXCEPT ![w] = "none"]
              /\ renewalLeft' = [renewalLeft EXCEPT ![w] = 0]
              /\ left' = [left EXCEPT ![w] = 0]
              /\ UNCHANGED <<wcmd, wtok>>
         ELSE Leave(w)
    /\ Unlock(w)
    /\ UNCHANGED <<rows, transport>>

\* The thread of the abandoned call returns and the job's process ends.
Drain(w) ==
    /\ pc[w] = "draining"
    /\ Leave(w)
    /\ UNCHANGED <<rows, transport, lock>>

WorkerCrash(w) ==
    /\ pc[w] # "idle"
    /\ Leave(w)
    /\ Unlock(w)
    /\ UNCHANGED <<rows, transport>>

-----------------------------------------------------------------------------

Elapse(timer, S) == [x \in S |-> IF timer[x] = 0 THEN 0 ELSE timer[x] - 1]

Tick ==
    /\ wait' = Elapse(wait, Command)
    /\ lease' = Elapse(lease, Command)
    /\ left' = Elapse(left, Worker)
    /\ renewalLeft' = Elapse(renewalLeft, Worker)
    /\ UNCHANGED <<status, retryable, token, transport, pc, wcmd, wtok, renewal, lock>>

DispatcherNext ==
    \/ \E S \in SUBSET Command : \E f \in [S -> Token \ UsedTokens] : ClaimDue(S, f)
    \/ \E o \in outbox : Enqueue(o)
    \/ \E o \in outbox : EnqueueReturns(o)
    \/ \E o \in outbox : EnqueueFails(o)
    \/ \E o \in outbox : DispatcherCrash(o)

WorkerNext(w) ==
    \/ \E m \in queue, kept \in BOOLEAN : Deliver(w, m, kept)
    \/ ClaimForExecution(w)
    \/ RejectDelivery(w)
    \/ AcquireLock(w)
    \/ BeginEffect(w)
    \/ EndEffect(w)
    \/ Discard(w)
    \/ MarkEffective(w)
    \/ Fail(w)
    \/ \E again \in BOOLEAN, delay \in RetryDelays : MarkFailed(w, again, delay)
    \/ RenewBegin(w)
    \/ RenewCommit(w)
    \/ RenewConfirm(w)
    \/ RenewError(w)
    \/ LoseOwnership(w)
    \/ Drain(w)
    \/ WorkerCrash(w)

Next ==
    \/ \E t \in Transition : Create(t)
    \/ DispatcherNext
    \/ \E m \in queue : LoseMessage(m)
    \/ \E w \in Worker : WorkerNext(w)
    \/ Tick

Spec == Init /\ [][Next]_vars

(***************************************************************************)
(* Fairness.  Clocks advance and every process keeps taking the steps that *)
(* are open to it; the runner issues finitely many effects, so a worker    *)
(* that is again and again between two effects finishes (strong fairness). *)
(* Faults - crashes, lost or repeated messages, refused enqueues, runner   *)
(* errors, a lease that runs out before its holder acts - may occur any    *)
(* number of times, but not for ever (FaultsEnd).                          *)
(***************************************************************************)
LeaseRunsOut == \E c \in Command : lease[c] = 1 /\ lease'[c] = 0 /\ status'[c] = status[c]

Fault ==
    \/ \E o \in outbox : DispatcherCrash(o) \/ EnqueueFails(o)
    \/ \E m \in queue : LoseMessage(m) \/ \E w \in Worker : Deliver(w, m, TRUE)
    \/ \E w \in Worker : WorkerCrash(w) \/ Fail(w)
    \/ LeaseRunsOut

FaultsEnd == <>[][~Fault]_vars

Fairness ==
    /\ WF_vars(Tick)
    /\ \A c \in Command :
        /\ WF_vars(\E S \in SUBSET Command : \E f \in [S -> Token \ UsedTokens] :
                       c \in S /\ ClaimDue(S, f))
        /\ WF_vars(\E o \in outbox : o[1] = c /\ (Enqueue(o) \/ EnqueueReturns(o)))
    /\ \A w \in Worker :
        /\ WF_vars(\E m \in queue : Deliver(w, m, FALSE))
        /\ WF_vars(ClaimForExecution(w) \/ RejectDelivery(w))
        /\ WF_vars(AcquireLock(w))
        /\ WF_vars(EndEffect(w))
        /\ SF_vars(MarkEffective(w))
        /\ WF_vars(Discard(w) \/ LoseOwnership(w) \/ Drain(w))
        /\ WF_vars(\E again \in BOOLEAN, delay \in RetryDelays : MarkFailed(w, again, delay))

LiveSpec == Spec /\ Fairness /\ FaultsEnd

-----------------------------------------------------------------------------
(* Properties. *)

\* A worker that executes a command and whose confirmed deadline has not passed.
Believes(w) == pc[w] \in Executing /\ left[w] > 0

\* A command that took effect or failed for good.
Settled(c) == status[c] = "EFFECTIVE" \/ (status[c] = "FAILED" /\ ~retryable[c])

\* A worker that may still believe it owns its command does own it in the
\* database, for at least as long: the row is RUNNING under its token and the
\* lease outlasts the deadline the heartbeat computed from its own clock
\* (command_executor.py, confirmed_deadline), whatever the delay of a claim or
\* of a renewal's reply.
LeaseCoversBelief ==
    \A w \in Worker : Believes(w) =>
        Owns(wcmd[w], wtok[w]) /\ lease[wcmd[w]] >= left[w]

\* A command is leased, running or effective only when every earlier command of
\* its transition is effective: a redeploy never overtakes the stop it follows.
TransitionOrder ==
    \A c \in Command :
        status[c] \in {"DISPATCHED", "RUNNING", "EFFECTIVE"} => PredecessorsEffective(c)

\* However often the queue delivers a message, one claim at most turns its token
\* into an execution, also after the first execution was cut off.
OneExecutionPerToken ==
    \A v, w \in Worker :
        /\ v # w
        /\ wcmd[v] = wcmd[w]
        /\ pc[v] \in Executing \cup {"draining"}
        /\ pc[w] \in Executing \cup {"draining"}
        => wtok[v] # wtok[w]

\* Two executions that were not cancelled never have an external call in flight
\* for the same project at once, even if one of them is stale.
EffectsSerialized ==
    \A v, w \in Worker :
        v # w /\ pc[v] = "effect" /\ pc[w] = "effect"
            => ProjectOf[wcmd[v]] # ProjectOf[wcmd[w]]

\* Every requested command settles, or an earlier command of its transition has
\* failed for good: no crash, lost message or expired lease strands a row.
CommandSettles ==
    \A c \in Command :
        (status[c] # "ABSENT") ~>
            \/ Settled(c)
            \/ \E p \in Command : /\ TransitionOf[p] = TransitionOf[c] /\ p < c
                                  /\ status[p] = "FAILED" /\ ~retryable[p]

\* A command that took effect, or failed for good, is never attempted again.
SettledIsFinal ==
    [][\A c \in Command : Settled(c) => status'[c] = status[c] /\ ~retryable'[c]]_vars

-----------------------------------------------------------------------------
(* The parts of the inductive invariant behind the safety properties. *)

\* A claim or a renewal never promises more than one execution lease.
DeadlinesBounded ==
    \A w \in Worker : left[w] <= ExecutionLease /\ renewalLeft[w] <= ExecutionLease

\* A renewal belongs to an execution; once committed, its lease covers the
\* deadline the reply will set.
RenewalsCovered ==
    \A w \in Worker :
        /\ renewal[w] # "none" => pc[w] \in Executing
        /\ renewal[w] = "committed" /\ renewalLeft[w] > 0 =>
               Owns(wcmd[w], wtok[w]) /\ lease[wcmd[w]] >= renewalLeft[w]

\* A token that became an execution is not waiting to be claimed.
ClaimedTokensSpent ==
    \A w \in Worker :
        pc[w] \in Executing \cup {"draining"} =>
            ~(status[wcmd[w]] = "DISPATCHED" /\ token[wcmd[w]] = wtok[w])

\* A worker between its lock's acquisition and release holds the lock.
LockHeld ==
    \A w \in Worker : pc[w] \in {"ready", "effect"} => lock[ProjectOf[wcmd[w]]] = w

\* mark_effective clears retryable, so an effective row is never due.
EffectiveNotRetryable ==
    \A c \in Command : status[c] = "EFFECTIVE" => ~retryable[c]

IInv ==
    /\ TypeOK
    /\ EffectiveNotRetryable
    /\ TransitionOrder
    /\ DeadlinesBounded
    /\ LeaseCoversBelief
    /\ RenewalsCovered
    /\ ClaimedTokensSpent
    /\ OneExecutionPerToken
    /\ LockHeld
=============================================================================
