----------------------- MODULE RuntimeCommandsProofs -----------------------
(***************************************************************************)
(* Proofs that RuntimeCommands keeps its inductive invariant IInv, for any *)
(* number of commands, workers and tokens and for any leases and delays.   *)
(***************************************************************************)
EXTENDS RuntimeCommands, TLAPS

\* One unit of time leaves every timer a natural number.
LEMMA ElapseType ==
  ASSUME NEW S, NEW timer \in [S -> Nat]
  PROVE  Elapse(timer, S) \in [S -> Nat]
<1>1. \A x \in S : (IF timer[x] = 0 THEN 0 ELSE timer[x] - 1) \in Nat
  OBVIOUS
<1>2. QED
  BY <1>1 DEF Elapse

USE CommandAssumption, IdentityAssumption, TimingAssumption

\* The empty command table satisfies the inductive invariant.
LEMMA InitIInv == Init => IInv
  BY DEF Init, IInv, TypeOK, EffectiveNotRetryable, TransitionOrder, DeadlinesBounded, LeaseCoversBelief,
         RenewalsCovered, ClaimedTokensSpent, OneExecutionPerToken, LockHeld,
         Believes, Executing, PC, Status, Message, PredecessorsEffective, Owns

\* No step of the dispatcher, the queue, a worker or the clock leaves the types.
LEMMA TypeStep == TypeOK /\ [Next]_vars => TypeOK'
<1> SUFFICES ASSUME TypeOK, [Next]_vars PROVE TypeOK'
  OBVIOUS
<1> USE DEF TypeOK, Status, PC, Executing, Message, rows, transport, heartbeat, workers
<1>1. ASSUME NEW t \in Transition, Create(t) PROVE TypeOK'
  BY <1>1 DEF Create
<1>2. ASSUME NEW S \in SUBSET Command, NEW f \in [S -> Token \ UsedTokens], ClaimDue(S, f)
      PROVE TypeOK'
  <2>1. status' \in [Command -> Status] /\ token' \in [Command -> Token \cup {NoToken}]
    BY <1>2 DEF ClaimDue
  <2>2. lease' \in [Command -> Nat] /\ wait' \in [Command -> Nat]
    BY <1>2 DEF ClaimDue
  <2>3. outbox' \in SUBSET (Command \X Token \X {"claimed", "sent"})
    BY <1>2 DEF ClaimDue
  <2>4. QED
    BY <1>2, <2>1, <2>2, <2>3 DEF ClaimDue
<1>3. ASSUME NEW o \in outbox, Enqueue(o) PROVE TypeOK'
  <2>1. o[1] \in Command /\ o[2] \in Token
    OBVIOUS
  <2>2. queue' \in SUBSET Message
    BY <1>3, <2>1 DEF Enqueue
  <2>3. outbox' \in SUBSET (Command \X Token \X {"claimed", "sent"})
    BY <1>3, <2>1 DEF Enqueue
  <2>4. QED
    BY <1>3, <2>2, <2>3 DEF Enqueue
<1>3a. ASSUME NEW o \in outbox, EnqueueReturns(o) PROVE TypeOK'
  BY <1>3a DEF EnqueueReturns
<1>4. ASSUME NEW o \in outbox, EnqueueFails(o) PROVE TypeOK'
  <2>1. o[1] \in Command /\ o[2] \in Token
    OBVIOUS
  <2>2. queue' \in SUBSET Message /\ outbox' \in SUBSET (Command \X Token \X {"claimed", "sent"})
    BY <1>4, <2>1 DEF EnqueueFails
  <2>3. /\ status' \in [Command -> Status] /\ retryable' \in [Command -> BOOLEAN]
        /\ wait' \in [Command -> Nat] /\ lease' \in [Command -> Nat]
        /\ token' \in [Command -> Token \cup {NoToken}]
    <3>1. CASE ApplyFailure(o[1], TRUE, DispatchRetry)
      BY <3>1, <2>1 DEF ApplyFailure
    <3>2. CASE UNCHANGED rows
      BY <3>2
    <3>3. QED
      BY <1>4, <3>1, <3>2 DEF EnqueueFails
  <2>4. QED
    BY <1>4, <2>2, <2>3 DEF EnqueueFails
<1>5. ASSUME NEW o \in outbox, DispatcherCrash(o) PROVE TypeOK'
  BY <1>5 DEF DispatcherCrash
<1>6. ASSUME NEW m \in queue, LoseMessage(m) PROVE TypeOK'
  BY <1>6 DEF LoseMessage
<1>7. ASSUME NEW w \in Worker, NEW m \in queue, NEW kept \in BOOLEAN, Deliver(w, m, kept)
      PROVE TypeOK'
  BY <1>7 DEF Deliver
<1>8. ASSUME NEW w \in Worker, ClaimForExecution(w) PROVE TypeOK'
  BY <1>8 DEF ClaimForExecution
<1>9. ASSUME NEW w \in Worker, RejectDelivery(w) PROVE TypeOK'
  BY <1>9 DEF RejectDelivery, Leave
<1>10. ASSUME NEW w \in Worker, AcquireLock(w) PROVE TypeOK'
  BY <1>10 DEF AcquireLock
<1>11. ASSUME NEW w \in Worker, BeginEffect(w) \/ EndEffect(w) PROVE TypeOK'
  BY <1>11 DEF BeginEffect, EndEffect
<1>12. ASSUME NEW w \in Worker, Discard(w) PROVE TypeOK'
  BY <1>12 DEF Discard, Leave, Unlock
<1>13. ASSUME NEW w \in Worker, MarkEffective(w) PROVE TypeOK'
  BY <1>13 DEF MarkEffective, Leave, Unlock
<1>14. ASSUME NEW w \in Worker, Fail(w) PROVE TypeOK'
  BY <1>14 DEF Fail, Unlock
<1>15. ASSUME NEW w \in Worker, NEW again \in BOOLEAN, NEW delay \in RetryDelays,
              MarkFailed(w, again, delay)
       PROVE TypeOK'
  BY <1>15 DEF MarkFailed, ApplyFailure, Leave
<1>16. ASSUME NEW w \in Worker, RenewBegin(w) \/ RenewConfirm(w) \/ RenewError(w) PROVE TypeOK'
  BY <1>16 DEF RenewBegin, RenewConfirm, RenewError
<1>17. ASSUME NEW w \in Worker, RenewCommit(w) PROVE TypeOK'
  <2>1. lease' \in [Command -> Nat] /\ wait' \in [Command -> Nat]
    BY <1>17 DEF RenewCommit
  <2>2. QED
    BY <1>17, <2>1 DEF RenewCommit
<1>18. ASSUME NEW w \in Worker, LoseOwnership(w) PROVE TypeOK'
  <2>1. lock' \in [Project -> Worker \cup {NoWorker}]
    BY <1>18 DEF LoseOwnership, Unlock
  <2>2. CASE Leave(w)
    BY <1>18, <2>1, <2>2 DEF LoseOwnership, Leave
  <2>3. CASE pc[w] = "effect" /\ ~Leave(w)
    BY <1>18, <2>1, <2>3 DEF LoseOwnership
  <2>4. QED
    BY <1>18, <2>2, <2>3 DEF LoseOwnership
<1>19. ASSUME NEW w \in Worker, Drain(w) PROVE TypeOK'
  BY <1>19 DEF Drain, Leave
<1>20. ASSUME NEW w \in Worker, WorkerCrash(w) PROVE TypeOK'
  BY <1>20 DEF WorkerCrash, Leave, Unlock
<1>21. CASE Tick
  <2>1. wait' \in [Command -> Nat]
    BY <1>21, ElapseType DEF Tick
  <2>2. lease' \in [Command -> Nat]
    BY <1>21, ElapseType DEF Tick
  <2>3. left' \in [Worker -> Nat]
    BY <1>21, ElapseType DEF Tick
  <2>4. renewalLeft' \in [Worker -> Nat]
    BY <1>21, ElapseType DEF Tick
  <2>5. QED
    BY <1>21, <2>1, <2>2, <2>3, <2>4 DEF Tick
<1>22. CASE UNCHANGED vars
  BY <1>22 DEF vars
<1> HIDE DEF TypeOK, Status, PC, Executing, Message, rows, transport, heartbeat, workers
<1>23. QED
  BY <1>1, <1>2, <1>3, <1>3a, <1>4, <1>5, <1>6, <1>7, <1>8, <1>9, <1>10, <1>11, <1>12, <1>13,
     <1>14, <1>15, <1>16, <1>17, <1>18, <1>19, <1>20, <1>21, <1>22
     DEF Next, DispatcherNext, WorkerNext

-----------------------------------------------------------------------------
(* What a step can do to the command rows. *)

\* Eight kinds of step write command rows; every other step leaves them alone.
LEMMA RowStep ==
  ASSUME [Next]_vars
  PROVE  \/ UNCHANGED rows
         \/ \E t \in Transition : Create(t)
         \/ \E S \in SUBSET Command : \E f \in [S -> Token \ UsedTokens] : ClaimDue(S, f)
         \/ \E o \in outbox : EnqueueFails(o)
         \/ \E w \in Worker : ClaimForExecution(w) \/ MarkEffective(w) \/ RenewCommit(w)
         \/ \E w \in Worker, again \in BOOLEAN, delay \in RetryDelays :
                MarkFailed(w, again, delay)
         \/ Tick
  BY DEF Next, DispatcherNext, WorkerNext, vars, Enqueue, EnqueueReturns, DispatcherCrash, LoseMessage,
         Deliver, RejectDelivery, AcquireLock, BeginEffect, EndEffect, Discard, Fail,
         RenewBegin, RenewConfirm, RenewError, LoseOwnership, Drain, WorkerCrash

\* A command that took effect stays effective.
LEMMA EffectivePersists ==
  ASSUME TypeOK, [Next]_vars, NEW c \in Command, status[c] = "EFFECTIVE"
  PROVE  status'[c] = "EFFECTIVE"
<1> USE DEF TypeOK, rows
<1>1. CASE UNCHANGED rows
  BY <1>1
<1>2. ASSUME NEW t \in Transition, Create(t) PROVE status'[c] = "EFFECTIVE"
  BY <1>2 DEF Create
<1>3. ASSUME NEW S \in SUBSET Command, NEW f \in [S -> Token \ UsedTokens], ClaimDue(S, f)
      PROVE  status'[c] = "EFFECTIVE"
  BY <1>3 DEF ClaimDue, Due
<1>4. ASSUME NEW o \in outbox, EnqueueFails(o)
      PROVE  status'[c] = "EFFECTIVE"
  BY <1>4 DEF EnqueueFails, ApplyFailure
<1>5. ASSUME NEW w \in Worker, ClaimForExecution(w) \/ MarkEffective(w) \/ RenewCommit(w)
      PROVE  status'[c] = "EFFECTIVE"
  BY <1>5 DEF ClaimForExecution, Claimable, MarkEffective, RenewCommit
<1>6. ASSUME NEW w \in Worker, NEW again \in BOOLEAN, NEW delay \in RetryDelays,
             MarkFailed(w, again, delay)
      PROVE  status'[c] = "EFFECTIVE"
  BY <1>6 DEF MarkFailed, Owns, ApplyFailure
<1>7. CASE Tick
  BY <1>7 DEF Tick
<1> HIDE DEF TypeOK, rows
<1>8. QED
  BY RowStep, <1>1, <1>2, <1>3, <1>4, <1>5, <1>6, <1>7

\* A command whose predecessors are all effective keeps them effective.
LEMMA PredecessorsPersist ==
  ASSUME TypeOK, [Next]_vars, NEW c \in Command, PredecessorsEffective(c)
  PROVE  PredecessorsEffective(c)'
  BY EffectivePersists DEF PredecessorsEffective

\* A row gets a lease or becomes effective only from a leased row, or by being
\* selected as due.
LEMMA NewlyLeased ==
  ASSUME TypeOK, [Next]_vars, NEW c \in Command,
         status'[c] \in {"DISPATCHED", "RUNNING", "EFFECTIVE"}
  PROVE  status[c] \in {"DISPATCHED", "RUNNING", "EFFECTIVE"} \/ c \in Due
<1> DEFINE Goal == status[c] \in {"DISPATCHED", "RUNNING", "EFFECTIVE"} \/ c \in Due
<1> USE DEF TypeOK, rows
<1>1. CASE UNCHANGED rows
  BY <1>1
<1>2. ASSUME NEW t \in Transition, Create(t) PROVE Goal
  BY <1>2 DEF Create
<1>3. ASSUME NEW S \in SUBSET Command, NEW f \in [S -> Token \ UsedTokens], ClaimDue(S, f)
      PROVE  Goal
  BY <1>3 DEF ClaimDue
<1>4. ASSUME NEW o \in outbox, EnqueueFails(o)
      PROVE  Goal
  BY <1>4 DEF EnqueueFails, ApplyFailure
<1>5. ASSUME NEW w \in Worker, ClaimForExecution(w) \/ MarkEffective(w) \/ RenewCommit(w)
      PROVE  Goal
  BY <1>5 DEF ClaimForExecution, Claimable, MarkEffective, RenewCommit, Owns
<1>6. ASSUME NEW w \in Worker, NEW again \in BOOLEAN, NEW delay \in RetryDelays,
             MarkFailed(w, again, delay)
      PROVE  Goal
  BY <1>6 DEF MarkFailed, Owns, ApplyFailure
<1>7. CASE Tick
  BY <1>7 DEF Tick
<1> HIDE DEF TypeOK, rows
<1>8. QED
  BY RowStep, <1>1, <1>2, <1>3, <1>4, <1>5, <1>6, <1>7

\* A step leaves a row that is not retryable alone, or makes it effective or
\* failed from RUNNING.
LEMMA SettledStep ==
  ASSUME TypeOK, EffectiveNotRetryable, [Next]_vars
  PROVE  /\ EffectiveNotRetryable'
         /\ \A c \in Command : Settled(c) => status'[c] = status[c] /\ ~retryable'[c]
<1> SUFFICES ASSUME NEW c \in Command
             PROVE  /\ status'[c] = "EFFECTIVE" => ~retryable'[c]
                    /\ Settled(c) => status'[c] = status[c] /\ ~retryable'[c]
  BY DEF EffectiveNotRetryable
<1> DEFINE Goal == /\ status'[c] = "EFFECTIVE" => ~retryable'[c]
                   /\ Settled(c) => status'[c] = status[c] /\ ~retryable'[c]
<1> USE DEF TypeOK, EffectiveNotRetryable, Settled, rows
<1>1. CASE UNCHANGED rows
  BY <1>1
<1>2. ASSUME NEW t \in Transition, Create(t) PROVE Goal
  BY <1>2 DEF Create
<1>3. ASSUME NEW S \in SUBSET Command, NEW f \in [S -> Token \ UsedTokens], ClaimDue(S, f)
      PROVE  Goal
  BY <1>3 DEF ClaimDue, Due
<1>4. ASSUME NEW o \in outbox, EnqueueFails(o) PROVE Goal
  <2>1. CASE status[o[1]] = "DISPATCHED" /\ ApplyFailure(o[1], TRUE, DispatchRetry)
    BY <2>1 DEF ApplyFailure
  <2>2. QED
    BY <1>1, <1>4, <2>1 DEF EnqueueFails
<1>5. ASSUME NEW w \in Worker, ClaimForExecution(w) \/ MarkEffective(w) \/ RenewCommit(w)
      PROVE  Goal
  <2>1. CASE ClaimForExecution(w)
    BY <2>1 DEF ClaimForExecution, Claimable
  <2>2. CASE MarkEffective(w)
    BY <2>2 DEF MarkEffective, Owns
  <2>3. CASE RenewCommit(w)
    BY <2>3 DEF RenewCommit
  <2>4. QED
    BY <1>5, <2>1, <2>2, <2>3
<1>6. ASSUME NEW w \in Worker, NEW again \in BOOLEAN, NEW delay \in RetryDelays,
             MarkFailed(w, again, delay)
      PROVE  Goal
  <2>1. CASE Owns(wcmd[w], wtok[w]) /\ ApplyFailure(wcmd[w], again, delay)
    BY <2>1 DEF ApplyFailure, Owns
  <2>2. QED
    BY <1>1, <1>6, <2>1 DEF MarkFailed
<1>7. CASE Tick
  BY <1>7 DEF Tick
<1> HIDE DEF TypeOK, EffectiveNotRetryable, Settled, rows
<1>8. QED
  BY RowStep, <1>1, <1>2, <1>3, <1>4, <1>5, <1>6, <1>7

\* No step lets a command overtake its predecessors (TransitionOrder).
LEMMA TransitionStep ==
  ASSUME TypeOK, TransitionOrder, [Next]_vars
  PROVE  TransitionOrder'
<1> SUFFICES ASSUME NEW c \in Command, status'[c] \in {"DISPATCHED", "RUNNING", "EFFECTIVE"}
             PROVE  PredecessorsEffective(c)'
  BY DEF TransitionOrder
<1>1. PredecessorsEffective(c)
  BY NewlyLeased DEF TransitionOrder, Due
<1>2. QED
  BY <1>1, PredecessorsPersist

-----------------------------------------------------------------------------
(* What a step can do to a worker. *)

\* The worker's command, token and place are its own business; its timers move
\* with the clock.
Frame(w) ==
    /\ pc'[w] = pc[w] /\ wcmd'[w] = wcmd[w] /\ wtok'[w] = wtok[w]
    /\ renewal'[w] = renewal[w]
    /\ \/ left'[w] = left[w] /\ renewalLeft'[w] = renewalLeft[w]
       \/ Tick

\* A step leaves a worker alone, is a step of that worker, or is Tick.
LEMMA WorkerStep ==
  ASSUME TypeOK, [Next]_vars, NEW w \in Worker
  PROVE  WorkerNext(w) \/ Frame(w)
<1> USE DEF TypeOK, Frame, rows, transport, heartbeat, workers
<1>1. ASSUME NEW v \in Worker, v # w, WorkerNext(v) PROVE Frame(w)
  <2>1. ASSUME NEW m \in queue, NEW kept \in BOOLEAN, Deliver(v, m, kept) PROVE Frame(w)
    BY <1>1, <2>1 DEF Deliver
  <2>2. CASE ClaimForExecution(v) \/ AcquireLock(v) \/ BeginEffect(v) \/ EndEffect(v)
    BY <1>1, <2>2 DEF ClaimForExecution, AcquireLock, BeginEffect, EndEffect
  <2>3. CASE RejectDelivery(v) \/ Discard(v) \/ MarkEffective(v) \/ Drain(v) \/ WorkerCrash(v)
    BY <1>1, <2>3 DEF RejectDelivery, Discard, MarkEffective, Drain, WorkerCrash, Leave
  <2>4. CASE Fail(v) \/ RenewBegin(v) \/ RenewCommit(v) \/ RenewConfirm(v) \/ RenewError(v)
    BY <1>1, <2>4 DEF Fail, RenewBegin, RenewCommit, RenewConfirm, RenewError
  <2>5. ASSUME NEW again \in BOOLEAN, NEW delay \in RetryDelays, MarkFailed(v, again, delay)
        PROVE  Frame(w)
    BY <1>1, <2>5 DEF MarkFailed, Leave
  <2>6. CASE LoseOwnership(v)
    BY <1>1, <2>6 DEF LoseOwnership, Leave
  <2>7. QED
    BY <1>1, <2>1, <2>2, <2>3, <2>4, <2>5, <2>6 DEF WorkerNext
<1>2. CASE \E t \in Transition : Create(t)
  BY <1>2 DEF Create
<1>3. CASE DispatcherNext
  BY <1>3 DEF DispatcherNext, ClaimDue, Enqueue, EnqueueReturns, EnqueueFails, DispatcherCrash
<1>4. CASE \E m \in queue : LoseMessage(m)
  BY <1>4 DEF LoseMessage
<1>5. CASE Tick
  BY <1>5 DEF Tick
<1>6. CASE UNCHANGED vars
  BY <1>6 DEF vars
<1> HIDE DEF TypeOK, Frame, rows, transport, heartbeat, workers
<1>7. QED
  BY <1>1, <1>2, <1>3, <1>4, <1>5, <1>6 DEF Next

\* An execution starts only by a claim, and keeps its command and its token.
LEMMA ExecutionStep ==
  ASSUME TypeOK, [Next]_vars, NEW w \in Worker, pc'[w] \in Executing \cup {"draining"}
  PROVE  /\ wcmd'[w] = wcmd[w] /\ wtok'[w] = wtok[w]
         /\ \/ ClaimForExecution(w)
            \/ pc[w] \in Executing /\ pc'[w] \in Executing
            \/ pc[w] \in Executing \cup {"draining"} /\ pc'[w] = "draining"
<1> DEFINE Goal == /\ wcmd'[w] = wcmd[w] /\ wtok'[w] = wtok[w]
                   /\ \/ ClaimForExecution(w)
                      \/ pc[w] \in Executing /\ pc'[w] \in Executing
                      \/ pc[w] \in Executing \cup {"draining"} /\ pc'[w] = "draining"
<1> USE DEF TypeOK, Executing, rows, transport, heartbeat, workers
<1>1. CASE Frame(w)
  BY <1>1 DEF Frame
<1>2. ASSUME NEW m \in queue, NEW kept \in BOOLEAN, Deliver(w, m, kept) PROVE Goal
  BY <1>2 DEF Deliver
<1>3. CASE ClaimForExecution(w) \/ AcquireLock(w) \/ BeginEffect(w) \/ EndEffect(w)
  BY <1>3 DEF ClaimForExecution, AcquireLock, BeginEffect, EndEffect
<1>4. CASE RejectDelivery(w) \/ Discard(w) \/ MarkEffective(w) \/ Drain(w) \/ WorkerCrash(w)
  BY <1>4 DEF RejectDelivery, Discard, MarkEffective, Drain, WorkerCrash, Leave
<1>5. ASSUME NEW again \in BOOLEAN, NEW delay \in RetryDelays, MarkFailed(w, again, delay)
      PROVE  Goal
  BY <1>5 DEF MarkFailed, Leave
<1>6. CASE Fail(w)
  BY <1>6 DEF Fail
<1>7. CASE RenewBegin(w) \/ RenewError(w) \/ RenewCommit(w) \/ RenewConfirm(w)
  <2>1. pc' = pc /\ wcmd' = wcmd /\ wtok' = wtok
    BY <1>7 DEF RenewBegin, RenewError, RenewCommit, RenewConfirm
  <2>2. QED
    BY <2>1
<1>8. CASE LoseOwnership(w)
  BY <1>8 DEF LoseOwnership, Leave
<1> HIDE DEF TypeOK, Executing, rows, transport, heartbeat, workers
<1>9. QED
  BY WorkerStep, <1>1, <1>2, <1>3, <1>4, <1>5, <1>6, <1>7, <1>8 DEF WorkerNext

-----------------------------------------------------------------------------
(* Tokens: one execution each. *)

\* A token that became an execution is not claimable afterwards (ClaimedTokensSpent).
LEMMA SpentStep ==
  ASSUME TypeOK, ClaimedTokensSpent, [Next]_vars
  PROVE  ClaimedTokensSpent'
<1> SUFFICES ASSUME NEW w \in Worker, pc'[w] \in Executing \cup {"draining"},
                    status'[wcmd'[w]] = "DISPATCHED", token'[wcmd'[w]] = wtok'[w]
             PROVE  FALSE
  BY DEF ClaimedTokensSpent
<1> DEFINE c == wcmd[w]
<1>1. wcmd'[w] = c /\ wtok'[w] = wtok[w]
  BY ExecutionStep
<1>2. pc[w] # "idle" /\ c \in Command /\ wtok[w] \in Token
  BY ExecutionStep DEF TypeOK, Executing, ClaimForExecution
<1>3. ~ClaimForExecution(w)
  BY <1>1, <1>2 DEF ClaimForExecution, TypeOK
<1>4. ~(status[c] = "DISPATCHED" /\ token[c] = wtok[w])
  BY <1>3, ExecutionStep DEF ClaimedTokensSpent
<1>5. wtok[w] \in UsedTokens
  BY DEF UsedTokens
<1> USE <1>1, <1>2, <1>4, <1>5 DEF TypeOK, rows
<1>6. CASE UNCHANGED rows
  BY <1>6
<1>7. ASSUME NEW t \in Transition, Create(t) PROVE FALSE
  BY <1>7 DEF Create
<1>8. ASSUME NEW S \in SUBSET Command, NEW f \in [S -> Token \ UsedTokens], ClaimDue(S, f)
      PROVE  FALSE
  BY <1>8 DEF ClaimDue
<1>9. ASSUME NEW o \in outbox, EnqueueFails(o) PROVE FALSE
  <2>1. o[1] \in Command
    OBVIOUS
  <2>2. CASE ApplyFailure(o[1], TRUE, DispatchRetry)
    BY <2>1, <2>2 DEF ApplyFailure
  <2>3. QED
    BY <1>6, <1>9, <2>2 DEF EnqueueFails
<1>10. ASSUME NEW v \in Worker, ClaimForExecution(v) \/ MarkEffective(v) \/ RenewCommit(v)
       PROVE  FALSE
  <2>1. CASE ClaimForExecution(v)
    BY <2>1 DEF ClaimForExecution
  <2>2. CASE MarkEffective(v)
    BY <2>2 DEF MarkEffective
  <2>3. CASE RenewCommit(v)
    BY <2>3 DEF RenewCommit
  <2>4. QED
    BY <1>10, <2>1, <2>2, <2>3
<1>11. ASSUME NEW v \in Worker, NEW again \in BOOLEAN, NEW delay \in RetryDelays,
              MarkFailed(v, again, delay)
       PROVE  FALSE
  <2>1. CASE ApplyFailure(wcmd[v], again, delay)
    BY <2>1, <1>11 DEF MarkFailed, ApplyFailure
  <2>2. QED
    BY <1>6, <1>11, <2>1 DEF MarkFailed
<1>12. CASE Tick
  BY <1>12 DEF Tick
<1> HIDE <1>1, <1>2, <1>4, <1>5 DEF TypeOK, rows
<1>13. QED
  BY RowStep, <1>6, <1>7, <1>8, <1>9, <1>10, <1>11, <1>12

\* No step gives one token a second execution (OneExecutionPerToken).
LEMMA OneExecutionStep ==
  ASSUME TypeOK, ClaimedTokensSpent, OneExecutionPerToken, [Next]_vars
  PROVE  OneExecutionPerToken'
<1> SUFFICES ASSUME NEW v \in Worker, NEW w \in Worker, v # w, wcmd'[v] = wcmd'[w],
                    pc'[v] \in Executing \cup {"draining"},
                    pc'[w] \in Executing \cup {"draining"}
             PROVE  wtok'[v] # wtok'[w]
  BY DEF OneExecutionPerToken
<1> DEFINE Live(u) == pc[u] \in Executing \cup {"draining"}
<1>1. /\ wcmd'[v] = wcmd[v] /\ wtok'[v] = wtok[v] /\ (ClaimForExecution(v) \/ Live(v))
      /\ wcmd'[w] = wcmd[w] /\ wtok'[w] = wtok[w] /\ (ClaimForExecution(w) \/ Live(w))
  BY ExecutionStep
<1>2. CASE Live(v) /\ Live(w)
  BY <1>1, <1>2 DEF OneExecutionPerToken
<1>3. ASSUME NEW u \in Worker, NEW x \in Worker, u # x, ClaimForExecution(u),
             pc'[x] \in Executing \cup {"draining"}, ClaimForExecution(x) \/ Live(x),
             wcmd[u] = wcmd[x]
      PROVE  wtok[u] # wtok[x]
  <2>1. pc'[x] = pc[x]
    BY <1>3 DEF ClaimForExecution, TypeOK
  <2>2. Live(x)
    BY <1>3, <2>1 DEF ClaimForExecution, Executing
  <2>3. QED
    BY <1>3, <2>2 DEF ClaimForExecution, Claimable, ClaimedTokensSpent
<1>4. QED
  BY <1>1, <1>2, <1>3

-----------------------------------------------------------------------------
(* The advisory lock. *)

\* A worker between two effects keeps its project's advisory lock (LockHeld).
LEMMA LockStep ==
  ASSUME TypeOK, LockHeld, [Next]_vars
  PROVE  LockHeld'
<1> SUFFICES ASSUME NEW w \in Worker, pc'[w] \in {"ready", "effect"}
             PROVE  lock'[ProjectOf[wcmd'[w]]] = w
  BY DEF LockHeld
<1> DEFINE p == ProjectOf[wcmd[w]]
           Goal == lock'[ProjectOf[wcmd'[w]]] = w
<1>1. wcmd'[w] = wcmd[w] /\ wcmd[w] \in Command /\ p \in Project
  BY ExecutionStep DEF Executing, TypeOK, ClaimForExecution
<1>2. AcquireLock(w) \/ pc[w] \in {"ready", "effect"}
  <2>1. CASE Frame(w)
    BY <2>1 DEF Frame
  <2>2. ASSUME NEW m \in queue, NEW kept \in BOOLEAN, Deliver(w, m, kept) PROVE FALSE
    BY <2>2 DEF Deliver, TypeOK
  <2>3. CASE ClaimForExecution(w) \/ AcquireLock(w) \/ BeginEffect(w) \/ EndEffect(w)
    BY <2>3 DEF ClaimForExecution, BeginEffect, EndEffect, TypeOK
  <2>4. CASE RejectDelivery(w) \/ Discard(w) \/ MarkEffective(w) \/ Drain(w) \/ WorkerCrash(w)
    BY <2>4 DEF RejectDelivery, Discard, MarkEffective, Drain, WorkerCrash, Leave, TypeOK
  <2>5. ASSUME NEW again \in BOOLEAN, NEW delay \in RetryDelays, MarkFailed(w, again, delay)
        PROVE  FALSE
    BY <2>5 DEF MarkFailed, Leave, TypeOK
  <2>6. CASE Fail(w) \/ LoseOwnership(w)
    BY <2>6 DEF Fail, LoseOwnership, Leave, TypeOK
  <2>7. CASE RenewBegin(w) \/ RenewError(w) \/ RenewCommit(w) \/ RenewConfirm(w)
    BY <2>7 DEF RenewBegin, RenewError, RenewCommit, RenewConfirm
  <2>8. QED
    BY WorkerStep, <2>1, <2>2, <2>3, <2>4, <2>5, <2>6, <2>7 DEF WorkerNext
<1>3. CASE AcquireLock(w)
  BY <1>1, <1>3 DEF AcquireLock, TypeOK
<1>4. CASE pc[w] \in {"ready", "effect"}
  <2>1. lock[p] = w
    BY <1>1, <1>4 DEF LockHeld
  <2>2. CASE UNCHANGED lock
    BY <1>1, <2>1, <2>2
  <2>3. ASSUME NEW v \in Worker, AcquireLock(v) PROVE Goal
    BY <1>1, <2>1, <2>3 DEF AcquireLock, TypeOK
  <2>4. ASSUME NEW v \in Worker, Unlock(v), pc'[v] \notin {"ready", "effect"} PROVE Goal
    BY <1>1, <2>1, <2>4 DEF Unlock, TypeOK
  <2>5. ASSUME NEW v \in Worker, WorkerNext(v)
        PROVE  UNCHANGED lock \/ AcquireLock(v) \/ (Unlock(v) /\ pc'[v] \notin {"ready", "effect"})
    <3>1. ASSUME Discard(v) \/ MarkEffective(v) \/ WorkerCrash(v)
          PROVE  Unlock(v) /\ pc'[v] \notin {"ready", "effect"}
      BY <3>1 DEF Discard, MarkEffective, WorkerCrash, Leave, TypeOK
    <3>2. ASSUME Fail(v) PROVE Unlock(v) /\ pc'[v] \notin {"ready", "effect"}
      BY <3>2 DEF Fail, TypeOK
    <3>3. ASSUME LoseOwnership(v) PROVE Unlock(v) /\ pc'[v] \notin {"ready", "effect"}
      BY <3>3 DEF LoseOwnership, Leave, TypeOK
    <3>4. QED
      BY <2>5, <3>1, <3>2, <3>3
         DEF WorkerNext, Deliver, ClaimForExecution, RejectDelivery, BeginEffect, EndEffect,
             MarkFailed, RenewBegin, RenewCommit, RenewConfirm, RenewError, Drain
  <2>6. UNCHANGED lock \/ \E v \in Worker : WorkerNext(v)
    BY DEF Next, DispatcherNext, vars, Create, ClaimDue, Enqueue, EnqueueReturns, EnqueueFails,
           DispatcherCrash, LoseMessage, Tick
  <2>7. QED
    BY <2>2, <2>3, <2>4, <2>5, <2>6
<1>5. QED
  BY <1>2, <1>3, <1>4

-----------------------------------------------------------------------------
(* Leases and deadlines. *)

\* How a worker's own deadline and its pending renewal change in one step.
LEMMA TimerStep ==
  ASSUME TypeOK, [Next]_vars, NEW w \in Worker
  PROVE  /\ \/ left'[w] \in {left[w], 0, ExecutionLease}
            \/ Tick /\ left'[w] = (IF left[w] = 0 THEN 0 ELSE left[w] - 1)
            \/ RenewConfirm(w) /\ left'[w] = renewalLeft[w]
         /\ \/ renewalLeft'[w] \in {renewalLeft[w], 0, ExecutionLease}
            \/ Tick /\ renewalLeft'[w] = (IF renewalLeft[w] = 0 THEN 0 ELSE renewalLeft[w] - 1)
         /\ left'[w] \notin {0, left[w]} => Tick \/ pc'[w] = "claiming" \/ RenewConfirm(w)
<1> DEFINE Goal ==
         /\ \/ left'[w] \in {left[w], 0, ExecutionLease}
            \/ Tick /\ left'[w] = (IF left[w] = 0 THEN 0 ELSE left[w] - 1)
            \/ RenewConfirm(w) /\ left'[w] = renewalLeft[w]
         /\ \/ renewalLeft'[w] \in {renewalLeft[w], 0, ExecutionLease}
            \/ Tick /\ renewalLeft'[w] = (IF renewalLeft[w] = 0 THEN 0 ELSE renewalLeft[w] - 1)
         /\ left'[w] \notin {0, left[w]} => Tick \/ pc'[w] = "claiming" \/ RenewConfirm(w)
<1> USE DEF TypeOK, heartbeat
<1>1. CASE Frame(w)
  <2>1. CASE Tick
    BY <2>1 DEF Tick, Elapse
  <2>2. QED
    BY <1>1, <2>1 DEF Frame
<1>2. ASSUME NEW m \in queue, NEW kept \in BOOLEAN, Deliver(w, m, kept) PROVE Goal
  BY <1>2 DEF Deliver
<1>3. CASE ClaimForExecution(w) \/ AcquireLock(w) \/ BeginEffect(w) \/ EndEffect(w) \/ Fail(w)
  BY <1>3 DEF ClaimForExecution, AcquireLock, BeginEffect, EndEffect, Fail
<1>4. CASE Leave(w)
  BY <1>4 DEF Leave
<1>5. CASE RenewBegin(w) \/ RenewError(w)
  BY <1>5 DEF RenewBegin, RenewError
<1>6. CASE RenewCommit(w)
  BY <1>6 DEF RenewCommit
<1>7. CASE RenewConfirm(w)
  BY <1>7 DEF RenewConfirm
<1>8. CASE LoseOwnership(w)
  <2>1. left'[w] = 0 /\ renewalLeft'[w] = 0
    BY <1>8 DEF LoseOwnership, Leave
  <2>2. QED
    BY <2>1
<1> HIDE DEF TypeOK, heartbeat
<1>9. QED
  BY WorkerStep, <1>1, <1>2, <1>3, <1>4, <1>5, <1>6, <1>7, <1>8
     DEF WorkerNext, RejectDelivery, Discard, MarkEffective, MarkFailed, Drain, WorkerCrash

\* No step promises a worker more than one execution lease (DeadlinesBounded).
LEMMA DeadlineStep ==
  ASSUME TypeOK, DeadlinesBounded, [Next]_vars
  PROVE  DeadlinesBounded'
<1> SUFFICES ASSUME NEW w \in Worker
             PROVE  left'[w] <= ExecutionLease /\ renewalLeft'[w] <= ExecutionLease
  BY DEF DeadlinesBounded
<1>1. /\ left[w] \in Nat /\ left[w] <= ExecutionLease
      /\ renewalLeft[w] \in Nat /\ renewalLeft[w] <= ExecutionLease
  BY DEF TypeOK, DeadlinesBounded
<1>2. QED
  BY <1>1, TimerStep

\* While a worker executes, only its own final write, or the expiry of its
\* lease, can take a row from it.
LEMMA OwnershipStable ==
  ASSUME TypeOK, OneExecutionPerToken, [Next]_vars, NEW w \in Worker,
         pc[w] \in Executing, pc'[w] \in Executing, Owns(wcmd[w], wtok[w])
  PROVE  /\ status'[wcmd[w]] = "RUNNING" /\ token'[wcmd[w]] = wtok[w]
         /\ PredecessorsEffective(wcmd[w])' /\ wcmd'[w] = wcmd[w] /\ wtok'[w] = wtok[w]
         /\ \/ lease'[wcmd[w]] \in {lease[wcmd[w]], ExecutionLease}
            \/ Tick /\ lease'[wcmd[w]] = lease[wcmd[w]] - 1
<1>0. PICK c \in Command : c = wcmd[w]
  BY DEF TypeOK, Executing
<1> DEFINE Kept == /\ status'[c] = "RUNNING" /\ token'[c] = wtok[w]
                   /\ \/ lease'[c] \in {lease[c], ExecutionLease}
                      \/ Tick /\ lease'[c] = lease[c] - 1
<1>1. PredecessorsEffective(c)' /\ wcmd'[w] = c
  <2>1. PredecessorsEffective(c)
    BY <1>0 DEF Owns
  <2>2. QED
    BY <1>0, <2>1, PredecessorsPersist, ExecutionStep
<1>2. /\ status[c] = "RUNNING" /\ token[c] = wtok[w] /\ lease[c] \in Nat /\ lease[c] > 0
  <2>1. status[c] = "RUNNING" /\ token[c] = wtok[w] /\ lease[c] > 0
    BY <1>0 DEF Owns
  <2>2. QED
    BY <2>1 DEF TypeOK
<1> USE <1>2 DEF TypeOK, rows
<1>3. ASSUME UNCHANGED rows PROVE Kept
  BY <1>3
<1>4. ASSUME status'[c] = "RUNNING", token'[c] = token[c],
             lease'[c] \in {lease[c], ExecutionLease}
      PROVE  Kept
  BY <1>4
<1>5. ASSUME NEW t \in Transition, Create(t) PROVE Kept
  <2>1. status'[c] = "RUNNING" /\ token' = token /\ lease' = lease
    BY <1>5 DEF Create
  <2>2. QED
    BY <2>1, <1>4
<1>6. ASSUME NEW S \in SUBSET Command, NEW f \in [S -> Token \ UsedTokens], ClaimDue(S, f)
      PROVE  Kept
  <2>1. c \notin S
    <3>1. \A d \in Due : lease[d] = 0
      BY DEF Due
    <3>2. QED
      BY <1>6, <3>1 DEF ClaimDue
  <2>2. status'[c] = "RUNNING" /\ token'[c] = token[c] /\ lease'[c] = lease[c]
    BY <1>6, <2>1 DEF ClaimDue
  <2>3. QED
    BY <2>2, <1>4
<1>7. ASSUME NEW o \in outbox, EnqueueFails(o) PROVE Kept
  <2>1. CASE UNCHANGED rows
    BY <1>3, <2>1
  <2>2. CASE status[o[1]] = "DISPATCHED" /\ ApplyFailure(o[1], TRUE, DispatchRetry)
    <3>1. o[1] \in Command /\ o[1] # c
      BY <2>2
    <3>2. status'[c] = "RUNNING" /\ token'[c] = token[c] /\ lease'[c] = lease[c]
      BY <2>2, <3>1 DEF ApplyFailure
    <3>3. QED
      BY <3>2, <1>4
  <2>3. QED
    BY <1>7, <2>1, <2>2 DEF EnqueueFails
<1>8. ASSUME NEW v \in Worker, ClaimForExecution(v) PROVE Kept
  <2>1. wcmd[v] \in Command /\ wcmd[v] # c
    BY <1>8 DEF ClaimForExecution, Claimable
  <2>2. status'[c] = "RUNNING" /\ token'[c] = token[c] /\ lease'[c] = lease[c]
    BY <1>8, <2>1 DEF ClaimForExecution
  <2>3. QED
    BY <2>2, <1>4
<1>9. ASSUME NEW v \in Worker, RenewCommit(v) PROVE Kept
  <2>1. status'[c] = "RUNNING" /\ token'[c] = token[c] /\ lease'[c] \in {lease[c], ExecutionLease}
    BY <1>9 DEF RenewCommit
  <2>2. QED
    BY <2>1, <1>4
<1>10. ASSUME NEW v \in Worker, pc[v] \in Executing, pc'[v] \notin Executing,
              Owns(wcmd[v], wtok[v])
       PROVE  wcmd[v] # c
  BY <1>0, <1>10 DEF Owns, OneExecutionPerToken
<1>11. ASSUME NEW v \in Worker, MarkEffective(v) PROVE Kept
  <2>1. pc[v] \in Executing /\ pc'[v] \notin Executing /\ Owns(wcmd[v], wtok[v])
    BY <1>11 DEF MarkEffective, Leave, Executing
  <2>2. wcmd[v] \in Command /\ wcmd[v] # c
    BY <2>1, <1>10 DEF Executing
  <2>3. status'[c] = "RUNNING" /\ token'[c] = token[c] /\ lease'[c] = lease[c]
    BY <1>11, <2>2 DEF MarkEffective
  <2>4. QED
    BY <2>3, <1>4
<1>12. ASSUME NEW v \in Worker, NEW again \in BOOLEAN, NEW delay \in RetryDelays,
              MarkFailed(v, again, delay)
       PROVE  Kept
  <2>1. CASE UNCHANGED rows
    BY <1>3, <2>1
  <2>2. CASE Owns(wcmd[v], wtok[v]) /\ ApplyFailure(wcmd[v], again, delay)
    <3>1. pc[v] \in Executing /\ pc'[v] \notin Executing
      BY <1>12 DEF MarkFailed, Leave, Executing
    <3>2. wcmd[v] \in Command /\ wcmd[v] # c
      BY <2>2, <3>1, <1>10 DEF Executing
    <3>3. status'[c] = "RUNNING" /\ token'[c] = token[c] /\ lease'[c] = lease[c]
      BY <2>2, <3>2 DEF ApplyFailure
    <3>4. QED
      BY <3>3, <1>4
  <2>3. QED
    BY <1>12, <2>1, <2>2 DEF MarkFailed
<1>13. ASSUME Tick PROVE Kept
  BY <1>13 DEF Tick, Elapse
<1> HIDE <1>2 DEF TypeOK, rows
<1>14. Kept
  BY RowStep, <1>3, <1>5, <1>6, <1>7, <1>8, <1>9, <1>11, <1>12, <1>13
<1>15. QED
  BY <1>0, <1>1, <1>14, ExecutionStep

\* A deadline that the lease covers stays covered: the lease never shrinks
\* while time stands still, and shrinks with the deadline when it passes.
LEMMA CoverStable ==
  ASSUME TypeOK, OneExecutionPerToken, [Next]_vars, NEW w \in Worker,
         pc[w] \in Executing, pc'[w] \in Executing,
         NEW n \in Nat, NEW k \in Nat, 0 < k, k <= n, n <= ExecutionLease,
         Tick => k = n - 1,
         Owns(wcmd[w], wtok[w]), lease[wcmd[w]] >= n
  PROVE  Owns(wcmd[w], wtok[w])' /\ lease'[wcmd'[w]] >= k
<1>1. lease[wcmd[w]] \in Nat /\ wcmd[w] \in Command
  BY DEF TypeOK, Executing
<1>2. /\ status'[wcmd[w]] = "RUNNING" /\ token'[wcmd[w]] = wtok[w]
      /\ PredecessorsEffective(wcmd[w])' /\ wcmd'[w] = wcmd[w] /\ wtok'[w] = wtok[w]
      /\ \/ lease'[wcmd[w]] \in {lease[wcmd[w]], ExecutionLease}
         \/ Tick /\ lease'[wcmd[w]] = lease[wcmd[w]] - 1
  BY OwnershipStable
<1>3. lease'[wcmd[w]] \in Nat /\ lease'[wcmd[w]] >= k
  BY <1>1, <1>2
<1>4. QED
  BY <1>2, <1>3 DEF Owns

\* Every step keeps the database lease ahead of a worker's deadline.
LEMMA BeliefStep ==
  ASSUME IInv, [Next]_vars
  PROVE  LeaseCoversBelief'
<1> USE DEF IInv
<1> SUFFICES ASSUME NEW w \in Worker, pc'[w] \in Executing, left'[w] > 0
             PROVE  Owns(wcmd[w], wtok[w])' /\ lease'[wcmd'[w]] >= left'[w]
  BY DEF LeaseCoversBelief, Believes
<1>1. /\ left[w] \in Nat /\ left[w] <= ExecutionLease /\ left'[w] \in Nat
      /\ renewalLeft[w] \in Nat /\ renewalLeft[w] <= ExecutionLease
  BY TypeStep DEF TypeOK, DeadlinesBounded
<1>2. CASE ClaimForExecution(w)
  <2>1. PICK c \in Command : c = wcmd[w]
    BY <1>2 DEF ClaimForExecution, TypeOK
  <2>2. /\ status'[c] = "RUNNING" /\ token'[c] = wtok[w] /\ lease'[c] = ExecutionLease
        /\ wcmd'[w] = c /\ wtok'[w] = wtok[w] /\ left'[w] = left[w]
    BY <1>2, <2>1 DEF ClaimForExecution, Claimable, TypeOK, heartbeat
  <2>3. PredecessorsEffective(c)'
    BY <1>2, <2>1, PredecessorsPersist DEF ClaimForExecution, Claimable
  <2>4. QED
    BY <1>1, <2>2, <2>3 DEF Owns
<1>3. CASE pc[w] \in Executing
  <2>1. CASE RenewConfirm(w)
    <3>1. /\ left'[w] = renewalLeft[w] /\ renewal[w] = "committed"
      BY <2>1 DEF RenewConfirm, TypeOK
    <3>2. Owns(wcmd[w], wtok[w]) /\ lease[wcmd[w]] >= renewalLeft[w]
      BY <3>1 DEF RenewalsCovered
    <3>3. ~Tick
      BY <2>1 DEF RenewConfirm, Tick, TypeOK
    <3>4. QED
      BY <1>1, <1>3, <3>1, <3>2, <3>3, CoverStable
  <2>2. CASE ~RenewConfirm(w)
    <3>1. pc'[w] # "claiming"
      BY DEF Executing
    <3>2. left[w] > 0 /\ left'[w] <= left[w] /\ (Tick => left'[w] = left[w] - 1)
      <4>1. CASE Tick
        BY <4>1, <1>1 DEF Tick, Elapse
      <4>2. CASE ~Tick
        BY <4>2, <3>1, <2>2, <1>1, TimerStep
      <4>3. QED
        BY <4>1, <4>2
    <3>3. Owns(wcmd[w], wtok[w]) /\ lease[wcmd[w]] >= left[w]
      BY <1>3, <3>2 DEF LeaseCoversBelief, Believes
    <3>4. QED
      BY <1>1, <1>3, <3>2, <3>3, CoverStable
  <2>3. QED
    BY <2>1, <2>2
<1>4. QED
  BY <1>2, <1>3, ExecutionStep DEF Executing

\* Every step keeps a committed renewal ahead of the deadline it will set.
LEMMA RenewalStep ==
  ASSUME IInv, [Next]_vars
  PROVE  RenewalsCovered'
<1> USE DEF IInv
<1> SUFFICES ASSUME NEW w \in Worker, renewal'[w] # "none"
             PROVE  /\ pc'[w] \in Executing
                    /\ renewal'[w] = "committed" /\ renewalLeft'[w] > 0 =>
                          Owns(wcmd[w], wtok[w])' /\ lease'[wcmd'[w]] >= renewalLeft'[w]
  BY DEF RenewalsCovered
<1>1. /\ renewalLeft[w] \in Nat /\ renewalLeft[w] <= ExecutionLease /\ renewalLeft'[w] \in Nat
  BY TypeStep DEF TypeOK, DeadlinesBounded
<1>2. CASE RenewBegin(w)
  BY <1>2 DEF RenewBegin, TypeOK
<1>3. CASE RenewCommit(w)
  <2>1. pc[w] \in Executing /\ pc' = pc
    BY <1>3 DEF RenewCommit, RenewalsCovered
  <2>2. PICK c \in Command : c = wcmd[w]
    BY <2>1 DEF TypeOK, Executing
  <2>3. /\ status'[c] = "RUNNING" /\ token'[c] = wtok[w] /\ lease'[c] = ExecutionLease
        /\ wcmd'[w] = c /\ wtok'[w] = wtok[w] /\ renewalLeft'[w] = renewalLeft[w]
    BY <1>3, <2>2 DEF RenewCommit, Owns, TypeOK
  <2>4. PredecessorsEffective(c)'
    BY <1>3, <2>2, PredecessorsPersist DEF RenewCommit, Owns
  <2>5. QED
    BY <1>1, <2>1, <2>3, <2>4 DEF Owns
<1>4. ASSUME pc[w] \in Executing, pc'[w] \in Executing, renewal'[w] = renewal[w],
             ~Tick => renewalLeft'[w] = renewalLeft[w]
      PROVE  /\ pc'[w] \in Executing
             /\ renewal'[w] = "committed" /\ renewalLeft'[w] > 0 =>
                   Owns(wcmd[w], wtok[w])' /\ lease'[wcmd'[w]] >= renewalLeft'[w]
  <2> SUFFICES ASSUME renewal'[w] = "committed", renewalLeft'[w] > 0
               PROVE  Owns(wcmd[w], wtok[w])' /\ lease'[wcmd'[w]] >= renewalLeft'[w]
    BY <1>4
  <2>1. /\ renewalLeft[w] > 0 /\ renewalLeft'[w] <= renewalLeft[w]
        /\ (Tick => renewalLeft'[w] = renewalLeft[w] - 1)
    <3>1. CASE Tick
      BY <3>1, <1>1 DEF Tick, Elapse
    <3>2. CASE ~Tick
      BY <3>2, <1>1, <1>4
    <3>3. QED
      BY <3>1, <3>2
  <2>2. Owns(wcmd[w], wtok[w]) /\ lease[wcmd[w]] >= renewalLeft[w]
    BY <1>4, <2>1 DEF RenewalsCovered
  <2>3. QED
    BY <1>1, <1>4, <2>1, <2>2, CoverStable
<1>5. CASE Frame(w)
  <2>1. pc[w] \in Executing
    BY <1>5 DEF Frame, RenewalsCovered
  <2>2. QED
    BY <1>4, <1>5, <2>1 DEF Frame
<1>6. ASSUME NEW m \in queue, NEW kept \in BOOLEAN, Deliver(w, m, kept) PROVE FALSE
  BY <1>6 DEF Deliver, RenewalsCovered, Executing
<1>7. CASE ClaimForExecution(w)
  BY <1>7 DEF ClaimForExecution, RenewalsCovered, Executing, heartbeat
<1>8. CASE AcquireLock(w) \/ BeginEffect(w) \/ EndEffect(w) \/ Fail(w)
  <2>1. /\ pc[w] \in Executing /\ pc'[w] \in Executing /\ renewal' = renewal
        /\ renewalLeft' = renewalLeft
    BY <1>8 DEF AcquireLock, BeginEffect, EndEffect, Fail, Executing, TypeOK, heartbeat
  <2>2. QED
    BY <1>4, <2>1
<1>9. CASE Leave(w) \/ RenewConfirm(w) \/ RenewError(w) \/ LoseOwnership(w)
  BY <1>9 DEF Leave, RenewConfirm, RenewError, LoseOwnership, TypeOK
<1>10. QED
  BY WorkerStep, <1>2, <1>3, <1>5, <1>6, <1>7, <1>8, <1>9
     DEF WorkerNext, RejectDelivery, Discard, MarkEffective, MarkFailed, Drain, WorkerCrash

-----------------------------------------------------------------------------
(* The theorems. *)

\* The inductive invariant is kept by every step.
LEMMA StepIInv == IInv /\ [Next]_vars => IInv'
  BY TypeStep, SettledStep, TransitionStep, DeadlineStep, BeliefStep, RenewalStep, SpentStep,
     OneExecutionStep, LockStep DEF IInv

\* The outbox keeps the types of its rows, messages and worker states.
THEOREM TypeCorrect == Spec => []TypeOK
<1>1. IInv => TypeOK
  BY DEF IInv
<1>2. QED
  BY InitIInv, StepIInv, <1>1, PTL DEF Spec

\* A worker whose own clock says that it owns a command does own it: its lease
\* in the database outlasts its deadline, however late replies arrive
\* (command_executor.py, _heartbeat_runtime_command).
THEOREM BeliefIsCovered == Spec => []LeaseCoversBelief
<1>1. IInv => LeaseCoversBelief
  BY DEF IInv
<1>2. QED
  BY InitIInv, StepIInv, <1>1, PTL DEF Spec

\* No command of a transition is leased, run or made effective before all its
\* predecessors are effective (runtime_commands.py, the predecessor queries).
THEOREM TransitionsAreOrdered == Spec => []TransitionOrder
<1>1. IInv => TransitionOrder
  BY DEF IInv
<1>2. QED
  BY InitIInv, StepIInv, <1>1, PTL DEF Spec

\* A dispatch token is turned into at most one execution, whatever the queue
\* repeats (runtime_commands.py, claim_for_execution).
THEOREM TokensRunOnce == Spec => []OneExecutionPerToken
<1>1. IInv => OneExecutionPerToken
  BY DEF IInv
<1>2. QED
  BY InitIInv, StepIInv, <1>1, PTL DEF Spec

\* Executions that were not cancelled never overlap in an external call for one
\* project (database.py, project_advisory_lock).
THEOREM EffectsAreSerialized == Spec => []EffectsSerialized
<1>1. IInv => EffectsSerialized
  BY DEF IInv, LockHeld, EffectsSerialized
<1>2. QED
  BY InitIInv, StepIInv, <1>1, PTL DEF Spec

\* A command that took effect or failed for good is never attempted again
\* (runtime_commands.py, claim_due_for_dispatch and mark_effective).
THEOREM SettledStays == Spec => SettledIsFinal
<1>1. IInv /\ [Next]_vars =>
        [\A c \in Command : Settled(c) => status'[c] = status[c] /\ ~retryable'[c]]_vars
  BY SettledStep DEF IInv
<1>2. QED
  BY InitIInv, StepIInv, <1>1, PTL DEF Spec, SettledIsFinal
=============================================================================
