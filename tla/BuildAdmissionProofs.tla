------------------------ MODULE BuildAdmissionProofs ------------------------
(***************************************************************************)
(* Proofs that BuildAdmission keeps its inductive invariant IInv, for any  *)
(* number of builds, workers and tokens, for every lease and for every     *)
(* pipeline made of the code's stages in the code's order.                 *)
(***************************************************************************)
EXTENDS BuildAdmission, TLAPS

USE BuildAssumption, LeaseAssumption

\* Stages are neither terminal nor the absence of a build, and the next status of
\* one is a stage or READY.
LEMMA Stages ==
  /\ "QUEUED" \in Active
  /\ Active \cap (Terminal \cup {"ABSENT", "BLOCKING"}) = {}
  /\ \A s \in Active : NextStatus[s] \in Active \cup {"READY"}
  BY PipelineAssumption DEF Active, Terminal, FullPipeline

\* Positions order the stages strictly, with READY at the end.
LEMMA Positions ==
  /\ \A s \in Active \cup {"READY"} : Position[s] \in Nat
  /\ \A s \in Active : Position[s] < Position["READY"]
  /\ \A s, u \in Active : Position[s] = Position[u] => s = u
  /\ Position["VALIDATING"] \in Nat /\ Position["VALIDATING"] < Position["READY"]
  BY PipelineAssumption DEF Active, FullPipeline, Position

\* The stages before the next status of s are s and the stages before s.
LEMMA NextPosition ==
  ASSUME NEW s \in Active
  PROVE  /\ Position[s] < Position[NextStatus[s]]
         /\ \A u \in Active : Position[u] < Position[NextStatus[s]] =>
                                  u = s \/ Position[u] < Position[s]
<1>1. /\ Position[s] < Position[NextStatus[s]]
      /\ \A u \in Active : Position[u] <= Position[s] \/ Position[NextStatus[s]] <= Position[u]
  BY PipelineAssumption DEF Active
<1>2. QED
  BY <1>1, Positions, Stages

\* One unit of time leaves every timer a natural number, at most one smaller.
LEMMA ElapseType ==
  ASSUME NEW S, NEW timer \in [S -> Nat]
  PROVE  /\ Elapse(timer, S) \in [S -> Nat]
         /\ \A x \in S : Elapse(timer, S)[x] = IF timer[x] = 0 THEN 0 ELSE timer[x] - 1
<1>1. \A x \in S : (IF timer[x] = 0 THEN 0 ELSE timer[x] - 1) \in Nat
  OBVIOUS
<1>2. QED
  BY <1>1 DEF Elapse

-----------------------------------------------------------------------------
(* Types. *)

\* The three parts of TypeOK: the build rows, the transport and the jobs.
RowsOK ==
    /\ status \in [Build -> Status]
    /\ requested \in [Build -> BOOLEAN]
    /\ outputs \in [Build -> SUBSET Output]
    /\ token \in [Build -> Token \cup {NoToken}]
    /\ lease \in [Build -> Nat]

\* The types of the outbox, the queue and the cancellation requests.
TransportOK ==
    /\ outbox \in SUBSET (Build \X Token \X {"claimed", "sent"})
    /\ queue \in SUBSET Message
    /\ cancels \in SUBSET CancelRequest
    /\ disowned \in SUBSET Token

\* The types of the jobs' variables.
JobsOK ==
    /\ pc \in [Worker -> PC]
    /\ wb \in [Worker -> Build \cup {NoBuild}]
    /\ wtok \in [Worker -> Token \cup {NoToken}]
    /\ tries \in [Worker -> 0..MaxRetries]
    /\ seen \in [Worker -> Active]
    /\ outcome \in [Worker -> Outcome]
    /\ left \in [Worker -> Nat]
    /\ renewal \in [Worker -> {"none", "sent", "committed"}]
    /\ renewalLeft \in [Worker -> Nat]
    /\ \A w \in Worker : pc[w] # "idle" => wb[w] \in Build /\ wtok[w] \in Token

\* TypeOK is the conjunction of its parts.
LEMMA TypeParts == TypeOK <=> RowsOK /\ TransportOK /\ JobsOK
  BY DEF TypeOK, RowsOK, TransportOK, JobsOK

\* What is not written keeps its type.
LEMMA RowsKept ==
  ASSUME RowsOK, UNCHANGED rows
  PROVE  RowsOK'
  BY DEF RowsOK, rows, admission

\* The transport keeps its types when it is left alone.
LEMMA TransportKept ==
  ASSUME TransportOK, UNCHANGED transport
  PROVE  TransportOK'
  BY DEF TransportOK, transport

\* So do the jobs.
LEMMA JobsKept ==
  ASSUME JobsOK, UNCHANGED <<pc, job, heartbeat>>
  PROVE  JobsOK'
  BY DEF JobsOK, job, heartbeat

\* A job that moves on keeps its types.
LEMMA GotoType ==
  ASSUME JobsOK, NEW w \in Worker, NEW p \in PC, NEW o \in Outcome, pc[w] # "idle", Goto(w, p, o)
  PROVE  JobsOK'
<1>1. /\ pc' \in [Worker -> PC] /\ outcome' \in [Worker -> Outcome]
      /\ wb' = wb /\ wtok' = wtok /\ tries' = tries
  BY DEF Goto, JobsOK
<1>2. seen' \in [Worker -> Active]
  BY Stages DEF Goto, JobsOK
<1>3. /\ left' \in [Worker -> Nat] /\ renewalLeft' \in [Worker -> Nat]
      /\ renewal' \in [Worker -> {"none", "sent", "committed"}]
  BY DEF Goto, JobsOK, heartbeat
<1>4. \A v \in Worker : pc'[v] # "idle" => pc[v] # "idle"
  BY DEF Goto, JobsOK
<1>5. QED
  BY <1>1, <1>2, <1>3, <1>4 DEF JobsOK

\* So does one that ends.
LEMMA IdleType ==
  ASSUME JobsOK, NEW w \in Worker, Idle(w)
  PROVE  JobsOK'
<1>1. /\ pc' \in [Worker -> PC] /\ outcome' \in [Worker -> Outcome]
      /\ wb' \in [Worker -> Build \cup {NoBuild}] /\ wtok' \in [Worker -> Token \cup {NoToken}]
  BY DEF Idle, JobsOK, PC, Outcome
<1>2. /\ seen' \in [Worker -> Active] /\ tries' \in [Worker -> 0..MaxRetries]
  BY Stages DEF Idle, JobsOK
<1>3. /\ left' \in [Worker -> Nat] /\ renewalLeft' \in [Worker -> Nat]
      /\ renewal' \in [Worker -> {"none", "sent", "committed"}]
  BY DEF Idle, JobsOK
<1>4. \A v \in Worker : pc'[v] # "idle" => pc[v] # "idle" /\ wb'[v] = wb[v] /\ wtok'[v] = wtok[v]
  BY DEF Idle, JobsOK
<1>5. QED
  BY <1>1, <1>2, <1>3, <1>4 DEF JobsOK

\* What RQ schedules again is a message.
LEMMA RetriedType ==
  ASSUME JobsOK, NEW w \in Worker, pc[w] # "idle"
  PROVE  Retried(w) \subseteq Message
  BY DEF Retried, JobsOK, Message

\* A row keeps its types when it is completed or its admission released.
LEMMA CompleteType ==
  ASSUME RowsOK, NEW b \in Build, NEW s \in Terminal, Complete(b, s),
         outputs' \in [Build -> SUBSET Output], UNCHANGED requested
  PROVE  RowsOK'
  BY DEF RowsOK, Complete, Status

\* A release keeps the types of the rows.
LEMMA ReleaseType ==
  ASSUME RowsOK, NEW b \in Build, NEW t, Release(b, t), UNCHANGED <<status, requested, outputs>>
  PROVE  RowsOK'
  BY DEF RowsOK, Release

\* An acknowledged cancellation keeps them.
LEMMA AcknowledgeType ==
  ASSUME RowsOK, NEW b \in Build, AcknowledgeCancellation(b)
  PROVE  RowsOK'
<1>1. outputs' \in [Build -> SUBSET Output]
  BY DEF RowsOK, AcknowledgeCancellation
<1>2. QED
  BY <1>1, CompleteType DEF AcknowledgeCancellation, Terminal

\* A failure that a job records keeps them.
LEMMA FailRowType ==
  ASSUME RowsOK, NEW w \in Worker, wb[w] \in Build, FailRow(w)
  PROVE  RowsOK'
<1>1. CASE UNCHANGED rows
  BY <1>1, RowsKept
<1>2. CASE Complete(wb[w], "FAILED") /\ UNCHANGED <<requested, outputs>>
  <2>1. outputs' \in [Build -> SUBSET Output]
    BY <1>2 DEF RowsOK
  <2>2. QED
    BY <1>2, <2>1, CompleteType DEF Terminal
<1>3. QED
  BY <1>1, <1>2 DEF FailRow

\* No step of a job leaves the types.
LEMMA JobType ==
  ASSUME RowsOK, TransportOK, JobsOK, NEW w \in Worker, JobNext(w)
  PROVE  RowsOK' /\ TransportOK' /\ JobsOK'
<1> DEFINE Goal == RowsOK' /\ TransportOK' /\ JobsOK'
<1> USE DEF PC, InPipeline, InHandler, Outcome
<1>0. pc[w] # "idle" => wb[w] \in Build /\ wtok[w] \in Token
  BY DEF JobsOK
<1>1. ASSUME NEW m \in queue, Deliver(w, m) PROVE Goal
  <2>1. m.build \in Build /\ m.token \in Token /\ m.tries \in 0..MaxRetries
    BY DEF TransportOK, Message
  <2>2. TransportOK' /\ RowsOK'
    BY <1>1, RowsKept DEF Deliver, TransportOK
  <2>3. JobsOK'
    BY <1>1, <2>1 DEF Deliver, JobsOK
  <2>4. QED
    BY <2>2, <2>3
<1>2. CASE Begin(w)
  <2>1. RowsOK'
    BY <1>0, <1>2 DEF Begin, RowsOK
  <2>2. QED
    BY <1>0, <1>2, <2>1, GotoType, TransportKept DEF Begin
<1>3. CASE BeginLost(w)
  BY <1>0, <1>3, GotoType, TransportKept, RowsKept DEF BeginLost
<1>4. CASE ReadBuild(w)
  <2>1. JobsOK'
    BY <1>0, <1>4, GotoType DEF ReadBuild, JobsOK, heartbeat
  <2>2. QED
    BY <1>4, <2>1, TransportKept, RowsKept DEF ReadBuild
<1>5. CASE StartStage(w)
  BY <1>0, <1>5, GotoType, TransportKept, RowsKept DEF StartStage
<1>6. CASE Checkpoint(w)
  BY <1>0, <1>6, GotoType, TransportKept, RowsKept DEF Checkpoint
<1>7. CASE ReuseOutput(w)
  BY <1>0, <1>7, GotoType, TransportKept, RowsKept DEF ReuseOutput, AfterStage
<1>8. ASSUME NEW blocking \in BOOLEAN, StoreOutput(w, blocking) PROVE Goal
  <2>1. outputs' \in [Build -> SUBSET Output]
    BY <1>0, <1>8 DEF StoreOutput, RowsOK, Output
  <2>2. JobsOK'
    BY <1>0, <1>8, GotoType DEF StoreOutput, AfterStage
  <2>3. QED
    BY <1>8, <2>1, <2>2, TransportKept DEF StoreOutput, RowsOK, admission
<1>9. CASE Advance(w)
  <2>1. JobsOK'
    BY <1>0, <1>9, GotoType DEF Advance
  <2>2. CASE NextStatus[seen[w]] = "READY"
    BY <1>0, <1>9, <2>1, <2>2, CompleteType, TransportKept DEF Advance, Terminal, RowsOK
  <2>3. CASE NextStatus[seen[w]] # "READY"
    <3>1. seen[w] \in Active
      BY DEF JobsOK
    <3>2. NextStatus[seen[w]] \in Active
      BY <2>3, <3>1, Stages
    <3>3. RowsOK'
      BY <1>0, <1>9, <2>3, <3>2 DEF Advance, RowsOK, Status, admission
    <3>4. QED
      BY <1>9, <2>1, <3>3, TransportKept DEF Advance
  <2>4. QED
    BY <2>2, <2>3
<1>10. CASE RejectBuild(w)
  BY <1>0, <1>10, GotoType, TransportKept, FailRowType DEF RejectBuild
<1>11. CASE Refused(w)
  BY <1>0, <1>11, GotoType, TransportKept, RowsKept DEF Refused
<1>12. ASSUME NEW kind \in {"retryable", "invalid", "other"}, StageFails(w, kind) PROVE Goal
  BY <1>0, <1>12, GotoType, TransportKept, RowsKept DEF StageFails
<1>13. CASE HandleInvalid(w)
  <2>1. outcome[w] \in Outcome
    BY DEF JobsOK
  <2>2. QED
    BY <1>0, <1>13, <2>1, GotoType, TransportKept, RowsKept DEF HandleInvalid
<1>14. CASE Acknowledge(w)
  <2>1. JobsOK'
    BY <1>0, <1>14, GotoType DEF Acknowledge
  <2>2. QED
    BY <1>0, <1>14, <2>1, TransportKept, RowsKept, AcknowledgeType DEF Acknowledge
<1>15. CASE RecordFailure(w)
  <2>1. outcome[w] \in Outcome
    BY DEF JobsOK
  <2>2. QED
    BY <1>0, <1>15, <2>1, GotoType, TransportKept, RowsKept DEF RecordFailure
<1>16. CASE FailBuild(w)
  <2>1. JobsOK'
    BY <1>0, <1>16, GotoType DEF FailBuild
  <2>2. QED
    BY <1>0, <1>16, <2>1, TransportKept, RowsKept, FailRowType DEF FailBuild
<1>17. CASE Finish(w)
  <2>1. TransportOK'
    BY <1>0, <1>17, RetriedType DEF Finish, TransportOK, ForgetEnded
  <2>2. RowsOK'
    <3>1. CASE outcome[w] # "retry"
      BY <1>0, <1>17, <3>1, ReleaseType DEF Finish
    <3>2. CASE outcome[w] = "retry"
      BY <1>0, <1>17, <3>2 DEF Finish, RowsOK
    <3>3. QED
      BY <3>1, <3>2
  <2>3. QED
    BY <1>17, <2>1, <2>2, IdleType DEF Finish
<1>18. ASSUME NEW again \in BOOLEAN, WorkerCrash(w, again) PROVE Goal
  <2>1. TransportOK'
    BY <1>0, <1>18, RetriedType DEF WorkerCrash, TransportOK, ForgetEnded
  <2>2. QED
    BY <1>18, <2>1, IdleType, RowsKept DEF WorkerCrash
<1>19. QED
  BY <1>1, <1>2, <1>3, <1>4, <1>5, <1>6, <1>7, <1>8, <1>9, <1>10, <1>11, <1>12, <1>13, <1>14,
     <1>15, <1>16, <1>17, <1>18 DEF JobNext

\* No step of a heartbeat leaves the types.
LEMMA HeartbeatType ==
  ASSUME RowsOK, TransportOK, JobsOK, NEW w \in Worker, HeartbeatNext(w)
  PROVE  RowsOK' /\ TransportOK' /\ JobsOK'
<1> USE DEF PC, InPipeline, InHandler, Outcome
<1>0. pc[w] # "idle" => wb[w] \in Build /\ wtok[w] \in Token
  BY DEF JobsOK
<1>1. CASE RenewBegin(w) \/ RenewConfirm(w) \/ RenewError(w)
  <2>1. JobsOK'
    BY <1>1 DEF RenewBegin, RenewConfirm, RenewError, JobsOK, job
  <2>2. QED
    BY <1>1, <2>1, RowsKept, TransportKept DEF RenewBegin, RenewConfirm, RenewError
<1>2. CASE RenewCommit(w)
  <2>1. RowsOK'
    BY <1>0, <1>2 DEF RenewCommit, RowsOK, Beating
  <2>2. JobsOK'
    BY <1>2 DEF RenewCommit, JobsOK, job
  <2>3. QED
    BY <1>2, <2>1, <2>2, TransportKept DEF RenewCommit
<1>3. CASE LoseAdmission(w) \/ HearCancellation(w)
  <2>1. JobsOK'
    BY <1>0, <1>3, GotoType DEF LoseAdmission, HearCancellation, Interrupt, Beating
  <2>2. QED
    BY <1>3, <2>1, RowsKept, TransportKept DEF LoseAdmission, HearCancellation, Interrupt
<1>4. QED
  BY <1>1, <1>2, <1>3 DEF HeartbeatNext

\* No step of the dispatcher, the queue, the API, a job or the clock leaves the types.
LEMMA TypeStep == TypeOK /\ [Next]_vars => TypeOK'
<1> SUFFICES ASSUME TypeOK, [Next]_vars PROVE RowsOK' /\ TransportOK' /\ JobsOK'
  BY DEF TypeOK, RowsOK, TransportOK, JobsOK
<1> DEFINE Goal == RowsOK' /\ TransportOK' /\ JobsOK'
<1>0. RowsOK /\ TransportOK /\ JobsOK
  BY TypeParts
<1>1. ASSUME NEW b \in Build, Create(b) PROVE Goal
  <2>1. RowsOK'
    BY <1>0, <1>1, Stages DEF Create, RowsOK, Status, admission
  <2>2. QED
    BY <1>0, <1>1, <2>1, TransportKept, JobsKept DEF Create
<1>2. ASSUME NEW n \in Limits, NEW locked \in SUBSET Build,
             NEW f \in [Selected(n, locked) -> Token \ UsedTokens], ClaimAvailable(n, locked, f)
      PROVE  Goal
  <2>1. RowsOK'
    <3>1. \A b \in Selected(n, locked) : f[b] \in Token
      OBVIOUS
    <3>2. token' \in [Build -> Token \cup {NoToken}]
      BY <1>0, <1>2, <3>1 DEF ClaimAvailable, RowsOK
    <3>3. lease' \in [Build -> Nat]
      BY <1>0, <1>2 DEF ClaimAvailable, RowsOK
    <3>4. QED
      BY <1>0, <1>2, <3>2, <3>3 DEF ClaimAvailable, RowsOK
  <2>2. TransportOK'
    <3>1. Selected(n, locked) \subseteq Build
      BY DEF Selected
    <3>2. {<<b, f[b], "claimed">> : b \in Selected(n, locked)} \subseteq Build \X Token \X {"claimed", "sent"}
      BY <3>1
    <3>3. QED
      BY <1>0, <1>2, <3>2 DEF ClaimAvailable, TransportOK
  <2>3. QED
    BY <1>0, <1>2, <2>1, <2>2, JobsKept DEF ClaimAvailable
<1>3. ASSUME NEW o \in outbox, Enqueue(o) PROVE Goal
  <2>1. o[1] \in Build /\ o[2] \in Token
    BY <1>0 DEF TransportOK
  <2>2. queue' \in SUBSET Message
    BY <1>0, <1>3, <2>1 DEF Enqueue, TransportOK, Message
  <2>3. TransportOK'
    BY <1>0, <1>3, <2>1, <2>2 DEF Enqueue, TransportOK
  <2>4. QED
    BY <1>0, <1>3, <2>3, RowsKept, JobsKept DEF Enqueue
<1>4. ASSUME NEW o \in outbox, EnqueueReturns(o) \/ DispatcherCrash(o) PROVE Goal
  <2>1. TransportOK'
    BY <1>0, <1>4 DEF EnqueueReturns, DispatcherCrash, TransportOK
  <2>2. QED
    BY <1>0, <1>4, <2>1, RowsKept, JobsKept DEF EnqueueReturns, DispatcherCrash
<1>5. ASSUME NEW o \in outbox, EnqueueFails(o) PROVE Goal
  <2>1. o[1] \in Build /\ o[2] \in Token
    BY <1>0 DEF TransportOK
  <2>2. TransportOK'
    BY <1>0, <1>5, <2>1 DEF EnqueueFails, TransportOK
  <2>3. RowsOK'
    BY <1>0, <1>5, <2>1, ReleaseType DEF EnqueueFails
  <2>4. QED
    BY <1>0, <1>5, <2>2, <2>3, JobsKept DEF EnqueueFails
<1>6. ASSUME NEW m \in queue, LoseMessage(m) PROVE Goal
  <2>1. TransportOK'
    BY <1>0, <1>6 DEF LoseMessage, TransportOK, ForgetEnded
  <2>2. QED
    BY <1>0, <1>6, <2>1, RowsKept, JobsKept DEF LoseMessage
<1>7. ASSUME NEW b \in Build, RequestCancellation(b) PROVE Goal
  <2>1. RowsOK'
    BY <1>0, <1>7 DEF RequestCancellation, RowsOK, admission
  <2>2. token[b] # NoToken => [build |-> b, token |-> token[b], step |-> "check"] \in CancelRequest
    BY <1>0 DEF RowsOK, CancelRequest
  <2>3. TransportOK'
    BY <1>0, <1>7, <2>2 DEF RequestCancellation, TransportOK
  <2>4. QED
    BY <1>0, <1>7, <2>1, <2>3, JobsKept DEF RequestCancellation
<1>8. ASSUME NEW c \in cancels, FindQueued(c) \/ CancelQueued(c) \/ AbandonCancel(c) PROVE Goal
  <2>1. c \in CancelRequest
    BY <1>0 DEF TransportOK
  <2>2. [c EXCEPT !.step = "found"] \in CancelRequest /\ [c EXCEPT !.step = "acknowledge"] \in CancelRequest
    BY <2>1 DEF CancelRequest
  <2>3. TransportOK'
    BY <1>0, <1>8, <2>2 DEF FindQueued, CancelQueued, AbandonCancel, TransportOK, ForgetEnded
  <2>4. QED
    BY <1>0, <1>8, <2>3, RowsKept, JobsKept DEF FindQueued, CancelQueued, AbandonCancel
<1>9. ASSUME NEW c \in cancels, AcknowledgeQueued(c) PROVE Goal
  <2>1. c.build \in Build
    BY <1>0 DEF TransportOK, CancelRequest
  <2>2. RowsOK'
    BY <1>0, <1>9, <2>1, AcknowledgeType, RowsKept DEF AcknowledgeQueued
  <2>3. TransportOK'
    BY <1>0, <1>9 DEF AcknowledgeQueued, TransportOK
  <2>4. QED
    BY <1>0, <1>9, <2>2, <2>3, JobsKept DEF AcknowledgeQueued
<1>10. ASSUME NEW w \in Worker, JobNext(w) PROVE Goal
  BY <1>0, <1>10, JobType
<1>11. ASSUME NEW w \in Worker, HeartbeatNext(w) PROVE Goal
  BY <1>0, <1>11, HeartbeatType
<1>12. CASE Tick
  <2>1. lease' \in [Build -> Nat] /\ left' \in [Worker -> Nat] /\ renewalLeft' \in [Worker -> Nat]
    BY <1>0, <1>12, ElapseType DEF Tick, RowsOK, JobsOK
  <2>2. QED
    BY <1>0, <1>12, <2>1, TransportKept DEF Tick, RowsOK, JobsOK, job
<1>13. CASE UNCHANGED vars
  BY <1>0, <1>13, RowsKept, TransportKept, JobsKept DEF vars
<1>14. QED
  BY <1>1, <1>2, <1>3, <1>4, <1>5, <1>6, <1>7, <1>8, <1>9, <1>10, <1>11, <1>12, <1>13
     DEF Next, DispatcherNext, CancelNext

-----------------------------------------------------------------------------
(* What a step can do to a build row. *)

\* Nine kinds of step write build rows; every other step leaves them alone.
LEMMA RowStep ==
  ASSUME [Next]_vars
  PROVE  \/ UNCHANGED rows
         \/ \E b \in Build : Create(b) \/ RequestCancellation(b)
         \/ \E n \in Limits, locked \in SUBSET Build :
               \E f \in [Selected(n, locked) -> Token \ UsedTokens] : ClaimAvailable(n, locked, f)
         \/ \E o \in outbox : EnqueueFails(o)
         \/ \E c \in cancels : AcknowledgeQueued(c)
         \/ \E w \in Worker : \/ Begin(w) \/ Advance(w) \/ RejectBuild(w) \/ Acknowledge(w)
                              \/ FailBuild(w) \/ Finish(w) \/ RenewCommit(w)
         \/ \E w \in Worker, blocking \in BOOLEAN : StoreOutput(w, blocking)
         \/ Tick
<1>1. ASSUME NEW w \in Worker, JobNext(w)
      PROVE  \/ UNCHANGED rows
             \/ Begin(w) \/ Advance(w) \/ RejectBuild(w) \/ Acknowledge(w) \/ FailBuild(w) \/ Finish(w)
             \/ \E blocking \in BOOLEAN : StoreOutput(w, blocking)
  BY <1>1 DEF JobNext, Deliver, BeginLost, ReadBuild, StartStage, Checkpoint, ReuseOutput, Refused,
              StageFails, HandleInvalid, RecordFailure, WorkerCrash
<1>2. ASSUME NEW w \in Worker, HeartbeatNext(w)
      PROVE  UNCHANGED rows \/ RenewCommit(w)
  BY <1>2 DEF HeartbeatNext, RenewBegin, RenewConfirm, RenewError, LoseAdmission, HearCancellation,
              Interrupt
<1>3. CASE DispatcherNext
  BY <1>3 DEF DispatcherNext, Enqueue, EnqueueReturns, DispatcherCrash
<1>4. CASE CancelNext
  BY <1>4 DEF CancelNext, FindQueued, CancelQueued, AbandonCancel
<1>5. CASE UNCHANGED vars \/ \E m \in queue : LoseMessage(m)
  BY <1>5 DEF vars, LoseMessage
<1>6. QED
  BY <1>1, <1>2, <1>3, <1>4, <1>5 DEF Next

\* The pipeline and cancellation fields of a row, left alone.
Untouched(b) ==
    status'[b] = status[b] /\ requested'[b] = requested[b] /\ outputs'[b] = outputs[b]

\* acknowledge_cancellation on an active row.
Acknowledged(b) ==
    /\ status[b] \in Active
    /\ status'[b] = "CANCELLED"
    /\ requested'[b] = requested[b]
    /\ outputs'[b] = outputs[b] \ {"INDEXING", "COMPILING", "PACKAGING"}

\* A write of the job that owns the row: it fails the build, advances it from the
\* status the job read, or stores the output of that status.
Written(b, w) ==
    /\ pc[w] # "idle" /\ wb[w] = b /\ Owns(b, wtok[w])
    /\ requested'[b] = requested[b]
    /\ \/ status'[b] = "FAILED" /\ outputs'[b] = outputs[b]
       \/ /\ pc[w] = "advance" /\ status[b] = seen[w]
          /\ status'[b] = NextStatus[status[b]] /\ outputs'[b] = outputs[b]
       \/ /\ pc[w] = "work" /\ status[b] = seen[w] /\ seen[w] \in Producing
          /\ status'[b] = status[b]
          /\ \/ outputs'[b] = outputs[b] \cup {seen[w]}
             \/ seen[w] = "VALIDATING" /\ outputs'[b] = outputs[b] \cup {seen[w], "BLOCKING"}

\* What a step may do to build b.
BuildStep(b) ==
    \/ Untouched(b)
    \/ status[b] = "ABSENT" /\ status'[b] = "QUEUED" /\ requested'[b] = requested[b] /\ outputs'[b] = outputs[b]
    \/ status[b] \in Active /\ status'[b] = status[b] /\ requested'[b] /\ outputs'[b] = outputs[b]
    \/ Acknowledged(b) /\ \/ \E c \in cancels : c.step = "acknowledge" /\ c.build = b /\ Live(b, c.token)
                          \/ \E w \in Worker : pc[w] \in {"ack", "jobAck"} /\ wb[w] = b /\ Live(b, wtok[w])
    \/ \E w \in Worker : Written(b, w)

\* The acknowledgement of one build is that of no other.
LEMMA AcknowledgedOrNot ==
  ASSUME TypeOK, NEW a \in Build, NEW b \in Build, AcknowledgeCancellation(a), status[a] \in Active
  PROVE  IF a = b THEN Acknowledged(b) ELSE Untouched(b)
  BY DEF TypeOK, AcknowledgeCancellation, Complete, Acknowledged, Untouched

\* Every step does one of these to every row.
LEMMA BuildSteps ==
  ASSUME TypeOK, [Next]_vars, NEW b \in Build
  PROVE  BuildStep(b)
<1> USE DEF TypeOK, BuildStep
<1>1. CASE UNCHANGED rows
  BY <1>1 DEF rows, Untouched
<1>2. ASSUME NEW a \in Build, Create(a) \/ RequestCancellation(a) PROVE BuildStep(b)
  BY <1>2 DEF Create, RequestCancellation, Untouched
<1>3. ASSUME NEW n \in Limits, NEW locked \in SUBSET Build,
             NEW f \in [Selected(n, locked) -> Token \ UsedTokens], ClaimAvailable(n, locked, f)
      PROVE  BuildStep(b)
  BY <1>3 DEF ClaimAvailable, Untouched
<1>4. ASSUME NEW o \in outbox, EnqueueFails(o) PROVE BuildStep(b)
  BY <1>4 DEF EnqueueFails, Untouched
<1>5. ASSUME NEW c \in cancels, AcknowledgeQueued(c) PROVE BuildStep(b)
  <2>1. c.build \in Build
    BY DEF CancelRequest
  <2>2. CASE Live(c.build, c.token)
    <3>1. AcknowledgeCancellation(c.build) /\ status[c.build] \in Active
      BY <1>5, <2>2 DEF AcknowledgeQueued, Live
    <3>2. QED
      <4>1. c.step = "acknowledge" /\ (c.build = b => Acknowledged(b)) /\ (c.build # b => Untouched(b))
        BY <1>5, <2>1, <3>1, AcknowledgedOrNot DEF AcknowledgeQueued
      <4>2. QED
        BY <2>2, <4>1
  <2>3. QED
    BY <1>1, <1>5, <2>2 DEF AcknowledgeQueued
<1>6. ASSUME NEW w \in Worker, Begin(w) \/ Finish(w) \/ RenewCommit(w) PROVE BuildStep(b)
  BY <1>6 DEF Begin, Finish, RenewCommit, Untouched
<1>7. ASSUME NEW w \in Worker, Advance(w) PROVE BuildStep(b)
  BY <1>7 DEF Advance, Complete, Owns, Live, Written, Untouched
<1>8. ASSUME NEW w \in Worker, RejectBuild(w) \/ (FailBuild(w) /\ MayFail(w)) PROVE BuildStep(b)
  <2>1. MayFail(w) /\ FailRow(w) /\ wb[w] \in Build /\ pc[w] # "idle"
    BY <1>8 DEF RejectBuild, FailBuild
  <2>2. CASE status[wb[w]] \in Terminal
    BY <1>1, <2>1, <2>2 DEF FailRow
  <2>3. CASE status[wb[w]] \notin Terminal
    <3>1. Complete(wb[w], "FAILED") /\ UNCHANGED <<requested, outputs>> /\ Owns(wb[w], wtok[w])
      BY <2>1, <2>3 DEF FailRow, MayFail
    <3>2. IF wb[w] = b THEN Written(b, w) ELSE Untouched(b)
      BY <2>1, <3>1 DEF Complete, Written, Untouched
    <3>3. QED
      BY <3>2
  <2>4. QED
    BY <2>2, <2>3
<1>9. ASSUME NEW w \in Worker, FailBuild(w) PROVE BuildStep(b)
  BY <1>1, <1>8, <1>9 DEF FailBuild
<1>10. ASSUME NEW w \in Worker, Acknowledge(w) PROVE BuildStep(b)
  <2>1. pc[w] \in {"ack", "jobAck"} /\ wb[w] \in Build
    BY <1>10 DEF Acknowledge
  <2>2. CASE Live(wb[w], wtok[w])
    <3>1. AcknowledgeCancellation(wb[w]) /\ status[wb[w]] \in Active
      BY <1>10, <2>2 DEF Acknowledge, Live
    <3>2. QED
      <4>1. (wb[w] = b => Acknowledged(b)) /\ (wb[w] # b => Untouched(b))
        BY <2>1, <3>1, AcknowledgedOrNot
      <4>2. QED
        BY <2>1, <2>2, <4>1
  <2>3. QED
    BY <1>1, <1>10, <2>2 DEF Acknowledge
<1>11. ASSUME NEW w \in Worker, NEW blocking \in BOOLEAN, StoreOutput(w, blocking) PROVE BuildStep(b)
  <2>1. wb[w] \in Build /\ pc[w] = "work"
    BY <1>11 DEF StoreOutput
  <2>2. CASE wb[w] # b
    BY <1>11, <2>1, <2>2 DEF StoreOutput, Untouched
  <2>3. CASE wb[w] = b
    <3>1. outputs'[b] = outputs[b] \cup {seen[w]} \cup (IF blocking THEN {"BLOCKING"} ELSE {})
      BY <1>11, <2>1, <2>3 DEF StoreOutput
    <3>2. Written(b, w)
      BY <1>11, <2>1, <2>3, <3>1 DEF StoreOutput, Written
    <3>3. QED
      BY <3>2
  <2>4. QED
    BY <2>2, <2>3
<1>12. CASE Tick
  BY <1>12 DEF Tick, Untouched
<1> HIDE DEF TypeOK, BuildStep
<1>13. QED
  BY RowStep, <1>1, <1>2, <1>3, <1>4, <1>5, <1>6, <1>7, <1>8, <1>9, <1>10, <1>11, <1>12

\* An accepted cancellation wins over every other terminal write.
LEMMA CancellationStep ==
  ASSUME TypeOK, CancellationWins, [Next]_vars
  PROVE  CancellationWins'
<1> SUFFICES ASSUME NEW b \in Build, requested'[b], status'[b] \in Terminal
             PROVE  status'[b] = "CANCELLED"
  BY DEF CancellationWins
<1>1. BuildStep(b)
  BY BuildSteps
<1>2. ASSUME NEW w \in Worker, Written(b, w) PROVE FALSE
  BY <1>2 DEF Written, Owns
<1>3. QED
  BY <1>1, <1>2, Stages DEF BuildStep, Untouched, Acknowledged, CancellationWins, Terminal

\* A cancelled row gets no manifest, export or index generation back.
LEMMA BareStep ==
  ASSUME TypeOK, CancelledIsBare, [Next]_vars
  PROVE  CancelledIsBare'
<1> SUFFICES ASSUME NEW b \in Build, status'[b] = "CANCELLED"
             PROVE  outputs'[b] \cap {"INDEXING", "COMPILING", "PACKAGING"} = {}
  BY DEF CancelledIsBare
<1>1. BuildStep(b)
  BY BuildSteps
<1>2. ASSUME NEW w \in Worker, Written(b, w) PROVE FALSE
  <2>1. status[b] \in Active /\ "CANCELLED" \notin Active
    BY <1>2, Stages DEF Written, Owns, Live, Terminal
  <2>2. NextStatus[status[b]] # "CANCELLED"
    BY <2>1, Stages
  <2>3. QED
    BY <1>2, <2>1, <2>2 DEF Written
<1>3. CASE Untouched(b)
  BY <1>3 DEF Untouched, CancelledIsBare
<1>4. CASE Acknowledged(b)
  BY <1>4 DEF Acknowledged
<1>5. QED
  BY <1>1, <1>2, <1>3, <1>4, Stages DEF BuildStep, Terminal

\* A step leaves a completed row alone and moves an active one to its next stage or
\* to a terminal status.
LEMMA MonotoneStep ==
  ASSUME TypeOK, [Next]_vars, NEW b \in Build
  PROVE  /\ status[b] \in Terminal => UNCHANGED <<status[b], outputs[b], requested[b]>>
         /\ status[b] \in Active => status'[b] \in {status[b], NextStatus[status[b]],
                                                    "FAILED", "CANCELLED"}
<1>1. BuildStep(b)
  BY BuildSteps
<1>2. ASSUME NEW w \in Worker, Written(b, w)
      PROVE  /\ status[b] \in Active
             /\ status'[b] \in {status[b], NextStatus[status[b]], "FAILED"}
  BY <1>2 DEF Written, Owns, Live
<1>3. QED
  BY <1>1, <1>2, Stages DEF BuildStep, Untouched, Acknowledged, Terminal

-----------------------------------------------------------------------------
(* What a step can do to a job. *)

\* A job's place, build, token and reading are its own business; its timers move
\* with the clock.
Frame(w) ==
    /\ pc'[w] = pc[w] /\ wb'[w] = wb[w] /\ wtok'[w] = wtok[w] /\ seen'[w] = seen[w]
    /\ renewal'[w] = renewal[w]
    /\ \/ left'[w] = left[w] /\ renewalLeft'[w] = renewalLeft[w]
       \/ Tick

\* A job that moves leaves the others alone.
LEMMA GotoOther ==
  ASSUME TypeOK, NEW v \in Worker, NEW w \in Worker, v # w, NEW p, NEW o, Goto(v, p, o)
  PROVE  Frame(w)
  BY DEF TypeOK, Goto, Frame, heartbeat

\* A step leaves a job alone, is a step of that job or its heartbeat, or is Tick.
LEMMA WorkerStep ==
  ASSUME TypeOK, [Next]_vars, NEW w \in Worker
  PROVE  JobNext(w) \/ HeartbeatNext(w) \/ Frame(w)
<1>1. ASSUME NEW v \in Worker, v # w, JobNext(v) PROVE Frame(w)
  <2>1. ASSUME NEW m \in queue, Deliver(v, m) PROVE Frame(w)
    BY <1>1, <2>1 DEF TypeOK, Frame, Deliver
  <2>2. CASE ReadBuild(v)
    <3>1. CASE status[wb[v]] \in Active
      BY <1>1, <2>2, <3>1 DEF TypeOK, Frame, ReadBuild, heartbeat
    <3>2. QED
      BY <1>1, <2>2, <3>1, GotoOther DEF ReadBuild
  <2>3. ASSUME Idle(v) PROVE Frame(w)
    BY <1>1, <2>3 DEF TypeOK, Idle, Frame
  <2>4. CASE Begin(v) \/ BeginLost(v) \/ StartStage(v) \/ Checkpoint(v) \/ ReuseOutput(v)
    BY <1>1, <2>4, GotoOther DEF Begin, BeginLost, StartStage, Checkpoint, ReuseOutput
  <2>5. ASSUME NEW blocking \in BOOLEAN, StoreOutput(v, blocking) PROVE Frame(w)
    BY <1>1, <2>5, GotoOther DEF StoreOutput
  <2>6. CASE Advance(v) \/ RejectBuild(v) \/ Refused(v) \/ HandleInvalid(v)
    BY <1>1, <2>6, GotoOther DEF Advance, RejectBuild, Refused, HandleInvalid
  <2>7. CASE Acknowledge(v) \/ RecordFailure(v) \/ FailBuild(v)
    BY <1>1, <2>7, GotoOther DEF Acknowledge, RecordFailure, FailBuild
  <2>8. ASSUME NEW kind \in {"retryable", "invalid", "other"}, StageFails(v, kind) PROVE Frame(w)
    BY <1>1, <2>8, GotoOther DEF StageFails
  <2>9. QED
    BY <1>1, <2>1, <2>2, <2>3, <2>4, <2>5, <2>6, <2>7, <2>8 DEF JobNext, Finish, WorkerCrash
<1>2. ASSUME NEW v \in Worker, v # w, HeartbeatNext(v) PROVE Frame(w)
  <2>1. CASE RenewBegin(v) \/ RenewCommit(v) \/ RenewConfirm(v) \/ RenewError(v)
    BY <1>2, <2>1 DEF TypeOK, Frame, RenewBegin, RenewCommit, RenewConfirm, RenewError, job
  <2>2. CASE LoseAdmission(v) \/ HearCancellation(v)
    BY <1>2, <2>2, GotoOther DEF LoseAdmission, HearCancellation, Interrupt
  <2>3. QED
    BY <1>2, <2>1, <2>2 DEF HeartbeatNext
<1>3. CASE UNCHANGED <<pc, job, heartbeat>>
  BY <1>3 DEF Frame, job, heartbeat
<1>4. CASE Tick
  BY <1>4 DEF Tick, Frame, job
<1>5. CASE DispatcherNext
  BY <1>3, <1>5 DEF DispatcherNext, ClaimAvailable, Enqueue, EnqueueReturns, EnqueueFails, DispatcherCrash
<1>6. CASE CancelNext
  BY <1>3, <1>6 DEF CancelNext, RequestCancellation, FindQueued, CancelQueued, AcknowledgeQueued, AbandonCancel
<1>7. CASE \/ \E b \in Build : Create(b)
           \/ \E m \in queue : LoseMessage(m)
           \/ UNCHANGED vars
  BY <1>3, <1>7 DEF Create, LoseMessage, vars
<1>8. QED
  BY <1>1, <1>2, <1>4, <1>5, <1>6, <1>7 DEF Next

-----------------------------------------------------------------------------
(* Tokens: carried once. *)

\* Outside of claims, enqueues, deliveries and the ends of jobs, tokens only
\* disappear from the outbox and the queue.
TokensKept ==
    /\ outbox' \subseteq outbox /\ queue' \subseteq queue /\ wtok' = wtok
    /\ \A w \in Worker : pc'[w] = "idle" => pc[w] = "idle"

\* A job that moves keeps its token and does not become idle.
LEMMA GotoTokens ==
  ASSUME TypeOK, NEW w \in Worker, NEW p, NEW o, p # "idle", Goto(w, p, o), UNCHANGED transport
  PROVE  TokensKept
  BY DEF TypeOK, Goto, TokensKept, transport

\* The steps that pass tokens on.
LEMMA CarrierStep ==
  ASSUME TypeOK, [Next]_vars
  PROVE  \/ TokensKept
         \/ \E n \in Limits, locked \in SUBSET Build :
               \E f \in [Selected(n, locked) -> Token \ UsedTokens] : ClaimAvailable(n, locked, f)
         \/ \E o \in outbox : Enqueue(o)
         \/ \E w \in Worker, m \in queue : Deliver(w, m)
         \/ \E w \in Worker : Finish(w)
         \/ \E w \in Worker, again \in BOOLEAN : WorkerCrash(w, again)
<1>1. ASSUME NEW w \in Worker, JobNext(w),
             ~\E m \in queue : Deliver(w, m), ~Finish(w), ~\E again \in BOOLEAN : WorkerCrash(w, again)
      PROVE  TokensKept
  <2>1. CASE ReadBuild(w)
    <3>1. CASE status[wb[w]] \in Active
      BY <2>1, <3>1 DEF TypeOK, TokensKept, ReadBuild, transport
    <3>2. QED
      BY <2>1, <3>1, GotoTokens DEF ReadBuild
  <2>2. CASE Begin(w) \/ BeginLost(w) \/ StartStage(w) \/ Checkpoint(w)
    BY <2>2, GotoTokens DEF Begin, BeginLost, StartStage, Checkpoint
  <2>3. CASE ReuseOutput(w) \/ \E blocking \in BOOLEAN : StoreOutput(w, blocking)
    BY <2>3, GotoTokens DEF StoreOutput, ReuseOutput, AfterStage
  <2>4. CASE Advance(w) \/ RejectBuild(w) \/ Refused(w) \/ HandleInvalid(w)
    BY <2>4, GotoTokens DEF Advance, RejectBuild, Refused, HandleInvalid
  <2>5. CASE Acknowledge(w) \/ RecordFailure(w) \/ FailBuild(w)
    BY <2>5, GotoTokens DEF Acknowledge, RecordFailure, FailBuild
  <2>6. ASSUME NEW kind \in {"retryable", "invalid", "other"}, StageFails(w, kind) PROVE TokensKept
    BY <2>6, GotoTokens DEF StageFails
  <2>7. QED
    BY <1>1, <2>1, <2>2, <2>3, <2>4, <2>5, <2>6 DEF JobNext
<1>2. ASSUME NEW w \in Worker, HeartbeatNext(w) PROVE TokensKept
  <2>1. CASE RenewBegin(w) \/ RenewCommit(w) \/ RenewConfirm(w) \/ RenewError(w)
    BY <2>1 DEF TypeOK, TokensKept, RenewBegin, RenewCommit, RenewConfirm, RenewError, job, transport
  <2>2. CASE LoseAdmission(w) \/ HearCancellation(w)
    BY <2>2, GotoTokens DEF LoseAdmission, HearCancellation, Interrupt
  <2>3. QED
    BY <1>2, <2>1, <2>2 DEF HeartbeatNext
<1>3. CASE CancelNext
  BY <1>3 DEF CancelNext, RequestCancellation, FindQueued, CancelQueued, AcknowledgeQueued, AbandonCancel,
              TokensKept, job
<1>4. ASSUME NEW o \in outbox, EnqueueReturns(o) \/ EnqueueFails(o) \/ DispatcherCrash(o) PROVE TokensKept
  BY <1>4 DEF EnqueueReturns, EnqueueFails, DispatcherCrash, TokensKept, job
<1>5. CASE \/ \E b \in Build : Create(b)
           \/ \E m \in queue : LoseMessage(m)
           \/ Tick
           \/ UNCHANGED vars
  BY <1>5 DEF Create, LoseMessage, Tick, vars, TokensKept, job, transport
<1>6. QED
  BY <1>1, <1>2, <1>3, <1>4, <1>5 DEF Next, DispatcherNext

\* A job that ends hands its token to at most one message.
LEMMA EndStep ==
  ASSUME TypeOK, TokenHeldOnce, NEW w \in Worker, pc[w] # "idle", Idle(w), UNCHANGED outbox,
         queue' \subseteq queue \cup Retried(w)
  PROVE  TokenHeldOnce'
<1>1. wtok[w] \in Token /\ wtok'[w] = NoToken /\ \A v \in Worker \ {w} : wtok'[v] = wtok[v]
  BY DEF TypeOK, Idle
<1>2. \A m \in queue' : m \in queue \/ m.token = wtok[w]
  BY DEF Retried
<1>3. \A m, n \in queue' : m.token = n.token => m = n
  <2>1. \A m, n \in Retried(w) : m = n
    BY DEF Retried
  <2>2. \A m \in Retried(w) : m.token = wtok[w]
    BY DEF Retried
  <2>3. QED
    BY <2>1, <2>2 DEF TokenHeldOnce
<1>4. \A v \in Worker : pc'[v] = "idle" => v = w \/ pc[v] = "idle"
  BY DEF TypeOK, Idle
<1>5. \A m \in queue : m.token \in Token
  BY DEF TypeOK, Message
<1>6. \A o \in outbox : o[2] \in Token
  BY DEF TypeOK
<1>7. \A m \in queue', v \in Worker : wtok'[v] # m.token
  BY <1>1, <1>2, <1>5 DEF TokenHeldOnce
<1>8. \A o \in outbox' : o[3] = "claimed" =>
          (\A m \in queue' : m.token # o[2]) /\ (\A v \in Worker : wtok'[v] # o[2])
  BY <1>1, <1>2, <1>6 DEF TokenHeldOnce
<1>9. \A v, u \in Worker : wtok'[v] = wtok'[u] /\ wtok'[v] # NoToken => v = u
  BY <1>1 DEF TokenHeldOnce
<1>10. QED
  BY <1>1, <1>3, <1>4, <1>7, <1>8, <1>9 DEF TokenHeldOnce

\* No step makes a second carrier of a token.
LEMMA TokenStep ==
  ASSUME TypeOK, TokenHeldOnce, [Next]_vars
  PROVE  TokenHeldOnce'
<1>1. CASE TokensKept
  BY <1>1 DEF TokensKept, TokenHeldOnce
<1>2. ASSUME NEW n \in Limits, NEW locked \in SUBSET Build,
             NEW f \in [Selected(n, locked) -> Token \ UsedTokens], ClaimAvailable(n, locked, f)
      PROVE  TokenHeldOnce'
  <2>1. queue' = queue /\ wtok' = wtok /\ pc' = pc
    BY <1>2 DEF ClaimAvailable, job
  <2>2. \A o \in outbox' : o \in outbox \/
            \E b \in Selected(n, locked) : o = <<b, f[b], "claimed">> /\ f[b] \notin UsedTokens
    BY <1>2 DEF ClaimAvailable
  <2>3. \A o \in outbox : o[2] \in UsedTokens
    BY DEF UsedTokens
  <2>4. \A m \in queue : m.token \in UsedTokens
    BY DEF UsedTokens
  <2>5. \A w \in Worker : wtok[w] \in UsedTokens
    BY DEF UsedTokens
  <2>6. \A a, b \in Selected(n, locked) : f[a] = f[b] => a = b
    BY <1>2 DEF ClaimAvailable
  <2>7. \A o, p \in outbox' : o[2] = p[2] => o = p
    BY <2>2, <2>3, <2>6 DEF TokenHeldOnce
  <2>8. \A o \in outbox' : o[3] = "claimed" =>
          (\A m \in queue : m.token # o[2]) /\ (\A w \in Worker : wtok[w] # o[2])
    BY <2>2, <2>4, <2>5 DEF TokenHeldOnce
  <2>9. QED
    BY <2>1, <2>7, <2>8 DEF TokenHeldOnce
<1>3. ASSUME NEW o \in outbox, Enqueue(o) PROVE TokenHeldOnce'
  <2>1. o[2] \in Token /\ o[3] = "claimed" /\ wtok' = wtok /\ pc' = pc
    BY <1>3 DEF Enqueue, TypeOK, job
  <2>2. \A p \in outbox' : \/ p \in outbox /\ p # o
                           \/ p = <<o[1], o[2], "sent">>
    BY <1>3 DEF Enqueue
  <2>3. \A m \in queue' : m \in queue \/ m = [build |-> o[1], token |-> o[2], tries |-> MaxRetries]
    BY <1>3 DEF Enqueue
  <2>4. \A m, n \in queue' : m.token = n.token => m = n
    BY <2>1, <2>3 DEF TokenHeldOnce
  <2>5. \A p, q \in outbox' : p[2] = q[2] => p = q
    BY <2>2 DEF TokenHeldOnce
  <2>6. \A p \in outbox' : p[3] = "claimed" => p \in outbox /\ p[2] # o[2]
    BY <2>2 DEF TokenHeldOnce
  <2>7. QED
    BY <2>1, <2>3, <2>4, <2>5, <2>6 DEF TokenHeldOnce
<1>4. ASSUME NEW w \in Worker, NEW m \in queue, Deliver(w, m) PROVE TokenHeldOnce'
  <2>1. m.token \in Token
    BY DEF TypeOK, Message
  <2>2. /\ outbox' = outbox /\ queue' = queue \ {m}
        /\ wtok'[w] = m.token /\ \A v \in Worker \ {w} : wtok'[v] = wtok[v]
        /\ pc'[w] = "begin" /\ \A v \in Worker \ {w} : pc'[v] = pc[v]
    BY <1>4 DEF Deliver, TypeOK
  <2>3. QED
    BY <2>1, <2>2 DEF TokenHeldOnce
<1>5. ASSUME NEW w \in Worker, Finish(w) PROVE TokenHeldOnce'
  <2>1. pc[w] # "idle" /\ Idle(w) /\ outbox' = outbox /\ queue' \subseteq queue \cup Retried(w)
    BY <1>5 DEF Finish
  <2>2. QED
    BY <2>1, EndStep
<1>6. ASSUME NEW w \in Worker, NEW again \in BOOLEAN, WorkerCrash(w, again) PROVE TokenHeldOnce'
  <2>1. pc[w] # "idle" /\ Idle(w) /\ outbox' = outbox /\ queue' \subseteq queue \cup Retried(w)
    BY <1>6 DEF WorkerCrash
  <2>2. QED
    BY <2>1, EndStep
<1>7. QED
  BY CarrierStep, <1>1, <1>2, <1>3, <1>4, <1>5, <1>6

\* A row's token changes only to none or to a fresh one.
LEMMA RowToken ==
  ASSUME TypeOK, [Next]_vars, NEW b \in Build
  PROVE  token'[b] \in {token[b], NoToken} \/ token'[b] \notin UsedTokens
<1> USE DEF TypeOK
<1> DEFINE Goal == token'[b] \in {token[b], NoToken} \/ token'[b] \notin UsedTokens
<1>1. CASE UNCHANGED token
  BY <1>1
<1>2. ASSUME NEW n \in Limits, NEW locked \in SUBSET Build,
             NEW f \in [Selected(n, locked) -> Token \ UsedTokens], ClaimAvailable(n, locked, f)
      PROVE  Goal
  BY <1>2 DEF ClaimAvailable
<1>3. ASSUME NEW a \in Build, NEW s, Complete(a, s) PROVE Goal
  BY <1>3 DEF Complete
<1>4. ASSUME NEW a \in Build, NEW t, Release(a, t) PROVE Goal
  BY <1>4 DEF Release
<1>5. ASSUME NEW o \in outbox, EnqueueFails(o) PROVE Goal
  <2>1. o[1] \in Build
    OBVIOUS
  <2>2. QED
    BY <1>4, <1>5, <2>1 DEF EnqueueFails
<1>6. ASSUME NEW c \in cancels, AcknowledgeQueued(c) PROVE Goal
  <2>1. c.build \in Build
    BY DEF CancelRequest
  <2>2. QED
    BY <1>1, <1>3, <1>6, <2>1 DEF AcknowledgeQueued, AcknowledgeCancellation, rows, admission
<1>7. ASSUME NEW w \in Worker, Begin(w) \/ RenewCommit(w) PROVE Goal
  BY <1>1, <1>7 DEF Begin, RenewCommit
<1>8. ASSUME NEW w \in Worker, Advance(w) PROVE Goal
  BY <1>1, <1>3, <1>8 DEF Advance, admission
<1>9. ASSUME NEW w \in Worker, RejectBuild(w) \/ FailBuild(w) PROVE Goal
  <2>1. wb[w] \in Build
    BY <1>9 DEF RejectBuild, FailBuild
  <2>2. QED
    BY <1>1, <1>3, <1>9, <2>1 DEF RejectBuild, FailBuild, FailRow, rows, admission
<1>10. ASSUME NEW w \in Worker, Acknowledge(w) PROVE Goal
  <2>1. wb[w] \in Build
    BY <1>10 DEF Acknowledge
  <2>2. QED
    BY <1>1, <1>3, <1>10, <2>1 DEF Acknowledge, AcknowledgeCancellation, rows, admission
<1>11. ASSUME NEW w \in Worker, Finish(w) PROVE Goal
  <2>1. wb[w] \in Build
    BY <1>11 DEF Finish
  <2>2. QED
    BY <1>1, <1>4, <1>11, <2>1 DEF Finish
<1>12. CASE \/ UNCHANGED rows \/ Tick
            \/ \E a \in Build : Create(a) \/ RequestCancellation(a)
            \/ \E w \in Worker, blocking \in BOOLEAN : StoreOutput(w, blocking)
  BY <1>1, <1>12 DEF Tick, Create, RequestCancellation, StoreOutput, rows, admission
<1> HIDE DEF TypeOK
<1>13. QED
  BY RowStep, <1>2, <1>5, <1>6, <1>7, <1>8, <1>9, <1>10, <1>11, <1>12

-----------------------------------------------------------------------------
(* Stages and their outputs. *)

\* Where a job that moves arrives.
LEMMA GotoArrives ==
  ASSUME TypeOK, NEW w \in Worker, NEW p, NEW o, Goto(w, p, o)
  PROVE  /\ pc'[w] = p /\ wb'[w] = wb[w] /\ wtok'[w] = wtok[w]
         /\ p \in {"work", "advance", "reject"} => seen'[w] = seen[w]
  BY DEF TypeOK, Goto

\* A job is about to advance only after the stage it read: there is nothing to do for
\* QUEUED, the output was found, or the job has just stored it.
LEMMA AdvanceEntry ==
  ASSUME TypeOK, [Next]_vars, NEW w \in Worker, pc'[w] = "advance"
  PROVE  /\ wb'[w] = wb[w] /\ wtok'[w] = wtok[w] /\ seen'[w] = seen[w] /\ pc[w] # "idle"
         /\ \/ pc[w] = "advance"
            \/ StartStage(w) /\ seen[w] = "QUEUED"
            \/ ReuseOutput(w) /\ AfterStage(w, outputs[wb[w]]) = "advance"
            \/ pc[w] = "work" /\ seen[w] \in Producing /\ token'[wb[w]] = wtok[w]
               /\ seen[w] \in outputs'[wb[w]] /\ AfterStage(w, outputs'[wb[w]]) = "advance"
<1> DEFINE Goal == /\ wb'[w] = wb[w] /\ wtok'[w] = wtok[w] /\ seen'[w] = seen[w] /\ pc[w] # "idle"
                   /\ \/ pc[w] = "advance"
                      \/ StartStage(w) /\ seen[w] = "QUEUED"
                      \/ ReuseOutput(w) /\ AfterStage(w, outputs[wb[w]]) = "advance"
                      \/ pc[w] = "work" /\ seen[w] \in Producing /\ token'[wb[w]] = wtok[w]
                         /\ seen[w] \in outputs'[wb[w]] /\ AfterStage(w, outputs'[wb[w]]) = "advance"
<1>1. CASE Frame(w)
  BY <1>1 DEF Frame
<1>2. ASSUME NEW p, NEW o, Goto(w, p, o), p # "advance" PROVE Goal
  BY <1>2, GotoArrives
<1>3. ASSUME NEW m \in queue, Deliver(w, m) PROVE Goal
  BY <1>3 DEF Deliver, TypeOK
<1>4. CASE ReadBuild(w)
  BY <1>2, <1>4 DEF ReadBuild, TypeOK
<1>5. ASSUME Idle(w) PROVE Goal
  BY <1>5 DEF Idle, TypeOK
<1>6. CASE StartStage(w)
  <2>1. pc'[w] = IF seen[w] = "QUEUED" THEN "advance" ELSE "work"
    BY <1>6, GotoArrives DEF StartStage
  <2>2. QED
    BY <1>6, <2>1, GotoArrives DEF StartStage
<1>7. CASE ReuseOutput(w)
  BY <1>7, GotoArrives DEF ReuseOutput
<1>8. ASSUME NEW blocking \in BOOLEAN, StoreOutput(w, blocking) PROVE Goal
  <2>1. wb[w] \in Build
    BY <1>8 DEF StoreOutput, TypeOK
  <2>2. /\ seen[w] \in outputs'[wb[w]] /\ Goto(w, AfterStage(w, outputs'[wb[w]]), "none")
    BY <1>8, <2>1 DEF StoreOutput, TypeOK
  <2>3. token'[wb[w]] = wtok[w] /\ seen[w] \in Producing /\ pc[w] = "work"
    BY <1>8 DEF StoreOutput, Owns, Live, admission
  <2>4. QED
    BY <2>2, <2>3, GotoArrives
<1>9. CASE Begin(w) \/ BeginLost(w) \/ Checkpoint(w) \/ Refused(w) \/ HandleInvalid(w)
  BY <1>2, <1>9 DEF Begin, BeginLost, Checkpoint, Refused, HandleInvalid
<1>10. CASE Advance(w) \/ RejectBuild(w) \/ Acknowledge(w) \/ RecordFailure(w) \/ FailBuild(w)
  BY <1>2, <1>10 DEF Advance, RejectBuild, Acknowledge, RecordFailure, FailBuild
<1>11. ASSUME NEW kind \in {"retryable", "invalid", "other"}, StageFails(w, kind) PROVE Goal
  BY <1>2, <1>11 DEF StageFails
<1>12. CASE RenewBegin(w) \/ RenewCommit(w) \/ RenewConfirm(w) \/ RenewError(w)
  BY <1>12 DEF RenewBegin, RenewCommit, RenewConfirm, RenewError, job
<1>13. CASE LoseAdmission(w) \/ HearCancellation(w)
  BY <1>2, <1>13 DEF LoseAdmission, HearCancellation, Interrupt
<1>14. QED
  BY WorkerStep, <1>1, <1>3, <1>4, <1>5, <1>6, <1>7, <1>8, <1>9, <1>10, <1>11, <1>12, <1>13
     DEF JobNext, HeartbeatNext, Finish, WorkerCrash

\* A stage is its own place in the pipeline: its next status is another.
LEMMA NextDiffers ==
  ASSUME NEW s \in Active
  PROVE  NextStatus[s] # s
  BY NextPosition, Positions, Stages

\* A job about to advance its own build keeps the stage's output (AdvanceEarned).
LEMMA AdvanceStep ==
  ASSUME TypeOK, TokenHeldOnce, AdvanceEarned, [Next]_vars
  PROVE  AdvanceEarned'
<1> SUFFICES ASSUME NEW w \in Worker, pc'[w] = "advance", token'[wb'[w]] = wtok'[w],
                    status'[wb'[w]] = seen'[w]
             PROVE  /\ seen'[w] \in Producing => seen'[w] \in outputs'[wb'[w]]
                    /\ seen'[w] = "VALIDATING" => "BLOCKING" \notin outputs'[wb'[w]]
  BY DEF AdvanceEarned
<1> DEFINE b == wb[w]
<1>1. /\ wb'[w] = b /\ wtok'[w] = wtok[w] /\ seen'[w] = seen[w]
      /\ b \in Build /\ wtok[w] \in Token /\ seen[w] \in Active
  BY AdvanceEntry DEF TypeOK
<1>2. CASE pc[w] = "advance"
  <2>1. wtok[w] \in UsedTokens
    BY DEF UsedTokens
  <2>2. token[b] = wtok[w]
    BY <1>1, <2>1, RowToken
  <2>3. BuildStep(b)
    BY <1>1, BuildSteps
  <2>4. CASE Untouched(b)
    BY <1>1, <1>2, <2>2, <2>4 DEF Untouched, AdvanceEarned
  <2>5. CASE status'[b] = "QUEUED"
    BY <1>1, <2>5 DEF Producing
  <2>6. CASE status'[b] = status[b] /\ outputs'[b] = outputs[b]
    BY <1>1, <1>2, <2>2, <2>6 DEF AdvanceEarned
  <2>7. CASE Acknowledged(b)
    BY <1>1, <2>7, Stages DEF Acknowledged, Terminal
  <2>8. ASSUME NEW v \in Worker, Written(b, v) PROVE FALSE
    <3>1. v = w
      BY <1>1, <2>2, <2>8 DEF Written, Owns, Live, TokenHeldOnce
    <3>2. status[b] \in Active /\ status'[b] \in {"FAILED", NextStatus[status[b]]} /\ (status'[b] = "FAILED" \/ status[b] = seen[w])
      BY <1>2, <2>8, <3>1 DEF Written, Owns, Live
    <3>3. QED
      BY <1>1, <3>2, NextDiffers, Stages DEF Terminal
  <2>9. QED
    BY <2>3, <2>4, <2>5, <2>6, <2>7, <2>8 DEF BuildStep
<1>3. CASE StartStage(w) /\ seen[w] = "QUEUED"
  BY <1>1, <1>3 DEF Producing
<1>4. CASE ReuseOutput(w) /\ AfterStage(w, outputs[b]) = "advance"
  <2>1. outputs' = outputs
    BY <1>4 DEF ReuseOutput, rows
  <2>2. QED
    BY <1>1, <1>4, <2>1 DEF ReuseOutput, AfterStage
<1>5. CASE seen[w] \in outputs'[b] /\ AfterStage(w, outputs'[b]) = "advance"
  BY <1>1, <1>5 DEF AfterStage
<1>6. QED
  BY <1>2, <1>3, <1>4, <1>5, AdvanceEntry

\* No step moves a build past a stage without its output (StagesLeft).
LEMMA StagesStep ==
  ASSUME TypeOK, AdvanceEarned, StagesLeft, [Next]_vars
  PROVE  StagesLeft'
<1> DEFINE Left(s, out) ==
             /\ \A u \in Producing : Position[u] < Position[s] => u \in out
             /\ "BLOCKING" \in out => Position[s] <= Position["VALIDATING"]
<1> SUFFICES ASSUME NEW b \in Build
             PROVE  /\ "BLOCKING" \in outputs'[b] => "VALIDATING" \in Active
                    /\ status'[b] \in Active \cup {"READY"} => Left(status'[b], outputs'[b])
  BY DEF StagesLeft
<1>0. /\ "BLOCKING" \in outputs[b] => "VALIDATING" \in Active
      /\ status[b] \in Active \cup {"READY"} => Left(status[b], outputs[b])
  BY DEF StagesLeft
<1>1. BuildStep(b)
  BY BuildSteps
<1>2. CASE status'[b] = status[b] /\ outputs'[b] = outputs[b]
  BY <1>0, <1>2
<1>3. CASE status'[b] = "QUEUED" /\ outputs'[b] = outputs[b]
  <2>1. \A u \in Active : ~(Position[u] < Position["QUEUED"])
    BY PipelineAssumption DEF Active, FullPipeline, Position
  <2>2. Position["QUEUED"] <= Position["VALIDATING"]
    BY DEF Position
  <2>3. QED
    BY <1>0, <1>3, <2>1, <2>2 DEF Producing
<1>4. CASE Acknowledged(b)
  BY <1>0, <1>4, Stages DEF Acknowledged, Terminal
<1>5. ASSUME NEW w \in Worker, Written(b, w)
      PROVE  /\ "BLOCKING" \in outputs'[b] => "VALIDATING" \in Active
             /\ status'[b] \in Active \cup {"READY"} => Left(status'[b], outputs'[b])
  <2>1. status[b] \in Active /\ Left(status[b], outputs[b]) /\ wb[w] = b /\ token[b] = wtok[w]
    BY <1>0, <1>5 DEF Written, Owns, Live
  <2>2. CASE status'[b] = "FAILED" /\ outputs'[b] = outputs[b]
    BY <1>0, <2>2, Stages DEF Terminal
  <2>3. CASE /\ pc[w] = "advance" /\ status[b] = seen[w]
             /\ status'[b] = NextStatus[status[b]] /\ outputs'[b] = outputs[b]
    <3>1. /\ status[b] \in Producing => status[b] \in outputs[b]
          /\ status[b] = "VALIDATING" => "BLOCKING" \notin outputs[b]
      BY <2>1, <2>3 DEF AdvanceEarned
    <3>2. \A u \in Active : Position[u] < Position[status'[b]] =>
                               u = status[b] \/ Position[u] < Position[status[b]]
      BY <2>1, <2>3, NextPosition
    <3>3. \A u \in Producing : Position[u] < Position[status'[b]] => u \in outputs'[b]
      BY <2>1, <2>3, <3>1, <3>2 DEF Producing
    <3>4. ASSUME "BLOCKING" \in outputs'[b] PROVE Position[status'[b]] <= Position["VALIDATING"]
      <4>1. "VALIDATING" \in Active /\ status[b] # "VALIDATING" /\ Position[status[b]] <= Position["VALIDATING"]
        BY <1>0, <2>1, <2>3, <3>1, <3>4
      <4>2. ~(Position["VALIDATING"] < Position[status[b]])
        BY <2>1, <4>1, Positions
      <4>3. ~(Position["VALIDATING"] < Position[status'[b]])
        BY <3>2, <4>1, <4>2
      <4>4. status'[b] \in Active \cup {"READY"}
        BY <2>1, <2>3, Stages
      <4>5. QED
        BY <4>3, <4>4, Positions
    <3>5. QED
      BY <1>0, <2>3, <3>3, <3>4
  <2>4. CASE /\ status[b] = seen[w] /\ seen[w] \in Producing /\ status'[b] = status[b]
             /\ outputs'[b] = outputs[b] \cup {seen[w]}
    <3>1. seen[w] # "BLOCKING"
      BY <2>4 DEF Producing
    <3>2. QED
      BY <1>0, <2>1, <2>4, <3>1
  <2>5. CASE /\ status[b] = seen[w] /\ seen[w] = "VALIDATING" /\ status'[b] = status[b]
             /\ outputs'[b] = outputs[b] \cup {seen[w], "BLOCKING"}
    <3>1. Position[status'[b]] <= Position["VALIDATING"]
      BY <2>5, Positions
    <3>2. QED
      BY <2>1, <2>5, <3>1
  <2>6. QED
    BY <1>5, <2>2, <2>3, <2>4, <2>5 DEF Written
<1>6. QED
  BY <1>1, <1>2, <1>3, <1>4, <1>5 DEF BuildStep, Untouched

-----------------------------------------------------------------------------
(* Leases and deadlines. *)

\* A job that moves within the pipeline or its failure handler keeps its heartbeat;
\* anywhere else it has none.
LEMMA GotoBeat ==
  ASSUME TypeOK, NEW w \in Worker, NEW p, NEW o, Goto(w, p, o)
  PROVE  /\ pc'[w] = p /\ wb'[w] = wb[w] /\ wtok'[w] = wtok[w]
         /\ p \in InPipeline \cup InHandler =>
               left'[w] = left[w] /\ renewal'[w] = renewal[w] /\ renewalLeft'[w] = renewalLeft[w]
         /\ p \notin InPipeline \cup InHandler =>
               left'[w] = 0 /\ renewal'[w] = "none" /\ renewalLeft'[w] = 0
  BY DEF TypeOK, Goto, heartbeat

\* The heartbeat's own steps.
Renews(w) == RenewBegin(w) \/ RenewCommit(w) \/ RenewConfirm(w) \/ RenewError(w)

\* What a step can do to a job: leave it alone, start or end it, renew its lease,
\* read its build, or move it.
LEMMA JobMoves ==
  ASSUME TypeOK, [Next]_vars, NEW w \in Worker
  PROVE  \/ Frame(w)
         \/ \E m \in queue : Deliver(w, m)
         \/ Idle(w)
         \/ Renews(w)
         \/ ReadBuild(w) /\ pc'[w] = "check"
         \/ \E p \in PC \ {"idle"}, o \in Outcome : Goto(w, p, o) /\ pc[w] # "idle"
<1> DEFINE Moved == \E p \in PC \ {"idle"}, o \in Outcome : Goto(w, p, o) /\ pc[w] # "idle"
<1> USE DEF PC, InPipeline, InHandler, Outcome
<1>1. CASE ReadBuild(w)
  <2>1. CASE status[wb[w]] \in Active
    BY <1>1, <2>1 DEF ReadBuild, TypeOK
  <2>2. CASE status[wb[w]] \notin Active
    BY <1>1, <2>2 DEF ReadBuild
  <2>3. QED
    BY <2>1, <2>2
<1>2. CASE StartStage(w) \/ ReuseOutput(w) \/ \E blocking \in BOOLEAN : StoreOutput(w, blocking)
  BY <1>2 DEF StartStage, ReuseOutput, StoreOutput, AfterStage
<1>3. CASE Begin(w) \/ BeginLost(w) \/ Checkpoint(w) \/ Refused(w)
  BY <1>3 DEF Begin, BeginLost, Checkpoint, Refused
<1>4. outcome[w] \in Outcome
  BY DEF TypeOK
<1>5. CASE HandleInvalid(w) \/ RecordFailure(w)
  BY <1>4, <1>5 DEF HandleInvalid, RecordFailure
<1>6. CASE Advance(w) \/ RejectBuild(w) \/ Acknowledge(w)
  BY <1>6 DEF Advance, RejectBuild, Acknowledge
<1>7. CASE FailBuild(w)
  BY <1>7 DEF FailBuild
<1>8. ASSUME NEW kind \in {"retryable", "invalid", "other"}, StageFails(w, kind) PROVE Moved
  BY <1>8 DEF StageFails
<1>9. CASE LoseAdmission(w) \/ HearCancellation(w)
  BY <1>9 DEF LoseAdmission, HearCancellation, Interrupt, Beating
<1> HIDE DEF PC, InPipeline, InHandler, Outcome
<1>10. QED
  BY WorkerStep, <1>1, <1>2, <1>3, <1>5, <1>6, <1>7, <1>8, <1>9
     DEF JobNext, HeartbeatNext, Finish, WorkerCrash, Renews

\* Time only shortens leases.
LEMMA TickLease ==
  ASSUME TypeOK, Tick, NEW c \in Build
  PROVE  lease'[c] = IF lease[c] = 0 THEN 0 ELSE lease[c] - 1
  BY DEF Tick, Elapse

\* Time only shortens deadlines.
LEMMA TickShortens ==
  ASSUME TypeOK, Tick, NEW w \in Worker
  PROVE  /\ left'[w] = IF left[w] = 0 THEN 0 ELSE left[w] - 1
         /\ renewalLeft'[w] = IF renewalLeft[w] = 0 THEN 0 ELSE renewalLeft[w] - 1
<1>1. left \in [Worker -> Nat] /\ renewalLeft \in [Worker -> Nat]
  BY DEF TypeOK
<1>2. QED
  BY <1>1, ElapseType DEF Tick

\* No step makes a deadline longer than a lease, or leaves a renewal behind
\* (DeadlinesBounded).
LEMMA DeadlineStep ==
  ASSUME TypeOK, DeadlinesBounded, [Next]_vars
  PROVE  DeadlinesBounded'
<1> SUFFICES ASSUME NEW w \in Worker
             PROVE  /\ left'[w] <= Lease /\ renewalLeft'[w] <= Lease
                    /\ renewal'[w] # "none" => Beating(w)'
  BY DEF DeadlinesBounded
<1> DEFINE Goal == /\ left'[w] <= Lease /\ renewalLeft'[w] <= Lease
                   /\ renewal'[w] # "none" => Beating(w)'
<1>0. /\ left[w] \in Nat /\ renewalLeft[w] \in Nat
      /\ left[w] <= Lease /\ renewalLeft[w] <= Lease
      /\ renewal[w] # "none" => Beating(w)
  BY DEF DeadlinesBounded, TypeOK
<1>1. CASE Frame(w)
  <2>1. left'[w] <= left[w] /\ renewalLeft'[w] <= renewalLeft[w]
    BY <1>0, <1>1, TickShortens DEF Frame
  <2>2. left'[w] \in Nat /\ renewalLeft'[w] \in Nat
    BY TypeStep DEF TypeOK
  <2>3. QED
    BY <1>0, <1>1, <2>1, <2>2 DEF Frame, Beating
<1>2. ASSUME NEW m \in queue, Deliver(w, m) PROVE Goal
  <2>1. renewal[w] = "none"
    BY <1>0, <1>2 DEF Deliver, Beating, InPipeline, InHandler
  <2>2. QED
    BY <1>0, <1>2, <2>1 DEF Deliver, TypeOK
<1>3. CASE Idle(w)
  BY <1>3 DEF Idle, TypeOK
<1>4. CASE Renews(w)
  <2>1. pc' = pc /\ Beating(w)
    BY <1>4 DEF Renews, RenewBegin, RenewCommit, RenewConfirm, RenewError
  <2>2. left'[w] \in {left[w], renewalLeft[w]} /\ renewalLeft'[w] \in {renewalLeft[w], Lease, 0}
    BY <1>4 DEF Renews, RenewBegin, RenewCommit, RenewConfirm, RenewError, TypeOK
  <2>3. QED
    BY <1>0, <2>1, <2>2 DEF Beating
<1>5. CASE ReadBuild(w) /\ pc'[w] = "check"
  <2>1. left' = left /\ renewal' = renewal /\ renewalLeft' = renewalLeft
    BY <1>5, GotoArrives DEF ReadBuild, heartbeat
  <2>2. QED
    BY <1>0, <1>5, <2>1 DEF Beating, InPipeline
<1>6. ASSUME NEW p \in PC \ {"idle"}, NEW o \in Outcome, Goto(w, p, o) PROVE Goal
  BY <1>0, <1>6, GotoBeat DEF Beating
<1>7. QED
  BY JobMoves, <1>1, <1>2, <1>3, <1>4, <1>5, <1>6

\* Stage work starts only for a build without a request to cancel it.
LEMMA WorkEntry ==
  ASSUME TypeOK, [Next]_vars, NEW w \in Worker, pc'[w] = "work"
  PROVE  /\ wb'[w] = wb[w] /\ wtok'[w] = wtok[w]
         /\ \/ pc[w] = "work"
            \/ pc[w] = "check" /\ Owns(wb[w], wtok[w]) /\ UNCHANGED <<rows, transport>>
<1> DEFINE Goal == /\ wb'[w] = wb[w] /\ wtok'[w] = wtok[w]
                   /\ \/ pc[w] = "work"
                      \/ pc[w] = "check" /\ Owns(wb[w], wtok[w]) /\ UNCHANGED <<rows, transport>>
<1>1. CASE Frame(w)
  BY <1>1 DEF Frame
<1>2. ASSUME NEW p, NEW o, Goto(w, p, o), p # "work" PROVE Goal
  BY <1>2, GotoArrives
<1>3. ASSUME NEW m \in queue, Deliver(w, m) PROVE Goal
  BY <1>3 DEF Deliver, TypeOK
<1>4. CASE ReadBuild(w)
  BY <1>2, <1>4 DEF ReadBuild, TypeOK
<1>5. ASSUME Idle(w) PROVE Goal
  BY <1>5 DEF Idle, TypeOK
<1>6. CASE StartStage(w)
  BY <1>6, GotoArrives DEF StartStage
<1>7. CASE ReuseOutput(w) \/ \E blocking \in BOOLEAN : StoreOutput(w, blocking)
  BY <1>2, <1>7 DEF ReuseOutput, StoreOutput, AfterStage
<1>8. CASE Begin(w) \/ BeginLost(w) \/ Checkpoint(w) \/ Refused(w) \/ HandleInvalid(w)
  BY <1>2, <1>8 DEF Begin, BeginLost, Checkpoint, Refused, HandleInvalid
<1>9. CASE Advance(w) \/ RejectBuild(w) \/ Acknowledge(w) \/ RecordFailure(w) \/ FailBuild(w)
  BY <1>2, <1>9 DEF Advance, RejectBuild, Acknowledge, RecordFailure, FailBuild
<1>10. ASSUME NEW kind \in {"retryable", "invalid", "other"}, StageFails(w, kind) PROVE Goal
  BY <1>2, <1>10 DEF StageFails
<1>11. CASE RenewBegin(w) \/ RenewCommit(w) \/ RenewConfirm(w) \/ RenewError(w)
  BY <1>11 DEF RenewBegin, RenewCommit, RenewConfirm, RenewError, job
<1>12. CASE LoseAdmission(w) \/ HearCancellation(w)
  BY <1>2, <1>12 DEF LoseAdmission, HearCancellation, Interrupt
<1>13. QED
  BY WorkerStep, <1>1, <1>3, <1>4, <1>5, <1>6, <1>7, <1>8, <1>9, <1>10, <1>11, <1>12
     DEF JobNext, HeartbeatNext, Finish, WorkerCrash

\* An accepted request to cancel is never withdrawn.
LEMMA RequestsStay ==
  ASSUME TypeOK, [Next]_vars, NEW b \in Build, requested[b]
  PROVE  requested'[b]
<1>1. BuildStep(b)
  BY BuildSteps
<1>2. QED
  BY <1>1 DEF BuildStep, Untouched, Acknowledged, Written

\* A cancel request in progress after a step was there before it, has just been made,
\* or has found its job in the queue.
LEMMA CancelOrigin ==
  ASSUME TypeOK, [Next]_vars, NEW d \in cancels'
  PROVE  \/ d \in cancels
         \/ d.step = "check" /\ requested'[d.build]
         \/ \E c \in cancels : /\ c.build = d.build /\ c.token = d.token
                               /\ UNCHANGED <<pc, job>>
                               /\ \/ c.step = "found"
                                  \/ \E m \in queue : m.build = d.build /\ m.token = d.token
<1> DEFINE Goal == \/ d \in cancels
                   \/ d.step = "check" /\ requested'[d.build]
                   \/ \E c \in cancels : /\ c.build = d.build /\ c.token = d.token
                                         /\ UNCHANGED <<pc, job>>
                                         /\ \/ c.step = "found"
                                            \/ \E m \in queue : m.build = d.build /\ m.token = d.token
<1>1. ASSUME NEW b \in Build, RequestCancellation(b) PROVE Goal
  BY <1>1 DEF RequestCancellation, TypeOK
<1>2. ASSUME NEW c \in cancels, FindQueued(c) PROVE Goal
  <2>1. \A e : LET f == [c EXCEPT !.step = e] IN f.build = c.build /\ f.token = c.token
    BY DEF TypeOK, CancelRequest
  <2>2. d \in cancels \/ (d = [c EXCEPT !.step = "found"] /\ \E m \in queue : m.build = c.build /\ m.token = c.token)
    BY <1>2 DEF FindQueued
  <2>3. QED
    BY <1>2, <2>1, <2>2 DEF FindQueued
<1>3. ASSUME NEW c \in cancels, CancelQueued(c) PROVE Goal
  <2>1. \A e : LET f == [c EXCEPT !.step = e] IN f.build = c.build /\ f.token = c.token
    BY DEF TypeOK, CancelRequest
  <2>2. QED
    BY <1>3, <2>1 DEF CancelQueued
<1>4. ASSUME cancels' \subseteq cancels PROVE Goal
  BY <1>4
<1>5. ASSUME NEW c \in cancels, AcknowledgeQueued(c) \/ AbandonCancel(c) PROVE Goal
  BY <1>4, <1>5 DEF AcknowledgeQueued, AbandonCancel
<1>6. CASE DispatcherNext
  BY <1>4, <1>6 DEF DispatcherNext, ClaimAvailable, Enqueue, EnqueueReturns, EnqueueFails, DispatcherCrash
<1>7. ASSUME NEW w \in Worker, JobNext(w) PROVE Goal
  BY <1>4, <1>7 DEF JobNext, Deliver, Begin, BeginLost, ReadBuild, StartStage, Checkpoint, ReuseOutput,
                    StoreOutput, Advance, RejectBuild, Refused, StageFails, HandleInvalid, Acknowledge,
                    RecordFailure, FailBuild, Finish, WorkerCrash, transport
<1>8. ASSUME NEW w \in Worker, HeartbeatNext(w) PROVE Goal
  BY <1>4, <1>8 DEF HeartbeatNext, RenewBegin, RenewCommit, RenewConfirm, RenewError, LoseAdmission,
                    HearCancellation, Interrupt, transport
<1>9. CASE \/ \E b \in Build : Create(b)
           \/ \E m \in queue : LoseMessage(m)
           \/ Tick
           \/ UNCHANGED vars
  BY <1>4, <1>9 DEF Create, LoseMessage, Tick, vars, transport
<1>10. QED
  BY <1>1, <1>2, <1>3, <1>5, <1>6, <1>7, <1>8, <1>9 DEF Next, CancelNext

\* A build found in the queue by a cancellation is not at work, then or later
\* (CancelsRequested).
LEMMA CancelsStep ==
  ASSUME TypeOK, TokenHeldOnce, CancelsRequested, [Next]_vars
  PROVE  CancelsRequested'
<1> SUFFICES ASSUME NEW d \in cancels'
             PROVE  /\ requested'[d.build]
                    /\ d.step \in {"found", "acknowledge"} =>
                         \A w \in Worker : pc'[w] = "work" => wb'[w] # d.build \/ wtok'[w] # d.token
  BY DEF CancelsRequested
<1>1. d.build \in Build
  BY TypeStep DEF TypeOK, CancelRequest
<1>2. \A c \in cancels : requested[c.build]
  BY DEF CancelsRequested
<1>3. requested'[d.build]
  BY <1>1, <1>2, CancelOrigin, RequestsStay
<1>4. ASSUME d.step \in {"found", "acknowledge"}, NEW w \in Worker, pc'[w] = "work",
             wb'[w] = d.build, wtok'[w] = d.token
      PROVE  FALSE
  <2>1. wb[w] = d.build /\ wtok[w] = d.token
    BY <1>4, WorkEntry
  <2>2. CASE d \in cancels
    <3>1. pc[w] # "work" /\ requested[d.build]
      BY <1>4, <2>1, <2>2 DEF CancelsRequested
    <3>2. QED
      BY <1>4, <2>1, <3>1, WorkEntry DEF Owns
  <2>3. ASSUME NEW c \in cancels, c.build = d.build, c.token = d.token, UNCHANGED <<pc, job>>,
               \/ c.step = "found"
               \/ \E m \in queue : m.build = d.build /\ m.token = d.token
        PROVE  FALSE
    <3>1. pc[w] = "work"
      BY <1>4, <2>3
    <3>2. QED
      BY <2>1, <2>3, <3>1 DEF CancelsRequested, TokenHeldOnce
  <2>4. QED
    BY <1>4, <2>2, <2>3, CancelOrigin
<1>5. QED
  BY <1>3, <1>4

\* A job that goes on beating, at work or with no request to cancel its build, keeps a
\* live row live, unless it is disowned now: only time takes the lease away.
LEMMA RowKept ==
  ASSUME TypeOK, TokenHeldOnce, CancelsRequested, [Next]_vars, ~Tick,
         NEW w \in Worker, Beating(w), Beating(w)', wtok[w] \notin disowned',
         pc[w] = "work" \/ ~requested[wb[w]], Live(wb[w], wtok[w])
  PROVE  /\ token'[wb[w]] = wtok[w] /\ status'[wb[w]] \in Active
         /\ lease'[wb[w]] \in {lease[wb[w]], Lease}
<1> DEFINE b == wb[w]
           Kept == token'[b] = wtok[w] /\ status'[b] \in Active /\ lease'[b] \in {lease[b], Lease}
<1>0. /\ b \in Build /\ wtok[w] \in Token /\ token[b] = wtok[w] /\ lease[b] > 0
      /\ status[b] \in Active /\ status[b] \notin Terminal /\ status[b] # "ABSENT"
  BY Stages DEF Live, Beating, InPipeline, InHandler, TypeOK
<1> USE <1>0 DEF TypeOK
<1>1. CASE UNCHANGED rows
  BY <1>1 DEF rows, admission
<1>2. ASSUME NEW a \in Build, Create(a) \/ RequestCancellation(a) PROVE Kept
  BY <1>2 DEF Create, RequestCancellation, admission
<1>3. ASSUME NEW n \in Limits, NEW locked \in SUBSET Build,
             NEW f \in [Selected(n, locked) -> Token \ UsedTokens], ClaimAvailable(n, locked, f)
      PROVE  Kept
  <2>1. b \notin Expired
    BY DEF Expired
  <2>2. b \notin Selected(n, locked)
    BY <2>1 DEF Selected
  <2>3. QED
    BY <1>3, <2>1, <2>2 DEF ClaimAvailable
<1>4. ASSUME NEW o \in outbox, EnqueueFails(o) PROVE Kept
  <2>1. o[2] # wtok[w] \/ o[1] # b
    BY <1>4 DEF EnqueueFails, Jobs
  <2>2. QED
    BY <1>4, <2>1 DEF EnqueueFails, Release
<1>5. ASSUME NEW c \in cancels, AcknowledgeQueued(c) PROVE Kept
  <2>1. CASE Live(c.build, c.token) /\ c.build = b
    <3>1. c.token = wtok[w] /\ requested[b]
      BY <2>1 DEF Live, CancelsRequested
    <3>2. QED
      BY <1>5, <2>1, <3>1 DEF AcknowledgeQueued, CancelsRequested
  <2>2. CASE Live(c.build, c.token) /\ c.build # b
    BY <1>5, <2>2 DEF AcknowledgeQueued, AcknowledgeCancellation, Complete
  <2>3. QED
    BY <1>1, <1>5, <2>1, <2>2 DEF AcknowledgeQueued
<1>6. ASSUME NEW v \in Worker, wtok[v] = wtok[w] PROVE v = w
  BY <1>6 DEF TokenHeldOnce
<1>7. ASSUME NEW v \in Worker, Begin(v) PROVE Kept
  BY <1>7 DEF Begin
<1>8. ASSUME NEW v \in Worker, RenewCommit(v) PROVE Kept
  BY <1>8 DEF RenewCommit
<1>9. ASSUME NEW v \in Worker, Advance(v) PROVE Kept
  <2>1. CASE wb[v] = b
    <3>1. v = w
      BY <1>6, <1>9, <2>1 DEF Advance, Owns, Live
    <3>2. NextStatus[seen[w]] # "READY"
      BY <1>9, <3>1, GotoBeat DEF Advance, Beating, InPipeline, InHandler
    <3>3. seen[w] \in Active /\ NextStatus[seen[w]] \in Active
      BY <3>2, Stages
    <3>4. QED
      BY <1>9, <3>1, <3>2, <3>3 DEF Advance, admission
  <2>2. CASE wb[v] # b
    BY <1>9, <2>2 DEF Advance, Complete, admission
  <2>3. QED
    BY <2>1, <2>2
<1>10. ASSUME NEW v \in Worker, RejectBuild(v) \/ (FailBuild(v) /\ MayFail(v)) PROVE Kept
  <2>1. MayFail(v) /\ FailRow(v) /\ Goto(v, "finish", outcome'[v])
    BY <1>10 DEF RejectBuild, FailBuild, Goto
  <2>2. CASE status[wb[v]] \in Terminal
    BY <1>1, <2>1, <2>2 DEF FailRow
  <2>3. CASE status[wb[v]] \notin Terminal
    <3>1. Owns(wb[v], wtok[v]) /\ Complete(wb[v], "FAILED")
      BY <2>1, <2>3 DEF MayFail, FailRow
    <3>2. v # w
      BY <2>1, GotoBeat DEF Beating, InPipeline, InHandler
    <3>3. wb[v] # b
      BY <1>6, <3>1, <3>2 DEF Owns, Live
    <3>4. QED
      BY <3>1, <3>3 DEF Complete
  <2>4. QED
    BY <2>2, <2>3
<1>11. ASSUME NEW v \in Worker, FailBuild(v) PROVE Kept
  BY <1>1, <1>10, <1>11 DEF FailBuild
<1>12. ASSUME NEW v \in Worker, Acknowledge(v) PROVE Kept
  <2>1. CASE Live(wb[v], wtok[v])
    <3>1. AcknowledgeCancellation(wb[v]) /\ Goto(v, "finish", "return")
      BY <1>12, <2>1 DEF Acknowledge
    <3>2. v # w
      BY <3>1, GotoBeat DEF Beating, InPipeline, InHandler
    <3>3. wb[v] # b
      BY <1>6, <2>1, <3>2 DEF Live
    <3>4. QED
      BY <3>1, <3>3 DEF AcknowledgeCancellation, Complete
  <2>2. QED
    BY <1>1, <1>12, <2>1 DEF Acknowledge
<1>13. ASSUME NEW v \in Worker, Finish(v) PROVE Kept
  <2>1. v # w
    BY <1>13 DEF Finish, Beating, InPipeline, InHandler
  <2>2. wtok[v] # wtok[w] /\ wb[v] \in Build
    BY <1>6, <1>13, <2>1 DEF Finish
  <2>3. CASE outcome[v] # "retry"
    BY <1>13, <2>2, <2>3 DEF Finish, Release
  <2>4. CASE outcome[v] = "retry"
    BY <1>13, <2>2, <2>4 DEF Finish
  <2>5. QED
    BY <2>3, <2>4
<1>14. ASSUME NEW v \in Worker, NEW blocking \in BOOLEAN, StoreOutput(v, blocking) PROVE Kept
  BY <1>14 DEF StoreOutput, admission
<1> HIDE <1>0 DEF TypeOK
<1>15. QED
  BY RowStep, <1>1, <1>2, <1>3, <1>4, <1>5, <1>7, <1>8, <1>9, <1>10, <1>11, <1>12, <1>13, <1>14

\* A job that beats after a step was beating before it, or has just begun with a full
\* lease.
LEMMA BeatEntry ==
  ASSUME TypeOK, [Next]_vars, NEW w \in Worker, Beating(w)', ~Beating(w)
  PROVE  Begin(w)
<1> USE DEF Beating, InPipeline, InHandler
<1>1. ASSUME NEW p, NEW o, Goto(w, p, o), p \notin InPipeline \cup InHandler PROVE FALSE
  BY <1>1, GotoArrives
<1>2. CASE Frame(w) \/ Renews(w)
  BY <1>2 DEF Frame, Renews, RenewBegin, RenewCommit, RenewConfirm, RenewError
<1>3. ASSUME NEW m \in queue, Deliver(w, m) PROVE FALSE
  BY <1>3 DEF Deliver, TypeOK
<1>4. CASE Idle(w)
  BY <1>4 DEF Idle, TypeOK
<1>5. CASE BeginLost(w) \/ (Acknowledge(w) /\ pc[w] = "jobAck")
  BY <1>1, <1>5 DEF BeginLost, Acknowledge
<1>6. CASE \/ LoseAdmission(w) \/ HearCancellation(w)
           \/ ReadBuild(w) \/ StartStage(w) \/ Checkpoint(w) \/ ReuseOutput(w) \/ Advance(w)
           \/ RejectBuild(w) \/ Refused(w) \/ HandleInvalid(w) \/ RecordFailure(w) \/ FailBuild(w)
           \/ (Acknowledge(w) /\ pc[w] # "jobAck")
           \/ \E blocking \in BOOLEAN : StoreOutput(w, blocking)
           \/ \E kind \in {"retryable", "invalid", "other"} : StageFails(w, kind)
  BY <1>6 DEF LoseAdmission, HearCancellation, ReadBuild, StartStage, Checkpoint, ReuseOutput, Advance,
              RejectBuild, Refused, HandleInvalid, RecordFailure, FailBuild, Acknowledge, StoreOutput, StageFails
<1> HIDE DEF Beating, InPipeline, InHandler
<1>7. QED
  BY WorkerStep, <1>2, <1>3, <1>4, <1>5, <1>6
     DEF JobNext, HeartbeatNext, Finish, WorkerCrash, Renews

\* A job that was disowned stays so while it runs.
LEMMA DisownedStays ==
  ASSUME [Next]_vars, NEW w \in Worker, wtok'[w] = wtok[w], wtok[w] \in disowned
  PROVE  wtok[w] \in disowned'
<1>1. CASE disowned' = disowned
  BY <1>1
<1>2. CASE ForgetEnded
  BY <1>2 DEF ForgetEnded, Jobs
<1>3. ASSUME NEW v \in Worker, JobNext(v) PROVE disowned' = disowned \/ ForgetEnded
  BY <1>3 DEF JobNext, Deliver, Begin, BeginLost, ReadBuild, StartStage, Checkpoint, ReuseOutput, StoreOutput,
              Advance, RejectBuild, Refused, StageFails, HandleInvalid, Acknowledge, RecordFailure, FailBuild,
              Finish, WorkerCrash, transport
<1>4. ASSUME NEW v \in Worker, HeartbeatNext(v) PROVE disowned' = disowned
  BY <1>4 DEF HeartbeatNext, RenewBegin, RenewCommit, RenewConfirm, RenewError, LoseAdmission,
              HearCancellation, Interrupt, transport
<1>5. CASE CancelNext
  BY <1>1, <1>2, <1>5 DEF CancelNext, RequestCancellation, FindQueued, CancelQueued, AcknowledgeQueued,
                          AbandonCancel
<1>6. CASE DispatcherNext
  BY <1>6 DEF DispatcherNext, ClaimAvailable, Enqueue, EnqueueReturns, EnqueueFails, DispatcherCrash
<1>7. CASE \/ \E b \in Build : Create(b)
           \/ \E m \in queue : LoseMessage(m)
           \/ Tick
           \/ UNCHANGED vars
  BY <1>1, <1>2, <1>7 DEF Create, LoseMessage, Tick, vars, transport
<1>8. QED
  BY <1>1, <1>2, <1>3, <1>4, <1>5, <1>6, <1>7 DEF Next

\* Every deadline that a heartbeat holds or is about to confirm stays covered by the
\* row's lease (HeartbeatCovered).
LEMMA LeaseStep ==
  ASSUME TypeOK, TokenHeldOnce, DeadlinesBounded, CancelsRequested, HeartbeatCovered, [Next]_vars
  PROVE  HeartbeatCovered'
<1> SUFFICES ASSUME NEW w \in Worker, Beating(w)', wtok'[w] \notin disowned', pc'[w] = "work" \/ ~requested'[wb'[w]]
             PROVE  /\ left'[w] > 0 => Live(wb[w], wtok[w])' /\ lease'[wb'[w]] >= left'[w]
                    /\ renewal'[w] = "committed" /\ renewalLeft'[w] > 0 =>
                          Live(wb[w], wtok[w])' /\ lease'[wb'[w]] >= renewalLeft'[w]
  BY DEF HeartbeatCovered
<1> DEFINE b == wb[w]
<1>1. TypeOK' /\ \A c \in Build : lease[c] \in Nat /\ lease'[c] \in Nat
  BY TypeStep DEF TypeOK
<1>2. left[w] \in Nat /\ left[w] <= Lease /\ renewalLeft[w] \in Nat /\ renewalLeft[w] <= Lease
  BY DEF TypeOK, DeadlinesBounded
<1>3. CASE Beating(w)
  <2>1. b \in Build /\ pc[w] # "idle"
    BY <1>3 DEF TypeOK, Beating, InPipeline, InHandler
  <2>2. wb'[w] = b /\ wtok'[w] = wtok[w]
    BY <1>3, JobMoves, GotoArrives DEF Beating, InPipeline, InHandler, Frame, Deliver, Idle, Renews,
       RenewBegin, RenewCommit, RenewConfirm, RenewError, ReadBuild, job, TypeOK
  <2>3. pc[w] = "work" \/ ~requested[b]
    BY <2>1, <2>2, WorkEntry, RequestsStay DEF Owns
  <2>4. /\ left[w] > 0 => Live(b, wtok[w]) /\ lease[b] >= left[w]
        /\ renewal[w] = "committed" /\ renewalLeft[w] > 0 => Live(b, wtok[w]) /\ lease[b] >= renewalLeft[w]
    BY <1>3, <2>2, <2>3, DisownedStays DEF HeartbeatCovered
  <2>5. CASE Tick
    <3>1. /\ token' = token /\ status' = status /\ renewal' = renewal
          /\ lease'[b] = IF lease[b] = 0 THEN 0 ELSE lease[b] - 1
      BY <2>1, <2>5, TickLease DEF Tick
    <3>2. /\ left'[w] = IF left[w] = 0 THEN 0 ELSE left[w] - 1
          /\ renewalLeft'[w] = IF renewalLeft[w] = 0 THEN 0 ELSE renewalLeft[w] - 1
      BY <2>5, TickShortens
    <3>3. QED
      <4>1. lease[b] \in Nat
        BY <1>1, <2>1
      <4>2. left'[w] > 0 => Live(wb[w], wtok[w])' /\ lease'[b] >= left'[w]
        BY <1>2, <2>2, <2>4, <3>1, <3>2, <4>1 DEF Live
      <4>3. renewal'[w] = "committed" /\ renewalLeft'[w] > 0 =>
               Live(wb[w], wtok[w])' /\ lease'[b] >= renewalLeft'[w]
        BY <1>2, <2>2, <2>4, <3>1, <3>2, <4>1 DEF Live
      <4>4. QED
        BY <2>2, <4>2, <4>3
  <2>6. CASE ~Tick
    <3>1. Live(b, wtok[w]) => token'[b] = wtok[w] /\ status'[b] \in Active /\ lease'[b] \in {lease[b], Lease}
      BY <1>3, <2>2, <2>3, <2>6, RowKept
    <3>2. left[w] > 0 => Live(b, wtok[w])' /\ lease'[b] >= left[w]
      BY <1>1, <1>2, <2>1, <2>2, <2>4, <3>1 DEF Live
    <3>3. renewal[w] = "committed" /\ renewalLeft[w] > 0 => Live(b, wtok[w])' /\ lease'[b] >= renewalLeft[w]
      BY <1>1, <1>2, <2>1, <2>2, <2>4, <3>1 DEF Live
    <3>4. CASE left'[w] = left[w] /\ renewal'[w] = renewal[w] /\ renewalLeft'[w] = renewalLeft[w]
      BY <2>2, <3>2, <3>3, <3>4
    <3>5. CASE RenewBegin(w) \/ RenewError(w)
      <4>1. left' = left /\ renewal'[w] # "committed"
        BY <3>5 DEF RenewBegin, RenewError, TypeOK
      <4>2. QED
        BY <2>2, <3>2, <4>1
    <3>6. CASE RenewCommit(w)
      <4>1. left' = left /\ renewalLeft' = renewalLeft /\ lease'[b] = Lease /\ Live(b, wtok[w])
        BY <2>1, <3>6 DEF RenewCommit, Owns, TypeOK
      <4>2. Live(b, wtok[w])'
        BY <2>2, <3>1, <4>1 DEF Live
      <4>3. QED
        BY <1>2, <2>2, <4>1, <4>2
    <3>7. CASE RenewConfirm(w)
      <4>1. left'[w] = renewalLeft[w] /\ renewal[w] = "committed" /\ renewal'[w] = "none"
        BY <3>7 DEF RenewConfirm, TypeOK
      <4>2. QED
        BY <2>2, <3>3, <4>1
    <3>8. CASE ReadBuild(w) /\ pc'[w] = "check"
      BY <3>4, <3>8, GotoArrives DEF ReadBuild, heartbeat
    <3>9. ASSUME NEW p \in PC, NEW o \in Outcome, Goto(w, p, o)
          PROVE  left'[w] = left[w] /\ renewal'[w] = renewal[w] /\ renewalLeft'[w] = renewalLeft[w]
      BY <3>9, GotoBeat DEF Beating
    <3>10. CASE Frame(w)
      BY <2>6, <3>4, <3>10 DEF Frame
    <3>11. ~Idle(w) /\ \A m \in queue : ~Deliver(w, m)
      BY <1>3 DEF Idle, Deliver, TypeOK, Beating, InPipeline, InHandler
    <3>12. QED
      BY JobMoves, <3>4, <3>5, <3>6, <3>7, <3>8, <3>9, <3>10, <3>11 DEF Renews
  <2>7. QED
    BY <2>5, <2>6
<1>4. CASE ~Beating(w)
  <2>1. Begin(w)
    BY <1>4, BeatEntry
  <2>2. b \in Build /\ wb'[w] = b /\ wtok'[w] = wtok[w] /\ pc'[w] = "loop"
    BY <2>1, GotoArrives DEF Begin, TypeOK
  <2>3. renewal'[w] = "none" /\ left'[w] = left[w]
    BY <1>4, <2>1, GotoBeat DEF Begin, DeadlinesBounded, InPipeline
  <2>4. ~requested[b] /\ lease'[b] = Lease /\ Live(b, wtok[w]) /\ token' = token /\ status' = status
    BY <2>1, <2>2 DEF Begin, TypeOK
  <2>5. QED
    BY <1>2, <2>2, <2>3, <2>4 DEF Live
<1>5. QED
  BY <1>3, <1>4

-----------------------------------------------------------------------------
(* The theorems. *)

\* The empty table of builds satisfies the inductive invariant.
LEMMA InitIInv == Init => IInv
<1> SUFFICES ASSUME Init PROVE IInv
  OBVIOUS
<1>1. TypeOK
  BY Stages DEF Init, TypeOK, PC, Outcome, Status
<1>2. CancellationWins /\ CancelledIsBare /\ TokenHeldOnce
  BY DEF Init, CancellationWins, CancelledIsBare, TokenHeldOnce
<1>3. StagesLeft
  BY Stages DEF Init, StagesLeft
<1>4. AdvanceEarned /\ CancelsRequested
  BY DEF Init, AdvanceEarned, CancelsRequested
<1>5. DeadlinesBounded /\ HeartbeatCovered
  BY DEF Init, DeadlinesBounded, HeartbeatCovered, Beating, InPipeline, InHandler
<1>6. QED
  BY <1>1, <1>2, <1>3, <1>4, <1>5 DEF IInv

\* Every step keeps the inductive invariant.
LEMMA StepIInv == IInv /\ [Next]_vars => IInv'
  BY TypeStep, CancellationStep, BareStep, TokenStep, StagesStep, AdvanceStep, DeadlineStep, CancelsStep,
     LeaseStep DEF IInv

\* IInv is an invariant of the specification.
LEMMA Invariance == Spec => []IInv
  BY InitIInv, StepIInv, PTL DEF Spec

\* The build rows, messages, requests and jobs keep their types, whatever the stages,
\* limits and leases (the columns of models/build.py).
THEOREM BuildTypes == Spec => []TypeOK
<1>1. IInv => TypeOK
  BY DEF IInv
<1>2. QED
  BY Invariance, <1>1, PTL

\* A build whose cancellation was accepted never ends READY or FAILED, with any number
\* of workers, stale jobs and late enqueues (repositories/builds.py).
THEOREM CancellationIsFinal == Spec => []CancellationWins
<1>1. IInv => CancellationWins
  BY DEF IInv
<1>2. QED
  BY Invariance, <1>1, PTL

\* A cancelled build keeps no manifest, export or index generation: no job stores one
\* after acknowledge_cancellation took them off the row.
THEOREM CancelledBuildsAreBare == Spec => []CancelledIsBare
<1>1. IInv => CancelledIsBare
  BY DEF IInv
<1>2. QED
  BY Invariance, <1>1, PTL

\* A build enters a stage only with the outputs of all the stages before it, and is
\* READY only with every output and a report without blocking findings
\* (services/builds/pipeline.py).
THEOREM OutputsAreThere == Spec => []OutputsPrecede
<1>1. IInv => OutputsPrecede
  <2> SUFFICES ASSUME IInv, NEW b \in Build, NEW s \in Active
               PROVE  /\ status[b] = NextStatus[s] /\ s \in Producing => s \in outputs[b]
                      /\ status[b] = "READY" =>
                            Producing \subseteq outputs[b] /\ "BLOCKING" \notin outputs[b]
    BY DEF OutputsPrecede
  <2>1. status[b] \in Active \cup {"READY"} =>
           /\ \A u \in Producing : Position[u] < Position[status[b]] => u \in outputs[b]
           /\ "BLOCKING" \in outputs[b] => Position[status[b]] <= Position["VALIDATING"]
    BY DEF IInv, StagesLeft
  <2>2. status[b] = NextStatus[s] /\ s \in Producing => s \in outputs[b]
    BY <2>1, Stages, NextPosition
  <2>3. status[b] = "READY" => Producing \subseteq outputs[b]
    BY <2>1, Positions DEF Producing
  <2>4. ~(Position["READY"] <= Position["VALIDATING"])
    BY Positions DEF Position
  <2>5. status[b] = "READY" => "BLOCKING" \notin outputs[b]
    BY <2>1, <2>4
  <2>6. QED
    BY <2>2, <2>3, <2>5
<1>2. QED
  BY Invariance, <1>1, PTL

\* Stage work within the confirmed deadline is covered by the row's token and lease,
\* whatever enqueues, messages and renewals are lost or late; exempt is the job whose
\* admission the dispatcher released after an enqueue that raised (jobs/build.py).
THEOREM WorkIsCovered == Spec => []LeaseCoversWork
<1>1. IInv => LeaseCoversWork
  BY DEF IInv, HeartbeatCovered, LeaseCoversWork, Working, Beating, InPipeline
<1>2. QED
  BY Invariance, <1>1, PTL

\* A completed build never changes again, and an active one moves only to its next
\* stage or to a terminal status, however stale the jobs that write it are
\* (advance, complete and fail in repositories/builds.py).
THEOREM BuildsMoveForward == Spec => StagesMonotone
<1> DEFINE Forward == \A b \in Build :
             /\ status[b] \in Terminal => UNCHANGED <<status[b], outputs[b], requested[b]>>
             /\ status[b] \in Active => status'[b] \in {status[b], NextStatus[status[b]],
                                                        "FAILED", "CANCELLED"}
<1>1. IInv /\ [Next]_vars => [Forward]_vars
  BY MonotoneStep DEF IInv
<1>2. QED
  BY Invariance, <1>1, PTL DEF Spec, StagesMonotone
=============================================================================
