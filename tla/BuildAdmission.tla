--------------------------- MODULE BuildAdmission ---------------------------
(***************************************************************************)
(* Build admission, execution and cancellation.  A dispatcher leases build *)
(* rows up to a configured concurrency and enqueues them; a build job runs *)
(* the pipeline stage by stage under its admission token while a heartbeat *)
(* renews the lease; a user may ask for cancellation at any time.          *)
(*                                                                         *)
(*   repositories/build_admission.py   leases            services/builds/  *)
(*   repositories/builds.py            the build row       pipeline.py     *)
(*   services/build_admission.py       the dispatcher      cancellation.py *)
(*   jobs/build.py                     the job             service.py      *)
(*   clients/build_queue.py            the RQ queue                        *)
(*                                                                         *)
(* Each action is one database transaction or one step outside of it.      *)
(* Deadlines are kept as the time that remains, as in RuntimeCommands: a   *)
(* lease that has expired is 0.                                            *)
(***************************************************************************)
EXTENDS Naturals, FiniteSets

CONSTANTS
    Build,        \* the builds, numbered in the order of their creation
    Project, ProjectOf,
    Worker,       \* the build worker processes
    Token,        \* admission tokens; a bound on the tokens in use at once
    NoBuild, NoToken,
    NextStatus,   \* next_status, on the statuses of the pipeline in use
    Lease,        \* build_admission_lease_seconds
    Limits,       \* the values build_concurrency takes over time
    MaxRetries,   \* build_job_max_attempts - 1
    MaxClaims,    \* a bound on the claims that dispatchers have in hand at once
    MaxCancels,   \* a bound on the cancellation requests in progress at once
    Cancellable   \* the builds that somebody may ask to cancel

ASSUME BuildAssumption ==
    /\ Build \subseteq Nat
    /\ ProjectOf \in [Build -> Project]
    /\ NoBuild \notin Build
    /\ NoToken \notin Token

ASSUME LeaseAssumption ==
    /\ Lease \in Nat \ {0}
    /\ Limits \subseteq Nat
    /\ MaxRetries \in Nat
    /\ MaxClaims \in Nat /\ MaxCancels \in Nat

VARIABLES
    status, requested, outputs,     \* the build row: pipeline and cancellation
    token, lease,                   \* the build row: admission
    outbox, queue, cancels,         \* dispatcher, RQ and API requests in progress
    disowned,                       \* history: the jobs whose dispatcher released the admission
    pc, wb, wtok, tries, seen, outcome,   \* the jobs
    left, renewal, renewalLeft            \* their heartbeats

admission == <<token, lease>>
rows == <<status, requested, outputs, admission>>
transport == <<outbox, queue, cancels, disowned>>
job == <<wb, wtok, tries, seen, outcome>>
heartbeat == <<left, renewal, renewalLeft>>
vars == <<rows, transport, pc, job, heartbeat>>

Terminal == {"READY", "FAILED", "CANCELLED"}

\* PIPELINE_STATUSES, as the successor of each status.
FullPipeline ==
    [QUEUED |-> "INGESTING", INGESTING |-> "PARSING", PARSING |-> "INDEXING",
     INDEXING |-> "ANALYZING", ANALYZING |-> "COMPILING", COMPILING |-> "VALIDATING",
     VALIDATING |-> "PACKAGING", PACKAGING |-> "READY"]

\* The order of PIPELINE_STATUSES.
Position ==
    [QUEUED |-> 1, INGESTING |-> 2, PARSING |-> 3, INDEXING |-> 4, ANALYZING |-> 5,
     COMPILING |-> 6, VALIDATING |-> 7, PACKAGING |-> 8, READY |-> 9]

\* A pipeline has the code's stages or, to keep an instance small, some of them,
\* in the code's order and with none of its own left out.
ASSUME PipelineAssumption ==
    /\ "QUEUED" \in DOMAIN NextStatus
    /\ DOMAIN NextStatus \subseteq DOMAIN FullPipeline
    /\ NextStatus \in [DOMAIN NextStatus -> (DOMAIN NextStatus \ {"QUEUED"}) \cup {"READY"}]
    /\ \A s \in DOMAIN NextStatus :
         /\ Position[s] < Position[NextStatus[s]]
         /\ \A u \in DOMAIN NextStatus :
              Position[u] <= Position[s] \/ Position[NextStatus[s]] <= Position[u]

Active == DOMAIN NextStatus
Status == {"ABSENT"} \cup Active \cup Terminal

\* The stages that leave a durable output: snapshot, index generation,
\* enrichment, manifest, validation report, export.
Producing ==
    Active \cap {"PARSING", "INDEXING", "ANALYZING", "COMPILING", "VALIDATING", "PACKAGING"}
Output == Producing \cup {"BLOCKING"}      \* BLOCKING: the report has blocking findings

\* Where the pipeline runs, and where the job handles its failure.
InPipeline == {"loop", "check", "work", "advance", "reject", "invalid", "ack"}
InHandler == {"recording", "failing"}
PC == {"idle", "begin", "jobAck", "finish"} \cup InPipeline \cup InHandler

\* A pending exception, or how the job ends: it returns, raises to RQ, or
\* raises and keeps its lease for the retry.
Outcome == {"none", "retryable", "fatal", "stale", "return", "raise", "retry"}

Message == [build : Build, token : Token, tries : 0..MaxRetries]
CancelRequest == [build : Build, token : Token, step : {"check", "found", "acknowledge"}]

TypeOK ==
    /\ status \in [Build -> Status]
    /\ requested \in [Build -> BOOLEAN]
    /\ outputs \in [Build -> SUBSET Output]
    /\ token \in [Build -> Token \cup {NoToken}]
    /\ lease \in [Build -> Nat]
    /\ outbox \in SUBSET (Build \X Token \X {"claimed", "sent"})
    /\ queue \in SUBSET Message
    /\ cancels \in SUBSET CancelRequest
    /\ disowned \in SUBSET Token
    /\ pc \in [Worker -> PC]
    /\ wb \in [Worker -> Build \cup {NoBuild}]
    /\ wtok \in [Worker -> Token \cup {NoToken}]
    /\ tries \in [Worker -> 0..MaxRetries]
    /\ seen \in [Worker -> Active]
    /\ outcome \in [Worker -> Outcome]
    /\ left \in [Worker -> Nat]
    /\ renewal \in [Worker -> {"none", "sent", "committed"}]
    /\ renewalLeft \in [Worker -> Nat]
    /\ \A w \in Worker : pc[w] # "idle" => wb[w] \in Build /\ wtok[w] \in Token

Init ==
    /\ status = [b \in Build |-> "ABSENT"]
    /\ requested = [b \in Build |-> FALSE]
    /\ outputs = [b \in Build |-> {}]
    /\ token = [b \in Build |-> NoToken]
    /\ lease = [b \in Build |-> 0]
    /\ outbox = {} /\ queue = {} /\ cancels = {} /\ disowned = {}
    /\ pc = [w \in Worker |-> "idle"]
    /\ wb = [w \in Worker |-> NoBuild]
    /\ wtok = [w \in Worker |-> NoToken]
    /\ tries = [w \in Worker |-> 0]
    /\ seen = [w \in Worker |-> "QUEUED"]
    /\ outcome = [w \in Worker |-> "none"]
    /\ left = [w \in Worker |-> 0]
    /\ renewal = [w \in Worker |-> "none"]
    /\ renewalLeft = [w \in Worker |-> 0]

-----------------------------------------------------------------------------
(* The build row. *)

\* require_build_execution_owner with allow_cancellation.
Live(b, t) == token[b] = t /\ lease[b] > 0 /\ status[b] \in Active

\* The same without it: what every stage write requires.
Owns(b, t) == Live(b, t) /\ ~requested[b]

Create(b) ==
    /\ status[b] = "ABSENT"
    /\ \A a \in Build : a < b => status[a] # "ABSENT"
    /\ \A a \in Build : ProjectOf[a] = ProjectOf[b] => status[a] \notin Active
    /\ status' = [status EXCEPT ![b] = "QUEUED"]
    /\ UNCHANGED <<requested, outputs, admission, transport, pc, job, heartbeat>>

\* release: whoever presents the token, whatever became of the lease.
Release(b, t) ==
    /\ token' = [token EXCEPT ![b] = IF @ = t THEN NoToken ELSE @]
    /\ lease' = [lease EXCEPT ![b] = IF token[b] = t THEN 0 ELSE @]

\* A terminal status frees the admission in the same statement.
Complete(b, s) ==
    /\ status' = [status EXCEPT ![b] = s]
    /\ token' = [token EXCEPT ![b] = NoToken]
    /\ lease' = [lease EXCEPT ![b] = 0]

\* Faulty variant: the index generation stays with the cancelled build.
AcknowledgeCancellation_KeepsIndex(b) ==
    /\ Complete(b, "CANCELLED")
    /\ outputs' = [outputs EXCEPT ![b] = @ \ {"COMPILING", "PACKAGING"}]
    /\ UNCHANGED requested

\* acknowledge_cancellation: the manifest, the export and the index generation
\* of the build go to a cleanup job and leave the row.
AcknowledgeCancellation(b) ==
    /\ Complete(b, "CANCELLED")
    /\ outputs' = [outputs EXCEPT ![b] = @ \ {"INDEXING", "COMPILING", "PACKAGING"}]
    /\ UNCHANGED requested

-----------------------------------------------------------------------------
(* The dispatcher. *)

\* Faulty variant: an expired lease is not taken back.
Expired_OnlyTerminal == {b \in Build : token[b] # NoToken /\ status[b] \in Terminal}

Expired == {b \in Build : token[b] # NoToken /\ (status[b] \in Terminal \/ lease[b] = 0)}
Admitted == {b \in Build : token[b] # NoToken /\ lease[b] > 0 /\ status[b] \in Active}

\* The order of candidates: cancellations, then resumed builds, then by age.
Rank(b) == <<IF requested[b] THEN 0 ELSE 1, IF status[b] = "QUEUED" THEN 1 ELSE 0, b>>

Before(a, b) ==
    LET p == Rank(a)
        q == Rank(b)
    IN  \/ p[1] < q[1]
        \/ p[1] = q[1] /\ p[2] < q[2]
        \/ p[1] = q[1] /\ p[2] = q[2] /\ p[3] < q[3]

\* The builds that claim_available selects for a concurrency of n, when other
\* transactions hold the rows in locked (SKIP LOCKED).
Selected(n, locked) ==
    LET free == {b \in Build \ locked :
                    status[b] \in Active /\ (token[b] = NoToken \/ b \in Expired)}
    IN  {b \in free : Cardinality({a \in free : Before(a, b)}) + Cardinality(Admitted) < n}

UsedTokens ==
    {token[b] : b \in Build} \cup {wtok[w] : w \in Worker} \cup {o[2] : o \in outbox}
        \cup {m.token : m \in queue} \cup {c.token : c \in cancels}

\* f gives the selected builds their fresh tokens.  n was read from the settings
\* in an earlier transaction.
ClaimAvailable(n, locked, f) ==
    LET S == Selected(n, locked)
    IN  /\ S \cup Expired # {}
        /\ Cardinality(outbox) + Cardinality(S) <= MaxClaims
        /\ DOMAIN f = S
        /\ \A a, b \in S : a # b => f[a] # f[b]
        /\ token' = [b \in Build |-> IF b \in S THEN f[b]
                                     ELSE IF b \in Expired THEN NoToken ELSE token[b]]
        /\ lease' = [b \in Build |-> IF b \in S THEN Lease
                                     ELSE IF b \in Expired THEN 0 ELSE lease[b]]
        /\ outbox' = outbox \cup {<<b, f[b], "claimed">> : b \in S}
        /\ UNCHANGED <<status, requested, outputs, queue, cancels, disowned, pc, job, heartbeat>>

\* The tokens of the jobs that wait in Redis or run.
Jobs == {m.token : m \in queue} \cup {wtok[w] : w \in Worker}

\* The history keeps no job that has ended.
ForgetEnded == disowned' = disowned \cap Jobs'

\* The job reaches Redis.  The reply may still be lost, and the dispatcher take
\* the enqueue for a failure.
Enqueue(o) ==
    /\ o[3] = "claimed"
    /\ queue' = queue \cup {[build |-> o[1], token |-> o[2], tries |-> MaxRetries]}
    /\ outbox' = (outbox \ {o}) \cup {<<o[1], o[2], "sent">>}
    /\ UNCHANGED <<rows, cancels, disowned, pc, job, heartbeat>>

EnqueueReturns(o) ==
    /\ o[3] = "sent"
    /\ outbox' = outbox \ {o}
    /\ UNCHANGED <<rows, queue, cancels, disowned, pc, job, heartbeat>>

\* enqueue_build raises, with or without the job in Redis: the admission is
\* released again, a running job's included.
EnqueueFails(o) ==
    /\ outbox' = outbox \ {o}
    /\ Release(o[1], o[2])
    /\ disowned' = disowned \cup {t \in Jobs : t = o[2] /\ t = token[o[1]]}
    /\ UNCHANGED <<status, requested, outputs, queue, cancels, pc, job, heartbeat>>

DispatcherCrash(o) ==
    /\ outbox' = outbox \ {o}
    /\ UNCHANGED <<rows, queue, cancels, disowned, pc, job, heartbeat>>

LoseMessage(m) ==
    /\ queue' = queue \ {m}
    /\ UNCHANGED <<rows, outbox, cancels, pc, job, heartbeat>>
    /\ ForgetEnded

-----------------------------------------------------------------------------
(* Cancellation through the API. *)

\* The request commits; the API goes on to look for the queued job.
RequestCancellation(b) ==
    /\ b \in Cancellable /\ Cardinality(cancels) < MaxCancels
    /\ status[b] \in Active
    /\ requested' = [requested EXCEPT ![b] = TRUE]
    /\ cancels' = cancels \cup
         (IF token[b] = NoToken THEN {}
          ELSE {[build |-> b, token |-> token[b], step |-> "check"]})
    /\ UNCHANGED <<status, outputs, admission, outbox, queue, disowned, pc, job, heartbeat>>

\* The job's RQ status is read; it is cancelled in a second call, by which time
\* a worker may have taken it.
FindQueued(c) ==
    /\ c.step = "check"
    /\ cancels' = (cancels \ {c}) \cup
         {[c EXCEPT !.step = "found"] :
            m \in {m \in queue : m.build = c.build /\ m.token = c.token}}
    /\ UNCHANGED <<rows, outbox, queue, disowned, pc, job, heartbeat>>

CancelQueued(c) ==
    /\ c.step = "found"
    /\ queue' = {m \in queue : m.build # c.build \/ m.token # c.token}
    /\ cancels' = (cancels \ {c}) \cup {[c EXCEPT !.step = "acknowledge"]}
    /\ UNCHANGED <<rows, outbox, pc, job, heartbeat>>
    /\ ForgetEnded

AcknowledgeQueued(c) ==
    /\ c.step = "acknowledge"
    /\ cancels' = cancels \ {c}
    /\ IF Live(c.build, c.token)
         THEN AcknowledgeCancellation(c.build)
         ELSE UNCHANGED rows
    /\ UNCHANGED <<outbox, queue, disowned, pc, job, heartbeat>>

\* Redis fails the request, or the API process ends.
AbandonCancel(c) ==
    /\ cancels' = cancels \ {c}
    /\ UNCHANGED <<rows, outbox, queue, disowned, pc, job, heartbeat>>

-----------------------------------------------------------------------------
(* The job: admission. *)

\* The job moves to place p.  The status it read belongs to the stage at hand,
\* the heartbeat to the pipeline and its failure handler.
Goto(w, p, o) ==
    /\ pc' = [pc EXCEPT ![w] = p]
    /\ outcome' = [outcome EXCEPT ![w] = o]
    /\ seen' = [seen EXCEPT ![w] = IF p \in {"work", "advance", "reject"} THEN @ ELSE "QUEUED"]
    /\ IF p \in InPipeline \cup InHandler
         THEN UNCHANGED heartbeat
         ELSE /\ left' = [left EXCEPT ![w] = 0]
              /\ renewal' = [renewal EXCEPT ![w] = "none"]
              /\ renewalLeft' = [renewalLeft EXCEPT ![w] = 0]
    /\ UNCHANGED <<wb, wtok, tries>>

\* Faulty variant: the job does not keep its token.
Deliver_NoToken(w, m) ==
    /\ pc[w] = "idle"
    /\ queue' = queue \ {m}
    /\ pc' = [pc EXCEPT ![w] = "begin"]
    /\ wb' = [wb EXCEPT ![w] = m.build]
    /\ tries' = [tries EXCEPT ![w] = m.tries]
    /\ left' = [left EXCEPT ![w] = Lease]
    /\ UNCHANGED <<rows, outbox, cancels, disowned, wtok, seen, outcome, renewal, renewalLeft>>

\* A worker takes the job and notes the time (begin_started).
Deliver(w, m) ==
    /\ pc[w] = "idle"
    /\ queue' = queue \ {m}
    /\ pc' = [pc EXCEPT ![w] = "begin"]
    /\ wb' = [wb EXCEPT ![w] = m.build]
    /\ wtok' = [wtok EXCEPT ![w] = m.token]
    /\ tries' = [tries EXCEPT ![w] = m.tries]
    /\ left' = [left EXCEPT ![w] = Lease]
    /\ UNCHANGED <<rows, outbox, cancels, disowned, seen, outcome, renewal, renewalLeft>>

\* begin: a cancellation that is already requested does not renew the lease.
Begin(w) ==
    /\ pc[w] = "begin"
    /\ Live(wb[w], wtok[w])
    /\ lease' = [lease EXCEPT ![wb[w]] = IF requested[wb[w]] THEN @ ELSE Lease]
    /\ Goto(w, "loop", "none")
    /\ UNCHANGED <<status, requested, outputs, token, transport>>

BeginLost(w) ==
    /\ pc[w] = "begin"
    /\ ~Live(wb[w], wtok[w])
    /\ Goto(w, "finish", "return")
    /\ UNCHANGED <<rows, transport>>

-----------------------------------------------------------------------------
(* The job: the pipeline loop. *)

ReadBuild(w) ==
    /\ pc[w] = "loop"
    /\ IF status[wb[w]] \in Active
         THEN /\ seen' = [seen EXCEPT ![w] = status[wb[w]]]
              /\ pc' = [pc EXCEPT ![w] = "check"]
              /\ UNCHANGED <<wb, wtok, tries, outcome, heartbeat>>
         ELSE Goto(w, "finish", "return")
    /\ UNCHANGED <<rows, transport>>

\* The first checkpoint passes and the stage starts.
StartStage(w) ==
    /\ pc[w] = "check"
    /\ Owns(wb[w], wtok[w])
    /\ Goto(w, IF seen[w] = "QUEUED" THEN "advance" ELSE "work", "none")
    /\ UNCHANGED <<rows, transport>>

\* A checkpoint before or inside the stage raises.
Checkpoint(w) ==
    /\ pc[w] \in {"check", "work"}
    /\ ~Owns(wb[w], wtok[w])
    /\ IF Live(wb[w], wtok[w]) THEN Goto(w, "ack", "none") ELSE Goto(w, "invalid", "stale")
    /\ UNCHANGED <<rows, transport>>

\* Where the loop goes once the stage has its output.
AfterStage(w, o) == IF seen[w] = "VALIDATING" /\ "BLOCKING" \in o THEN "reject" ELSE "advance"

\* Faulty variant: the stage is skipped without its output.
ReuseOutput_Always(w) ==
    /\ pc[w] = "work"
    /\ Goto(w, AfterStage(w, outputs[wb[w]]), "none")
    /\ UNCHANGED <<rows, transport>>

\* The stage writes nothing: it verified its input, or found its own output.
ReuseOutput(w) ==
    /\ pc[w] = "work"
    /\ seen[w] \notin Producing \/ (seen[w] # "INDEXING" /\ seen[w] \in outputs[wb[w]])
    /\ Goto(w, AfterStage(w, outputs[wb[w]]), "none")
    /\ UNCHANGED <<rows, transport>>

\* The stage's setter (_stage_update): owner, expected status, no cancellation.
\* A validation report may be a blocking one.
StoreOutput(w, blocking) ==
    /\ pc[w] = "work"
    /\ seen[w] \in Producing
    /\ blocking => seen[w] = "VALIDATING"
    /\ Owns(wb[w], wtok[w])
    /\ status[wb[w]] = seen[w]
    /\ LET o == outputs[wb[w]] \cup {seen[w]} \cup (IF blocking THEN {"BLOCKING"} ELSE {})
       IN  /\ outputs' = [outputs EXCEPT ![wb[w]] = o]
           /\ Goto(w, AfterStage(w, o), "none")
    /\ UNCHANGED <<status, requested, admission, transport>>

\* transition: the compare-and-set to the next status.
Advance(w) ==
    /\ pc[w] = "advance"
    /\ Owns(wb[w], wtok[w])
    /\ status[wb[w]] = seen[w]
    /\ IF NextStatus[seen[w]] = "READY"
         THEN Complete(wb[w], "READY") /\ Goto(w, "finish", "return")
         ELSE /\ status' = [status EXCEPT ![wb[w]] = NextStatus[seen[w]]]
              /\ Goto(w, "loop", "none")
              /\ UNCHANGED admission
    /\ UNCHANGED <<requested, outputs, transport>>

\* Faulty variants: a terminal build is failed, a requested one may be failed.
FailRow_Always(w) == Complete(wb[w], "FAILED") /\ UNCHANGED <<requested, outputs>>

MayFail_Requested(w) == status[wb[w]] \in Terminal \/ Live(wb[w], wtok[w])

\* fail: FAILED with the admission freed, nothing if the build is terminal.
FailRow(w) ==
    IF status[wb[w]] \in Terminal
      THEN UNCHANGED rows
      ELSE Complete(wb[w], "FAILED") /\ UNCHANGED <<requested, outputs>>

MayFail(w) == status[wb[w]] \in Terminal \/ Owns(wb[w], wtok[w])

\* A blocking validation report fails the build.
RejectBuild(w) ==
    /\ pc[w] = "reject"
    /\ MayFail(w)
    /\ FailRow(w)
    /\ Goto(w, "finish", "return")
    /\ UNCHANGED transport

\* A write is refused: ExecutionOwnershipError, or another InvalidStateError.
Refused(w) ==
    /\ \/ pc[w] = "work" /\ seen[w] \in Producing
          /\ ~(Owns(wb[w], wtok[w]) /\ status[wb[w]] = seen[w])
       \/ pc[w] = "advance" /\ ~(Owns(wb[w], wtok[w]) /\ status[wb[w]] = seen[w])
       \/ pc[w] = "reject" /\ ~MayFail(w)
    /\ Goto(w, "invalid", IF Live(wb[w], wtok[w]) THEN "fatal" ELSE "stale")
    /\ UNCHANGED <<rows, transport>>

\* The stage itself raises: a transient client error, an InvalidStateError, or
\* any other error.
StageFails(w, kind) ==
    /\ pc[w] = "work"
    /\ Goto(w, IF kind = "invalid" THEN "invalid" ELSE "recording",
               IF kind = "retryable" THEN "retryable" ELSE "fatal")
    /\ UNCHANGED <<rows, transport>>

\* except InvalidStateError
HandleInvalid(w) ==
    /\ pc[w] = "invalid"
    /\ IF status[wb[w]] = "CANCELLED" THEN Goto(w, "finish", "return")
       ELSE IF requested[wb[w]] THEN Goto(w, "ack", "none")
       ELSE Goto(w, "recording", outcome[w])
    /\ UNCHANGED <<rows, transport>>

\* The pipeline acknowledges (ack), or the job after its task was cancelled.
Acknowledge(w) ==
    /\ pc[w] \in {"ack", "jobAck"}
    /\ IF Live(wb[w], wtok[w])
         THEN AcknowledgeCancellation(wb[w]) /\ Goto(w, "finish", "return")
         ELSE /\ UNCHANGED rows
              /\ IF status[wb[w]] = "CANCELLED" THEN Goto(w, "finish", "return")
                 ELSE IF pc[w] = "ack" THEN Goto(w, "recording", "stale")
                 ELSE Goto(w, "finish", "raise")
    /\ UNCHANGED transport

-----------------------------------------------------------------------------
(* The job: failure and end. *)

\* record_attempt_failure, and what the job decides next.
RecordFailure(w) ==
    /\ pc[w] = "recording"
    /\ IF ~Live(wb[w], wtok[w]) /\ outcome[w] # "stale" THEN Goto(w, "finish", "raise")
       ELSE IF outcome[w] = "retryable" /\ tries[w] > 0 THEN Goto(w, "finish", "retry")
       ELSE Goto(w, "failing", outcome[w])
    /\ UNCHANGED <<rows, transport>>

\* fail_from_exception; it raises itself when the write is refused.
FailBuild(w) ==
    /\ pc[w] = "failing"
    /\ IF MayFail(w)
         THEN /\ FailRow(w)
              /\ Goto(w, "finish", IF outcome[w] = "retryable" \/ tries[w] = 0
                                     THEN "raise" ELSE "return")
         ELSE UNCHANGED rows /\ Goto(w, "finish", "raise")
    /\ UNCHANGED transport

Idle(w) ==
    /\ pc' = [pc EXCEPT ![w] = "idle"]
    /\ wb' = [wb EXCEPT ![w] = NoBuild]
    /\ wtok' = [wtok EXCEPT ![w] = NoToken]
    /\ tries' = [tries EXCEPT ![w] = 0]
    /\ seen' = [seen EXCEPT ![w] = "QUEUED"]
    /\ outcome' = [outcome EXCEPT ![w] = "none"]
    /\ left' = [left EXCEPT ![w] = 0]
    /\ renewal' = [renewal EXCEPT ![w] = "none"]
    /\ renewalLeft' = [renewalLeft EXCEPT ![w] = 0]

\* RQ schedules the same job, with the same token, while it has retries left.
Retried(w) ==
    IF tries[w] = 0 THEN {}
    ELSE {[build |-> wb[w], token |-> wtok[w], tries |-> tries[w] - 1]}

\* The finally block: the lease is renewed for a retry, or released.
Finish(w) ==
    /\ pc[w] = "finish"
    /\ IF outcome[w] # "retry" THEN Release(wb[w], wtok[w])
       ELSE /\ lease' = [lease EXCEPT ![wb[w]] = IF Owns(wb[w], wtok[w]) THEN Lease ELSE @]
            /\ UNCHANGED token
    /\ queue' = queue \cup (IF outcome[w] \in {"raise", "retry"} THEN Retried(w) ELSE {})
    /\ Idle(w)
    /\ ForgetEnded
    /\ UNCHANGED <<status, requested, outputs, outbox, cancels>>

\* The work horse dies; RQ may run the job again.
WorkerCrash(w, again) ==
    /\ pc[w] # "idle"
    /\ queue' = queue \cup (IF again THEN Retried(w) ELSE {})
    /\ Idle(w)
    /\ ForgetEnded
    /\ UNCHANGED <<rows, outbox, cancels>>

-----------------------------------------------------------------------------
(* The heartbeat. *)

Beating(w) == pc[w] \in InPipeline \cup InHandler

RenewBegin(w) ==
    /\ Beating(w)
    /\ renewal[w] = "none"
    /\ renewal' = [renewal EXCEPT ![w] = "sent"]
    /\ renewalLeft' = [renewalLeft EXCEPT ![w] = Lease]
    /\ UNCHANGED <<rows, transport, pc, job, left>>

RenewCommit(w) ==
    /\ Beating(w)
    /\ renewal[w] = "sent"
    /\ Owns(wb[w], wtok[w])
    /\ lease' = [lease EXCEPT ![wb[w]] = Lease]
    /\ renewal' = [renewal EXCEPT ![w] = "committed"]
    /\ UNCHANGED <<status, requested, outputs, token, transport, pc, job, left, renewalLeft>>

\* Faulty variant: the new deadline is counted from the arrival of the reply.
RenewConfirm_FromReply(w) ==
    /\ Beating(w)
    /\ renewal[w] = "committed"
    /\ left' = [left EXCEPT ![w] = Lease]
    /\ renewal' = [renewal EXCEPT ![w] = "none"]
    /\ renewalLeft' = [renewalLeft EXCEPT ![w] = 0]
    /\ UNCHANGED <<rows, transport, pc, job>>

RenewConfirm(w) ==
    /\ Beating(w)
    /\ renewal[w] = "committed"
    /\ left' = [left EXCEPT ![w] = renewalLeft[w]]
    /\ renewal' = [renewal EXCEPT ![w] = "none"]
    /\ renewalLeft' = [renewalLeft EXCEPT ![w] = 0]
    /\ UNCHANGED <<rows, transport, pc, job>>

RenewError(w) ==
    /\ Beating(w)
    /\ renewal[w] # "none"
    /\ renewal' = [renewal EXCEPT ![w] = "none"]
    /\ renewalLeft' = [renewalLeft EXCEPT ![w] = 0]
    /\ UNCHANGED <<rows, transport, pc, job, left>>

\* The heartbeat cancels the job's task and ends.  A task inside the pipeline
\* handles that at place p; one in the failure handler raises to RQ.
Interrupt(w, p) ==
    /\ IF pc[w] \in InPipeline THEN Goto(w, p, "return") ELSE Goto(w, "finish", "raise")
    /\ UNCHANGED <<rows, transport>>

LoseAdmission(w) ==
    /\ Beating(w)
    /\ left[w] = 0 \/ (renewal[w] = "sent" /\ ~Live(wb[w], wtok[w]))
    /\ Interrupt(w, "finish")

HearCancellation(w) ==
    /\ Beating(w)
    /\ renewal[w] = "sent"
    /\ Live(wb[w], wtok[w])
    /\ requested[wb[w]]
    /\ Interrupt(w, "jobAck")

-----------------------------------------------------------------------------

Elapse(timer, S) == [x \in S |-> IF timer[x] = 0 THEN 0 ELSE timer[x] - 1]

Tick ==
    /\ lease' = Elapse(lease, Build)
    /\ left' = Elapse(left, Worker)
    /\ renewalLeft' = Elapse(renewalLeft, Worker)
    /\ UNCHANGED <<status, requested, outputs, token, transport, pc, job, renewal>>

DispatcherNext ==
    \/ \E n \in Limits, locked \in SUBSET Build :
          \E f \in [Selected(n, locked) -> Token \ UsedTokens] : ClaimAvailable(n, locked, f)
    \/ \E o \in outbox : Enqueue(o)
    \/ \E o \in outbox : EnqueueReturns(o)
    \/ \E o \in outbox : EnqueueFails(o)
    \/ \E o \in outbox : DispatcherCrash(o)

CancelNext ==
    \/ \E b \in Build : RequestCancellation(b)
    \/ \E c \in cancels : \/ FindQueued(c)
                          \/ CancelQueued(c)
                          \/ AcknowledgeQueued(c)
                          \/ AbandonCancel(c)

JobNext(w) ==
    \/ \E m \in queue : Deliver(w, m)
    \/ Begin(w)
    \/ BeginLost(w)
    \/ ReadBuild(w)
    \/ StartStage(w)
    \/ Checkpoint(w)
    \/ ReuseOutput(w)
    \/ \E blocking \in BOOLEAN : StoreOutput(w, blocking)
    \/ Advance(w)
    \/ RejectBuild(w)
    \/ Refused(w)
    \/ \E kind \in {"retryable", "invalid", "other"} : StageFails(w, kind)
    \/ HandleInvalid(w)
    \/ Acknowledge(w)
    \/ RecordFailure(w)
    \/ FailBuild(w)
    \/ Finish(w)
    \/ \E again \in BOOLEAN : WorkerCrash(w, again)

HeartbeatNext(w) ==
    \/ RenewBegin(w)
    \/ RenewCommit(w)
    \/ RenewConfirm(w)
    \/ RenewError(w)
    \/ LoseAdmission(w)
    \/ HearCancellation(w)

Next ==
    \/ \E b \in Build : Create(b)
    \/ DispatcherNext
    \/ \E m \in queue : LoseMessage(m)
    \/ CancelNext
    \/ \E w \in Worker : JobNext(w) \/ HeartbeatNext(w)
    \/ Tick

Spec == Init /\ [][Next]_vars

(***************************************************************************)
(* Fairness.  Clocks advance; the dispatcher claims what it can, with no   *)
(* row locked by others and a concurrency of at least one, and enqueues    *)
(* what it claimed; an API request goes on; a job keeps taking steps, a    *)
(* failing stage included.  Crashes, lost messages, refused enqueues and   *)
(* leases that run out may happen any number of times, but not for ever.   *)
(***************************************************************************)
JobStep(w) ==
    \/ \E m \in queue : Deliver(w, m)
    \/ Begin(w) \/ BeginLost(w) \/ ReadBuild(w) \/ StartStage(w) \/ Checkpoint(w)
    \/ ReuseOutput(w) \/ (\E blocking \in BOOLEAN : StoreOutput(w, blocking)) \/ Advance(w)
    \/ RejectBuild(w) \/ Refused(w) \/ HandleInvalid(w) \/ Acknowledge(w)
    \/ RecordFailure(w) \/ FailBuild(w) \/ Finish(w)

Fault ==
    \/ \E o \in outbox : DispatcherCrash(o) \/ EnqueueFails(o)
    \/ \E m \in queue : LoseMessage(m)
    \/ \E c \in cancels : AbandonCancel(c)
    \/ \E w \in Worker, again \in BOOLEAN : WorkerCrash(w, again)
    \/ \E b \in Build : lease[b] = 1 /\ lease'[b] = 0 /\ token'[b] = token[b]

FaultsEnd == <>[][~Fault]_vars

Fairness ==
    /\ WF_vars(Tick)
    /\ WF_vars(\E n \in Limits \ {0} : \E f \in [Selected(n, {}) -> Token \ UsedTokens] :
                  ClaimAvailable(n, {}, f))
    /\ WF_vars(\E o \in outbox : Enqueue(o) \/ EnqueueReturns(o))
    /\ WF_vars(\E c \in cancels : FindQueued(c) \/ CancelQueued(c) \/ AcknowledgeQueued(c))
    /\ \A w \in Worker : WF_vars(JobStep(w))

LiveSpec == Spec /\ Fairness /\ FaultsEnd

-----------------------------------------------------------------------------
(* Properties. *)

\* A job that does stage work and whose confirmed deadline has not passed.
Working(w) == pc[w] = "work" /\ left[w] > 0

\* Stage work that the heartbeat has not stopped is covered by the database: the
\* row carries the job's token and a lease at least as long (jobs/build.py, the
\* heartbeat counts its deadline from before the renewal).  The one job exempt is
\* one the dispatcher itself disowned, releasing its admission after an enqueue
\* that raised although the job had reached Redis (services/build_admission.py).
LeaseCoversWork ==
    \A w \in Worker : Working(w) /\ wtok[w] \notin disowned =>
        Live(wb[w], wtok[w]) /\ lease[wb[w]] >= left[w]

\* Jobs doing stage work within their deadlines never exceed the concurrency that
\* claim_available enforces: "PostgreSQL admission leases enforce the configured
\* global Build concurrency across processes" (docs/architecture.md).
WorkBounded ==
    \E n \in Limits : Cardinality({w \in Worker : Working(w)}) <= n

\* A stage is entered only with the outputs of the stages before it, and a READY
\* build has all of them and a report without blocking findings, whichever jobs
\* worked on the build and wherever they were cut off (pipeline.py: a stage is
\* skipped when its output is there, run again when it is not).
OutputsPrecede ==
    \A b \in Build : \A s \in Active :
        /\ (status[b] = NextStatus[s] /\ s \in Producing => s \in outputs[b])
        /\ (status[b] = "READY" => Producing \subseteq outputs[b] /\ "BLOCKING" \notin outputs[b])

\* A build whose cancellation was accepted ends CANCELLED, never READY or FAILED:
\* every other terminal write requires that none was requested (repositories/builds.py).
CancellationWins ==
    \A b \in Build : requested[b] /\ status[b] \in Terminal => status[b] = "CANCELLED"

\* A cancelled build keeps no manifest, export or index generation, although a job
\* may be storing one when acknowledge_cancellation takes them off the row.
CancelledIsBare ==
    \A b \in Build : status[b] = "CANCELLED" =>
        outputs[b] \cap {"INDEXING", "COMPILING", "PACKAGING"} = {}

\* Every build ends, and one whose cancellation was accepted ends CANCELLED: no
\* lost message, crash or expired lease strands it between two owners
\* (claim_available takes expired admissions back).
BuildEnds ==
    \A b \in Build :
        /\ status[b] # "ABSENT" ~> status[b] \in Terminal
        /\ requested[b] ~> status[b] = "CANCELLED"

\* A completed build is never changed again, and an active one moves only to its
\* next stage or to a terminal status, however many jobs hold stale readings of it
\* (advance, complete and fail in repositories/builds.py).
StagesMonotone ==
    [][\A b \in Build :
         /\ status[b] \in Terminal => UNCHANGED <<status[b], outputs[b], requested[b]>>
         /\ status[b] \in Active => status'[b] \in {status[b], NextStatus[status[b]],
                                                    "FAILED", "CANCELLED"}]_vars

-----------------------------------------------------------------------------
(***************************************************************************)
(* The inductive invariant: what the safety properties above rest on.      *)
(***************************************************************************)

\* An admission token is carried once: by a claim not yet enqueued, by a message
\* or by a job.
TokenHeldOnce ==
    /\ \A o, p \in outbox : o[2] = p[2] => o = p
    /\ \A m, n \in queue : m.token = n.token => m = n
    /\ \A v, w \in Worker : wtok[v] = wtok[w] /\ wtok[v] # NoToken => v = w
    /\ \A o \in outbox : o[3] = "claimed" =>
          /\ \A m \in queue : m.token # o[2]
          /\ \A w \in Worker : wtok[w] # o[2]
    /\ \A m \in queue, w \in Worker : wtok[w] # m.token
    /\ \A w \in Worker : pc[w] = "idle" => wtok[w] = NoToken

\* An active or finished build has the outputs of all the stages it has left, and
\* a blocking report keeps it from leaving VALIDATING.
StagesLeft ==
    \A b \in Build :
        /\ "BLOCKING" \in outputs[b] => "VALIDATING" \in Active
        /\ status[b] \in Active \cup {"READY"} =>
              /\ \A u \in Producing : Position[u] < Position[status[b]] => u \in outputs[b]
              /\ "BLOCKING" \in outputs[b] => Position[status[b]] <= Position["VALIDATING"]

\* A job about to advance a build that is still its own has the stage's output.
AdvanceEarned ==
    \A w \in Worker :
        pc[w] = "advance" /\ token[wb[w]] = wtok[w] /\ status[wb[w]] = seen[w] =>
            /\ seen[w] \in Producing => seen[w] \in outputs[wb[w]]
            /\ seen[w] = "VALIDATING" => "BLOCKING" \notin outputs[wb[w]]

\* Deadlines never exceed a full lease, and only a beating heartbeat renews.
DeadlinesBounded ==
    \A w \in Worker :
        /\ left[w] <= Lease /\ renewalLeft[w] <= Lease
        /\ renewal[w] # "none" => Beating(w)

\* A request to cancel is recorded before the API looks for the queued job, and a
\* job found in the queue is not at work.
CancelsRequested ==
    \A c \in cancels :
        /\ requested[c.build]
        /\ c.step \in {"found", "acknowledge"} =>
              \A w \in Worker : pc[w] = "work" => wb[w] # c.build \/ wtok[w] # c.token

\* The deadline of a heartbeat, and the one it is about to confirm, are covered by
\* the row's lease, unless a cancellation keeps the job from entering a stage or
\* the dispatcher has disowned the job.
HeartbeatCovered ==
    \A w \in Worker :
        Beating(w) /\ wtok[w] \notin disowned /\ (pc[w] = "work" \/ ~requested[wb[w]]) =>
            /\ left[w] > 0 => Live(wb[w], wtok[w]) /\ lease[wb[w]] >= left[w]
            /\ renewal[w] = "committed" /\ renewalLeft[w] > 0 =>
                  Live(wb[w], wtok[w]) /\ lease[wb[w]] >= renewalLeft[w]

IInv ==
    /\ TypeOK
    /\ CancellationWins
    /\ CancelledIsBare
    /\ TokenHeldOnce
    /\ StagesLeft
    /\ AdvanceEarned
    /\ DeadlinesBounded
    /\ CancelsRequested
    /\ HeartbeatCovered
=============================================================================
