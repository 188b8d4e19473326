----------------------------- MODULE Knowledge -----------------------------
(***************************************************************************)
(* What a build learns about its documents: the chunks it publishes in the *)
(* vector store, and the enrichment a language model writes from them.     *)
(*                                                                         *)
(*   services/indexing/service.py, repositories/indexing.py   the index    *)
(*   providers/milvus.py, clients/vector.py                   vector store *)
(*   services/analysis/*.py                                   enrichment   *)
(*   repositories/builds.py (BuildAIRunRepository)            model calls  *)
(*   services/cleanup.py, repositories/cleanup.py             clean-up     *)
(*                                                                         *)
(* One build, executed by jobs that hold its lease one after another.  A   *)
(* job that lost the lease goes on until its next check; a job that fails  *)
(* leaves clean-up targets behind, which a worker deletes at its own pace, *)
(* and may be tried again under the same token.                            *)
(***************************************************************************)
EXTENDS Naturals, FiniteSets

CONSTANTS
    Execution,        \* admission tokens, in the order of the leases: 1 .. n
    Chunk,            \* the distinct chunks of the build's documents
    Model,            \* what the provider may resolve the embedding model to: 1 .. n
    Dimension,        \* [Model -> Nat \ {0}]: the length of a model's vectors
    Endpoint,         \* the API's operations
    MaxFailures       \* failing calls and lost jobs in a behaviour

ASSUME KnowledgeAssumption ==
    /\ 1 \in Execution /\ Execution \subseteq Nat
    /\ Model \subseteq Nat \ {0} /\ IsFiniteSet(Model)
    /\ Dimension \in [Model -> Nat \ {0}]
    /\ MaxFailures \in Nat

Nothing == 0
File == 0             \* as a leftover: the chunk manifest, beside the collections

VARIABLES
    lease,            \* builds.admission_token: who may write
    buildPhase,       \* builds.status
    stopping,         \* builds.cancellation_requested_at
    generation,       \* document_index_generations: [status, collection, by]
    rows,             \* the vector store: [collection, by, chunk, model]
    cached,           \* embedding_vector_cache: Chunk -> model, Nothing
    chunkFile,        \* the chunk manifest is in storage
    leftover,         \* cleanup_targets of index-failure:<generation>
    prior,            \* operations whose enrichment by the previous build still fits
    calls,            \* build_ai_runs: Endpoint -> [status, answer]
    enrichment,       \* builds.enrichment: Endpoint -> answer, or <<>>
    job,              \* the local variables of the executions
    erased,           \* history: rows of the current attempt were cleaned up
    failures

buildRow == <<lease, buildPhase, stopping>>
index == <<generation, rows, cached, chunkFile, leftover, erased>>
analysis == <<calls, enrichment>>
knowledgeVars == <<buildRow, index, prior, analysis, job, failures>>

Collection == {Dimension[m] : m \in Model}
Row == [collection : Collection, by : Execution, chunk : Chunk, model : Model]
Resolved == [Chunk -> Model \cup {Nothing}]

\* An answer is known by the execution that asked for it, or is the previous build's.
NoAnswer == <<>>
Prior == <<"prior">>
Answer == {Prior} \cup ({"by"} \X Execution)
Place == {"waiting", "prepare", "chunk", "store", "lookup", "embed", "embedAll", "publish", "complete",
          "indexed", "undo", "record", "failed", "analyse", "enriched", "over"}

KnowledgeTypeOK ==
    /\ lease \in Execution
    /\ buildPhase \in {"indexing", "analysing", "ready", "failed", "cancelled"}
    /\ stopping \in BOOLEAN
    /\ generation \in [status : {"none", "BUILDING", "READY", "FAILED"},
                       collection : Collection \cup {Nothing},
                       by : Execution \cup {Nothing}]
    /\ rows \subseteq Row
    /\ cached \in Resolved
    /\ chunkFile \in BOOLEAN
    /\ leftover \in [Collection \cup {File} -> {"none", "pending", "done"}]
    /\ prior \subseteq Endpoint
    /\ calls \in [Endpoint -> [status : {"none", "failed", "succeeded"},
                               answer : Answer \cup {NoAnswer}]]
    /\ enrichment \in {<<>>} \cup [Endpoint -> Answer]
    /\ job \in [Execution -> [at : Place, vectors : Resolved, left : SUBSET Chunk,
                              collection : Collection \cup {Nothing}, filed : BOOLEAN,
                              asked : SUBSET Endpoint,
                              answers : [Endpoint -> Answer \cup {NoAnswer}]]]
    /\ erased \in BOOLEAN
    /\ failures \in 0 .. MaxFailures

Unresolved == [c \in Chunk |-> Nothing]
NoLocals == [at |-> "waiting", vectors |-> Unresolved, left |-> Chunk,
          collection |-> Nothing, filed |-> FALSE, asked |-> {}, answers |-> [e \in Endpoint |-> NoAnswer]]

\* The build has reached INDEXING; the project's cache holds what other builds left.
KnowledgeInit ==
    /\ lease = 1
    /\ buildPhase = "indexing"
    /\ stopping = FALSE
    /\ generation = [status |-> "none", collection |-> Nothing, by |-> Nothing]
    /\ rows = {}
    /\ cached \in Resolved
    /\ chunkFile = FALSE
    /\ leftover = [x \in Collection \cup {File} |-> "none"]
    /\ prior \in SUBSET Endpoint
    /\ calls = [e \in Endpoint |-> [status |-> "none", answer |-> NoAnswer]]
    /\ enrichment = <<>>
    /\ job = [t \in Execution |-> IF t = 1 THEN [NoLocals EXCEPT !.at = "prepare"] ELSE NoLocals]
    /\ erased = FALSE
    /\ failures = 0

-----------------------------------------------------------------------------
(* Ownership *)

\* require_build_execution_owner
Owns(t) == lease = t /\ buildPhase \in {"indexing", "analysing"}
MayWrite(t) == Owns(t) /\ ~stopping

\* The check between two calls: where a job goes on, or how it ends.
Checked(t, next) == IF MayWrite(t) THEN next ELSE "undo"

Goes(t, place) == job' = [job EXCEPT ![t].at = place]

\* A place beyond the call whose variables they were.
Leaves(t, place) == job' = [job EXCEPT ![t] = [NoLocals EXCEPT !.at = place]]

\* The lease ran out and the next execution is admitted, wherever the job is.
TakeOver(t) ==
    /\ Owns(t - 1)
    /\ failures < MaxFailures
    /\ failures' = failures + 1
    /\ lease' = t
    /\ Goes(t, IF buildPhase = "indexing" THEN "prepare" ELSE "analyse")
    /\ UNCHANGED <<buildPhase, stopping, index, prior, analysis>>

\* The heartbeat cancels a job that lost its lease, which catches no exception.
Abandons(t) ==
    /\ ~Owns(t)
    /\ job[t].at \notin {"waiting", "over"}
    /\ Leaves(t, "over")
    /\ UNCHANGED <<buildRow, index, prior, analysis, failures>>

Cancel ==
    /\ buildPhase \in {"indexing", "analysing"}
    /\ ~stopping
    /\ stopping' = TRUE
    /\ UNCHANGED <<lease, buildPhase, index, prior, analysis, job, failures>>

-----------------------------------------------------------------------------
(* IndexingService.index *)

\* prepare: one generation per build, taken up again when it failed.
Prepared ==
    IF generation.status \in {"BUILDING", "READY"} THEN generation
      ELSE [status |-> "BUILDING", collection |-> Nothing, by |-> Nothing]

\* The owner is checked before anything is to be undone.
PrepareIndex(t) ==
    /\ job[t].at = "prepare"
    /\ IF MayWrite(t)
         THEN /\ generation' = Prepared
              /\ IF Prepared.status = "READY"
                   THEN Goes(t, "indexed") /\ UNCHANGED erased
                   ELSE Goes(t, "chunk") /\ erased' = FALSE
         ELSE Leaves(t, "failed") /\ UNCHANGED <<generation, erased>>
    /\ UNCHANGED <<buildRow, rows, cached, chunkFile, leftover, prior, analysis,
                   failures>>

\* _parse_and_chunk, semantic_chunks: documents and the API's own semantics are cut
\* into chunks; more than the configured number is one of the ways to fail.
CutChunks(t) ==
    /\ job[t].at = "chunk"
    /\ Goes(t, Checked(t, "store"))
    /\ UNCHANGED <<buildRow, index, prior, analysis, failures>>

\* The manifest of the chunks is stored; without any chunk the index is complete.
StoreChunks(t) ==
    /\ job[t].at = "store"
    /\ chunkFile' = TRUE
    /\ job' = [job EXCEPT ![t].filed = TRUE,
                          ![t].at = Checked(t, IF Chunk = {} THEN "complete" ELSE "lookup")]
    /\ UNCHANGED <<buildRow, generation, rows, cached, leftover, erased, prior, analysis,
                   failures>>

\* list_cached_embeddings
Lookup(t) ==
    /\ job[t].at = "lookup"
    /\ job' = [job EXCEPT ![t].vectors = cached, ![t].at = "embed"]
    /\ UNCHANGED <<buildRow, index, prior, analysis, failures>>

Missing(found) == {c \in Chunk : found[c] = Nothing}
ModelsOf(found) == {found[c] : c \in Chunk \ Missing(found)}

\* Faulty variant: whatever is cached is used.
Embedded_Missing(found, m) == Missing(found)

\* The chunks that are embedded when the provider's model is m: what is cached is
\* used if one model made all of it, and the same as the rest.
Embedded(found, m) ==
    IF \/ Cardinality(ModelsOf(found)) > 1
       \/ Missing(found) # {} /\ ~(ModelsOf(found) \subseteq {m})
      THEN Chunk ELSE Missing(found)

\* The vectors of the chunks in made come from model m, and the cache learns them.
Resolves(t, made, m) ==
    LET vectors == [c \in Chunk |-> IF c \in made THEN m ELSE job[t].vectors[c]]
    IN  /\ cached' = [c \in Chunk |-> IF c \in made THEN m ELSE cached[c]]
        /\ job' = [job EXCEPT ![t].vectors = vectors,
                              ![t].collection = Dimension[vectors[CHOOSE c \in Chunk : TRUE]],
                              ![t].at = Checked(t, "publish")]
        /\ UNCHANGED <<buildRow, generation, rows, chunkFile, leftover, erased, prior,
                       analysis, failures>>

\* _resolve_embeddings; what is missing is embedded first, so that a cache by
\* another model takes a second call, for all chunks.
Embed(t, m) ==
    LET found == job[t].vectors
    IN  /\ job[t].at = "embed"
        /\ IF Embedded(found, m) # Missing(found) /\ Cardinality(ModelsOf(found)) = 1
             THEN Goes(t, "embedAll") /\ UNCHANGED <<buildRow, index, prior, analysis, failures>>
             ELSE Resolves(t, Embedded(found, m), m)

EmbedAll(t, m) == job[t].at = "embedAll" /\ Resolves(t, Chunk, m)

\* upsert_chunks: a row is known by its collection, its execution and its chunk.
Upsert(t, c) ==
    {r \in rows : ~(r.collection = job[t].collection /\ r.by = t /\ r.chunk = c)}
        \cup {[collection |-> job[t].collection, by |-> t, chunk |-> c,
               model |-> job[t].vectors[c]]}

Publish(t) ==
    /\ job[t].at = "publish"
    /\ \E c \in job[t].left :
         /\ rows' = Upsert(t, c)
         /\ job' = [job EXCEPT ![t].left = @ \ {c},
                               ![t].at = Checked(t, IF job[t].left = {c} THEN "complete"
                                                                         ELSE "publish")]
    /\ UNCHANGED <<buildRow, generation, cached, chunkFile, leftover, erased, prior,
                   analysis, failures>>

\* complete: the owner's generation, and nobody has ended it.
Completable(t) == MayWrite(t) /\ generation.status = "BUILDING"

CompleteIndex(t) ==
    /\ job[t].at = "complete"
    /\ IF Completable(t)
         THEN /\ generation' = [status |-> "READY", collection |-> job[t].collection, by |-> t]
              /\ Leaves(t, "indexed")
         ELSE Goes(t, "undo") /\ UNCHANGED generation
    /\ UNCHANGED <<buildRow, rows, cached, chunkFile, leftover, erased, prior, analysis,
                   failures>>

\* The transition to ANALYZING, after the index is complete: a job that is lost or
\* cancelled in between leaves a READY index behind in INDEXING.
EndIndexing(t) ==
    /\ job[t].at = "indexed"
    /\ IF MayWrite(t)
         THEN buildPhase' = "analysing" /\ Leaves(t, "analyse")
         ELSE Leaves(t, "failed") /\ UNCHANGED buildPhase
    /\ UNCHANGED <<lease, stopping, index, prior, analysis, failures>>

\* A call to storage, provider or vector store fails, or a check between two of
\* them finds the build lost or cancelled.
Fails(t) ==
    /\ job[t].at \in {"chunk", "store", "lookup", "embed", "embedAll", "publish", "complete"}
    /\ IF MayWrite(t) THEN failures < MaxFailures /\ failures' = failures + 1 ELSE UNCHANGED failures
    /\ Goes(t, "undo")
    /\ UNCHANGED <<buildRow, index, prior, analysis>>

\* delete_generation with the execution's token
OwnRows(t) == {r \in rows : r.collection = job[t].collection /\ r.by = t}

\* The vectors are deleted as far as the store lets it.
Undo(t) ==
    /\ job[t].at = "undo"
    /\ \/ rows' = rows \ OwnRows(t) /\ UNCHANGED failures
       \/ /\ failures < MaxFailures
          /\ failures' = failures + 1
          /\ OwnRows(t) # {}
          /\ UNCHANGED rows
    /\ Goes(t, "record")
    /\ UNCHANGED <<buildRow, generation, cached, chunkFile, leftover, erased, prior, analysis>>

\* What a failure leaves to the clean-up; a leftover that was there stays as it is.
Scheduled(t) ==
    [x \in DOMAIN leftover |->
        IF \/ leftover[x] # "none"
           \/ x = File /\ ~job[t].filed
           \/ x # File /\ x # job[t].collection
          THEN leftover[x] ELSE "pending"]

\* fail: a generation that was not completed meanwhile.
FailedGeneration ==
    IF generation.status = "BUILDING" THEN [generation EXCEPT !.status = "FAILED"] ELSE generation

\* The failure is recorded by the owner, a cancelled one too.
RecordFailure(t) ==
    /\ job[t].at = "record"
    /\ IF Owns(t)
         THEN /\ leftover' = Scheduled(t)
              /\ generation' = FailedGeneration
         ELSE UNCHANGED <<leftover, generation>>
    /\ Leaves(t, "failed")
    /\ UNCHANGED <<buildRow, rows, cached, chunkFile, erased, prior, analysis, failures>>

\* The job's end: a cancellation is acknowledged, a passing fault is tried again
\* under the same token, any other ends the build.
Settles(t) ==
    /\ job[t].at = "failed"
    /\ \/ Owns(t) /\ stopping /\ buildPhase' = "cancelled" /\ Leaves(t, "over")
       \/ /\ Owns(t) /\ ~stopping
          /\ \/ /\ Leaves(t, IF buildPhase = "indexing" THEN "prepare" ELSE "analyse")
                /\ UNCHANGED buildPhase
             \/ buildPhase' = "failed" /\ Leaves(t, "over")
       \/ ~Owns(t) /\ UNCHANGED buildPhase /\ Leaves(t, "over")
    /\ UNCHANGED <<lease, stopping, index, prior, analysis, failures>>

-----------------------------------------------------------------------------
(* The clean-up worker, under the lock that complete takes too. *)

Referenced(x) ==
    IF x = File THEN generation.status = "READY" ELSE generation.collection = x

Reclaim(x) ==
    /\ leftover[x] = "pending"
    /\ leftover' = [leftover EXCEPT ![x] = "done"]
    /\ LET gone == {r \in rows : ~Referenced(x) /\ r.collection = x}
       IN  /\ rows' = rows \ gone
           /\ erased' = (erased \/ \E r \in gone : r.by = lease)
    /\ chunkFile' = IF x = File /\ ~Referenced(x) THEN FALSE ELSE chunkFile
    /\ UNCHANGED <<buildRow, generation, cached, prior, analysis, job, failures>>

-----------------------------------------------------------------------------
(* AnalysisService.analyze *)

\* select_reusable_enrichment
Repeatable(e) == e \in prior

Answers(t, e, a) == job' = [job EXCEPT ![t].answers[e] = a, ![t].asked = @ \ {e}]

\* BuildAIRunRepository.create: a call that succeeded before is left as it is.
Saved(e, status, a) ==
    IF calls[e].status = "succeeded" THEN calls
      ELSE [calls EXCEPT ![e] = [status |-> status, answer |-> a]]

\* An earlier job saved the enrichment and did not get further.
Enriched(t) == enrichment # <<>> /\ job[t] = [NoLocals EXCEPT !.at = "analyse"]

SkipAnalysis(t) ==
    /\ Enriched(t)
    /\ Goes(t, "enriched")
    /\ UNCHANGED <<buildRow, index, prior, analysis, failures>>

\* get_by_run_key: an answer that was saved is taken, another one is asked for.
Examine(t, e) ==
    /\ job[t].at = "analyse" /\ ~Enriched(t)
    /\ e \notin job[t].asked /\ job[t].answers[e] = NoAnswer
    /\ IF calls[e].status = "succeeded"
         THEN Answers(t, e, calls[e].answer)
         ELSE job' = [job EXCEPT ![t].asked = @ \cup {e}]
    /\ UNCHANGED <<buildRow, index, prior, analysis, failures>>

\* The previous build's answer, or what the model says: saved by the owner only.
Receive(t, e) ==
    LET a == IF Repeatable(e) THEN Prior ELSE <<"by", t>>
    IN  /\ job[t].at = "analyse"
        /\ e \in job[t].asked
        /\ IF MayWrite(t)
             THEN calls' = Saved(e, "succeeded", a) /\ Answers(t, e, a)
             ELSE Leaves(t, "failed") /\ UNCHANGED calls
        /\ UNCHANGED <<buildRow, index, prior, enrichment, failures>>

\* No answer, or one that cites what was not retrieved.
Refuse(t, e) ==
    /\ job[t].at = "analyse"
    /\ e \in job[t].asked
    /\ ~Repeatable(e)
    /\ failures < MaxFailures
    /\ failures' = failures + 1
    /\ calls' = IF MayWrite(t) THEN Saved(e, "failed", NoAnswer) ELSE calls
    /\ Leaves(t, "failed")
    /\ UNCHANGED <<buildRow, index, prior, enrichment>>

\* set_enrichment with the answers to all operations.
Enrich(t) ==
    /\ job[t].at = "analyse"
    /\ \A e \in Endpoint : job[t].answers[e] \in Answer
    /\ IF MayWrite(t)
         THEN enrichment' = job[t].answers /\ Leaves(t, "enriched")
         ELSE Leaves(t, "failed") /\ UNCHANGED enrichment
    /\ UNCHANGED <<buildRow, index, prior, calls, failures>>

\* The transition to COMPILING, where this model ends.
EndAnalysis(t) ==
    /\ job[t].at = "enriched"
    /\ IF MayWrite(t)
         THEN buildPhase' = "ready" /\ Leaves(t, "over")
         ELSE Leaves(t, "failed") /\ UNCHANGED buildPhase
    /\ UNCHANGED <<lease, stopping, index, prior, analysis, failures>>

-----------------------------------------------------------------------------

KnowledgeNext ==
    \/ \E t \in Execution \ {1} : TakeOver(t)
    \/ \E t \in Execution :
          \/ Abandons(t)
          \/ PrepareIndex(t) \/ CutChunks(t) \/ StoreChunks(t) \/ Lookup(t)
          \/ \E m \in Model : Embed(t, m) \/ EmbedAll(t, m)
          \/ Publish(t) \/ CompleteIndex(t) \/ EndIndexing(t)
          \/ Fails(t) \/ Undo(t) \/ RecordFailure(t) \/ Settles(t)
          \/ \E e \in Endpoint : Examine(t, e) \/ Receive(t, e) \/ Refuse(t, e)
          \/ SkipAnalysis(t) \/ Enrich(t) \/ EndAnalysis(t)
    \/ Cancel
    \/ \E x \in DOMAIN leftover : Reclaim(x)

KnowledgeSpec == KnowledgeInit /\ [][KnowledgeNext]_knowledgeVars

-----------------------------------------------------------------------------
(* Properties. *)

\* A search of the generation: the rows of the execution that completed it.
Searched == {r \in rows : r.collection = generation.collection /\ r.by = generation.by}

CompleteSearch ==
    /\ {r.chunk : r \in Searched} = Chunk
    /\ Cardinality({r.model : r \in Searched}) <= 1

\* An index that is READY holds one vector for every chunk, all made by the same
\* model, whatever earlier, late and failing executions wrote, deleted or cached -
\* except for what the clean-up of an earlier attempt took from it: delete_generation
\* knows the generation and not the execution, so a clean-up that is late erases the
\* rows of the attempt that has replaced the failed one.  And the enrichment of a build
\* is what its recorded model calls say, operation by operation.
KnowledgeConsistent ==
    /\ generation.status = "READY" /\ ~erased => CompleteSearch
    /\ enrichment # <<>> =>
         \A e \in Endpoint : calls[e] = [status |-> "succeeded", answer |-> enrichment[e]]

-----------------------------------------------------------------------------
(***************************************************************************)
(* The inductive invariant of PlatformProofs.                              *)
(***************************************************************************)

Resolving == {"chunk", "store", "lookup", "embed", "embedAll"}
Publishing == {"publish", "complete"}
Working == Resolving \cup Publishing \cup {"undo", "record"}

\* An execution that is not admitted yet, or that starts, holds nothing.
StartsFresh ==
    /\ \A t \in Execution : t > lease => job[t] = NoLocals
    /\ \A t \in Execution : job[t].at = "prepare" => job[t] = [NoLocals EXCEPT !.at = "prepare"]

\* Where a job is in its work on the chunks.
ChunksLeft ==
    \A t \in Execution :
        /\ job[t].at \in Resolving => job[t].left = Chunk
        /\ job[t].at \in {"lookup", "embed", "embedAll", "publish"} => Chunk # {}
        /\ job[t].at = "publish" => job[t].collection \in Collection
        /\ job[t].at = "complete" => job[t].left = {}

\* What a job publishes is the work of one model.
VectorsAgree ==
    \A t \in Execution :
        job[t].at \in Publishing =>
            \A c, d \in Chunk : job[t].vectors[c] \in Model /\ job[t].vectors[c] = job[t].vectors[d]

\* The row of chunk c that job t writes.
OwnRow(t, c) ==
    [collection |-> job[t].collection, by |-> t, chunk |-> c, model |-> job[t].vectors[c]]

\* What a job has published replaces what its execution wrote before, and is there as
\* long as the execution owns the build and the clean-up took nothing from it.
PublishedSoFar ==
    \A t \in Execution :
        job[t].at \in Publishing =>
            /\ \A r \in rows : r.collection = job[t].collection /\ r.by = t /\ r.chunk \notin job[t].left
                                  => r.model = job[t].vectors[r.chunk]
            /\ lease = t /\ ~erased => \A c \in Chunk \ job[t].left : OwnRow(t, c) \in rows

\* The execution that completed the index has no work left that could touch it.
ReadyIsSettled ==
    generation.status = "READY" =>
        generation.by \in Execution /\ job[generation.by].at \notin Working

\* What a job knows of an operation is on record; the owner asks for what is not.
AnswersRecorded ==
    \A t \in Execution, e \in Endpoint :
        /\ job[t].answers[e] # NoAnswer =>
              calls[e] = [status |-> "succeeded", answer |-> job[t].answers[e]]
        /\ lease = t /\ e \in job[t].asked => calls[e].status # "succeeded"

\* A call that succeeded has an answer.
CallsAnswered ==
    \A e \in Endpoint : calls[e].status = "succeeded" => calls[e].answer \in Answer

KnowledgeIInv ==
    /\ KnowledgeTypeOK
    /\ StartsFresh
    /\ ChunksLeft
    /\ VectorsAgree
    /\ PublishedSoFar
    /\ ReadyIsSettled
    /\ AnswersRecorded
    /\ CallsAnswered
    /\ KnowledgeConsistent
=============================================================================
