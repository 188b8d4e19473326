---------------------------- MODULE ObjectCleanup ----------------------------
(***************************************************************************)
(* Stored objects, the rows that refer to them, and the cleanup jobs that  *)
(* delete objects nobody refers to any more.  Storage is content addressed *)
(* and shared: two writers of the same content write the same key.         *)
(*                                                                         *)
(*   clients/storage.py            services/sources.py     (uploads)       *)
(*   repositories/cleanup.py       services/builds/pipeline.py (stages)    *)
(*   services/cleanup.py           services/projects.py    (deletion)      *)
(*                                                                         *)
(* A writer is one upload request, or one attempt of a build stage.  An    *)
(* owner is a row that refers to objects: a source with its versions, or a *)
(* build.  Deleting a source or a project, a retention sweep and the       *)
(* acknowledgement of a cancellation all do the same to an owner: in one   *)
(* transaction they record its objects as the targets of a cleanup job and *)
(* drop the references.  Advisory locks and row locks are held from the    *)
(* step that takes them to the end of the transaction.  The deletion of    *)
(* vector generations follows the same protocol and is not told apart.     *)
(***************************************************************************)
EXTENDS Naturals, FiniteSets

CONSTANTS
    Key,           \* storage keys
    Owner,
    InitialOwner,  \* the owners that exist from the start
    InitialRefs,   \* their references, each to an object in storage
    Writer, KeyOf, OwnerOf,
    Upload,        \* the writers that are uploads; the others are build stages
    Cleaner,       \* the cleanup workers
    NoTarget,
    MaxAttempts,   \* cleanup_max_attempts
    MaxClaims      \* bound: how often a target may be claimed

ASSUME CleanupAssumption ==
    /\ KeyOf \in [Writer -> Key]
    /\ OwnerOf \in [Writer -> Owner]
    /\ InitialOwner \subseteq Owner
    /\ InitialRefs \subseteq InitialOwner \X Key
    /\ Upload \subseteq Writer
    /\ MaxAttempts \in Nat \ {0}
    /\ MaxClaims \in Nat

\* The idempotency keys of jobs: a guard per upload, a deletion per owner, an
\* orphan job per owner and key.
Guard(w) == <<"guard", w>>
Deletion(o) == <<"deletion", o>>
Orphan(o, k) == <<"orphan", o, k>>

Target ==
    {<<Guard(w), KeyOf[w]>> : w \in Upload} \cup {<<Deletion(o), k>> : o \in Owner, k \in Key}
      \cup {<<Orphan(OwnerOf[w], KeyOf[w]), KeyOf[w]>> : w \in Writer \ Upload}
Job == {t[1] : t \in Target}
TargetsOf(j) == {t \in Target : t[1] = j}

ASSUME TargetAssumption == NoTarget \notin Target

VARIABLES
    objects,      \* the keys that storage holds
    refs,         \* the references, as pairs of an owner and a key
    alive,        \* the owners that exist
    wpc, creating,                \* the writers, and those that create their source
    status, due, attempts,        \* the targets
    jobs,                         \* the status of each job
    cpc, claim, attempt,          \* the cleanup workers
    swallowed     \* history: the keys that a deletion left to a target from before

store == <<objects, refs, alive, swallowed>>
writers == <<wpc, creating>>
targets == <<status, due, attempts, jobs>>
cleaners == <<cpc, claim, attempt>>
vars == <<store, writers, targets, cleaners>>

\* due holds the targets whose next attempt has come; of a RUNNING target, the
\* ones whose lease has expired.
Waiting == {"PENDING", "RETRYING"}
Settled == {"COMPLETED", "SKIPPED_REFERENCED", "FAILED"}
TargetStatus == {"ABSENT", "RUNNING"} \cup Waiting \cup Settled
JobStatus == {"ABSENT", "PENDING", "RUNNING", "RETRYING", "COMPLETED", "FAILED"}

WriterPC == {"start", "armed", "stored", "persisted", "resolving", "failed", "done"}
CleanerPC == {"idle", "claimed", "locked", "unreferenced", "deleted", "referenced", "failing"}

TypeOK ==
    /\ objects \subseteq Key
    /\ refs \subseteq Owner \X Key
    /\ alive \subseteq Owner
    /\ wpc \in [Writer -> WriterPC]
    /\ creating \subseteq Upload
    /\ swallowed \subseteq Key
    /\ status \in [Target -> TargetStatus]
    /\ due \subseteq Target
    /\ attempts \in [Target -> 0..MaxClaims]
    /\ jobs \in [Job -> JobStatus]
    /\ cpc \in [Cleaner -> CleanerPC]
    /\ claim \in [Cleaner -> Target \cup {NoTarget}]
    /\ attempt \in [Cleaner -> 0..MaxClaims]
    /\ \A c \in Cleaner : cpc[c] # "idle" => claim[c] \in Target

Init ==
    /\ objects = {r[2] : r \in InitialRefs}
    /\ refs = InitialRefs
    /\ alive = InitialOwner
    /\ swallowed = {}
    /\ wpc = [w \in Writer |-> "start"]
    /\ creating = {}
    /\ status = [t \in Target |-> "ABSENT"]
    /\ due = {}
    /\ attempts = [t \in Target |-> 0]
    /\ jobs = [j \in Job |-> "ABSENT"]
    /\ cpc = [c \in Cleaner |-> "idle"]
    /\ claim = [c \in Cleaner |-> NoTarget]
    /\ attempt = [c \in Cleaner |-> 0]

-----------------------------------------------------------------------------
(* Locks. *)

\* A worker holds the rows of its job and target for the whole of _process, and
\* the key from the check of the references on.
HoldsRows(c) == cpc[c] \in {"locked", "unreferenced", "deleted", "referenced"}
HoldsKey(c) == cpc[c] \in {"unreferenced", "deleted", "referenced"}

JobFree(j) == \A c \in Cleaner : HoldsRows(c) => claim[c][1] # j
KeyFree(k) ==
    /\ \A c \in Cleaner : HoldsKey(c) => claim[c][2] # k
    /\ \A w \in Writer : wpc[w] = "resolving" => KeyOf[w] # k

Referenced(k) == \E o \in Owner : <<o, k>> \in refs

-----------------------------------------------------------------------------
(* Jobs and targets. *)

\* add_object_target for each of the targets T of job j: one that exists stays
\* as it is.
AddTargets(j, T, now) ==
    LET new == {t \in T : status[t] = "ABSENT"}
    IN  /\ status' = [t \in Target |-> IF t \in new THEN "PENDING" ELSE status[t]]
        /\ due' = IF now THEN due \cup new ELSE due
        /\ jobs' = [jobs EXCEPT ![j] = IF @ # "ABSENT" THEN @
                                        ELSE IF T = {} THEN "COMPLETED" ELSE "PENDING"]
        /\ UNCHANGED attempts

\* _refresh_job: what the job's status becomes with the target statuses s.
Refresh(j, s) ==
    LET S == {s[t] : t \in TargetsOf(j)} \ {"ABSENT"}
    IN  IF S \subseteq Settled THEN (IF "FAILED" \in S THEN "FAILED" ELSE "COMPLETED")
        ELSE IF "RETRYING" \in S THEN "RETRYING"
        ELSE IF "RUNNING" \in S THEN "RUNNING" ELSE "PENDING"

\* A target leaves its attempt with status s.
Leave(t, s) ==
    /\ status' = [status EXCEPT ![t] = s]
    /\ due' = due \ {t}
    /\ jobs' = [jobs EXCEPT ![t[1]] = Refresh(t[1], status')]
    /\ UNCHANGED attempts

-----------------------------------------------------------------------------
(* Writers. *)

GuardTarget(w) == <<Guard(w), KeyOf[w]>>
InProgress(w) == wpc[w] \in {"armed", "stored", "persisted", "resolving", "failed"}

\* Whether an upload creates its source matters until it has written its rows.
WriterTo(w, p) ==
    /\ wpc' = [wpc EXCEPT ![w] = p]
    /\ creating' = IF p = "stored" THEN creating ELSE creating \ {w}

\* Faulty variant: the guard has no delay.
Arm_NoDelay(w) ==
    /\ wpc[w] = "start" /\ w \in Upload
    /\ AddTargets(Guard(w), {GuardTarget(w)}, TRUE)
    /\ wpc' = [wpc EXCEPT ![w] = "armed"]
    /\ creating' = IF OwnerOf[w] \in alive THEN creating ELSE creating \cup {w}
    /\ UNCHANGED <<store, cleaners>>

\* An upload has staged its content and arms a guard, due after a delay.  It adds a
\* version to the source that it names, or creates it under the id that the caller
\* chose, which may be that of a source deleted before.
Arm(w) ==
    /\ wpc[w] = "start" /\ w \in Upload
    /\ AddTargets(Guard(w), {GuardTarget(w)}, FALSE)
    /\ wpc' = [wpc EXCEPT ![w] = "armed"]
    /\ creating' = IF OwnerOf[w] \in alive THEN creating ELSE creating \cup {w}
    /\ UNCHANGED <<store, cleaners>>

\* commit_staged: an object that is already there stays.
Store(w) ==
    /\ wpc[w] = IF w \in Upload THEN "armed" ELSE "start"
    /\ objects' = objects \cup {KeyOf[w]}
    /\ WriterTo(w, "stored")
    /\ UNCHANGED <<refs, alive, swallowed, targets, cleaners>>

\* Faulty variant: the reference is written without the lock on its key.
Persist_Unlocked(w) ==
    /\ wpc[w] = "stored"
    /\ w \in creating \/ OwnerOf[w] \in alive
    /\ refs' = refs \cup {<<OwnerOf[w], KeyOf[w]>>}
    /\ alive' = alive \cup {OwnerOf[w]}
    /\ swallowed' = swallowed \ {KeyOf[w]}
    /\ WriterTo(w, IF w \in Upload THEN "persisted" ELSE "done")
    /\ UNCHANGED <<objects, targets, cleaners>>

\* _persist_created_source, _persist_version, set_manifest, set_artifact.
Persist(w) ==
    /\ wpc[w] = "stored"
    /\ KeyFree(KeyOf[w])
    /\ w \in creating \/ OwnerOf[w] \in alive
    /\ refs' = refs \cup {<<OwnerOf[w], KeyOf[w]>>}
    /\ alive' = alive \cup {OwnerOf[w]}
    /\ swallowed' = swallowed \ {KeyOf[w]}
    /\ WriterTo(w, IF w \in Upload THEN "persisted" ELSE "done")
    /\ UNCHANGED <<objects, targets, cleaners>>

\* The project or the source is gone, or the attempt of a stage lost its build.
Refuse(w) ==
    /\ wpc[w] = "stored"
    /\ w \notin Upload \/ (w \notin creating /\ OwnerOf[w] \notin alive)
    /\ WriterTo(w, "failed")
    /\ UNCHANGED <<store, targets, cleaners>>

\* Any other error in storing or persisting; a stage does not handle those.
WriteFails(w) ==
    /\ wpc[w] \in {"armed", "stored"}
    /\ WriterTo(w, IF w \in Upload THEN "failed" ELSE "done")
    /\ UNCHANGED <<store, targets, cleaners>>

\* The failed upload makes its guard due, the failed stage schedules its object.
Release(w) ==
    /\ wpc[w] = "failed"
    /\ IF w \in Upload
         THEN /\ due' = due \cup ({GuardTarget(w)} \cap {t \in Target : status[t] \in Waiting})
              /\ UNCHANGED <<status, attempts, jobs>>
         ELSE AddTargets(Orphan(OwnerOf[w], KeyOf[w]),
                         {<<Orphan(OwnerOf[w], KeyOf[w]), KeyOf[w]>>}, TRUE)
    /\ WriterTo(w, "done")
    /\ UNCHANGED <<store, cleaners>>

\* resolve_orphan_guard takes the key, then the rows of the guard's job.
ResolveLock(w) ==
    /\ wpc[w] = "persisted"
    /\ KeyFree(KeyOf[w])
    /\ WriterTo(w, "resolving")
    /\ UNCHANGED <<store, targets, cleaners>>

Resolve(w) ==
    /\ wpc[w] = "resolving"
    /\ JobFree(Guard(w))
    /\ IF Referenced(KeyOf[w]) /\ status[GuardTarget(w)] \in Waiting
         THEN Leave(GuardTarget(w), "SKIPPED_REFERENCED")
         ELSE UNCHANGED targets
    /\ WriterTo(w, "done")
    /\ UNCHANGED <<store, cleaners>>

\* The request or the job dies, or its database connection does.
WriterCrash(w) ==
    /\ InProgress(w)
    /\ WriterTo(w, "done")
    /\ UNCHANGED <<store, targets, cleaners>>

-----------------------------------------------------------------------------
(* Deletion. *)

\* The target is settled, or a worker has counted the references for it.
TakenUp(t) ==
    \/ status[t] \in {"COMPLETED", "SKIPPED_REFERENCED"}
    \/ \E c \in Cleaner : HoldsKey(c) /\ claim[c] = t

\* What a deletion finds: an object for each of the owner's references.
Captured(o) == {<<Deletion(o), r[2]>> : r \in {r \in refs : r[1] = o}}

\* capture_source_delete, capture_project_delete, prepare_retention_job and
\* acknowledge_cancellation: targets are recorded as the references go.  The job of
\* an earlier deletion under the same id is found again, and locked to be given
\* another target; one of its targets that is there is left as it is, taken up
\* though it may be.
Delete(o) ==
    LET captured == Captured(o)
    IN  /\ o \in alive
        /\ alive' = alive \ {o}
        /\ refs' = {r \in refs : r[1] # o}
        /\ (\E t \in captured : status[t] = "ABSENT") => JobFree(Deletion(o))
        /\ AddTargets(Deletion(o), captured, TRUE)
        /\ swallowed' = swallowed \cup {t[2] : t \in {t \in captured : TakenUp(t)}}
        /\ UNCHANGED <<objects, writers, cleaners>>

-----------------------------------------------------------------------------
(* Cleanup workers. *)

CleanerTo(c, p) == cpc' = [cpc EXCEPT ![c] = p] /\ UNCHANGED <<claim, attempt>>

\* Faulty variant: the worker lets go of its target and goes on.
Rest_Early(c) ==
    /\ claim' = [claim EXCEPT ![c] = NoTarget]
    /\ attempt' = [attempt EXCEPT ![c] = 0]
    /\ UNCHANGED cpc

\* process_due_targets_once is done with one target.
Rest(c) ==
    /\ cpc' = [cpc EXCEPT ![c] = "idle"]
    /\ claim' = [claim EXCEPT ![c] = NoTarget]
    /\ attempt' = [attempt EXCEPT ![c] = 0]

\* The delay of a guard or a retry, or the lease of an attempt, runs out.  The
\* delay of a guard is taken to be longer than its upload.
BecomeDue(t) ==
    /\ status[t] \in Waiting \cup {"RUNNING"}
    /\ \A w \in Writer : InProgress(w) /\ t[1] = Guard(w) => status[t] # "PENDING"
    /\ due' = due \cup {t}
    /\ UNCHANGED <<store, writers, status, attempts, jobs, cleaners>>

\* Faulty variant: a target whose attempt died with its worker is left RUNNING.
ClaimDue_NotRunning(c, t) ==
    /\ cpc[c] = "idle"
    /\ t \in due
    /\ status[t] \in Waiting
    /\ JobFree(t[1])
    /\ attempts[t] < MaxClaims
    /\ status' = [status EXCEPT ![t] = "RUNNING"]
    /\ due' = due \ {t}
    /\ attempts' = [attempts EXCEPT ![t] = @ + 1]
    /\ jobs' = [jobs EXCEPT ![t[1]] = "RUNNING"]
    /\ cpc' = [cpc EXCEPT ![c] = "claimed"]
    /\ claim' = [claim EXCEPT ![c] = t]
    /\ attempt' = [attempt EXCEPT ![c] = attempts[t] + 1]
    /\ UNCHANGED <<store, writers>>

\* claim_due_targets: job rows that are locked are skipped.
ClaimDue(c, t) ==
    /\ cpc[c] = "idle"
    /\ t \in due
    /\ status[t] \in Waiting \cup {"RUNNING"}
    /\ JobFree(t[1])
    /\ attempts[t] < MaxClaims
    /\ status' = [status EXCEPT ![t] = "RUNNING"]
    /\ due' = due \ {t}
    /\ attempts' = [attempts EXCEPT ![t] = @ + 1]
    /\ jobs' = [jobs EXCEPT ![t[1]] = "RUNNING"]
    /\ cpc' = [cpc EXCEPT ![c] = "claimed"]
    /\ claim' = [claim EXCEPT ![c] = t]
    /\ attempt' = [attempt EXCEPT ![c] = attempts[t] + 1]
    /\ UNCHANGED <<store, writers>>

\* The target is still in the attempt that the worker claimed.
Mine(c) == status[claim[c]] = "RUNNING" /\ attempts[claim[c]] = attempt[c]

LockTarget(c) ==
    /\ cpc[c] = "claimed"
    /\ JobFree(claim[c][1])
    /\ IF Mine(c) /\ claim[c] \notin due THEN CleanerTo(c, "locked") ELSE Rest(c)
    /\ UNCHANGED <<store, writers, targets>>

\* The key is locked and the references are counted.
CheckReferences(c) ==
    /\ cpc[c] = "locked"
    /\ KeyFree(claim[c][2])
    /\ CleanerTo(c, IF Referenced(claim[c][2]) THEN "referenced" ELSE "unreferenced")
    /\ UNCHANGED <<store, writers, targets>>

DeleteObject(c) ==
    /\ cpc[c] = "unreferenced"
    /\ objects' = objects \ {claim[c][2]}
    /\ swallowed' = swallowed \ {claim[c][2]}
    /\ CleanerTo(c, "deleted")
    /\ UNCHANGED <<refs, alive, writers, targets>>

MarkCompleted(c) ==
    /\ cpc[c] \in {"deleted", "referenced"}
    /\ Leave(claim[c], IF cpc[c] = "referenced" THEN "SKIPPED_REFERENCED" ELSE "COMPLETED")
    /\ Rest(c)
    /\ UNCHANGED <<store, writers>>

\* The transaction of _process fails and is rolled back.
ProcessFails(c) ==
    /\ HoldsRows(c)
    /\ CleanerTo(c, "failing")
    /\ UNCHANGED <<store, writers, targets>>

\* Faulty variant: the failure of an attempt that lost its target is recorded.
MarkFailed_Unfenced(c) ==
    /\ cpc[c] = "failing"
    /\ JobFree(claim[c][1])
    /\ Leave(claim[c], IF attempts[claim[c]] >= MaxAttempts THEN "FAILED" ELSE "RETRYING")
    /\ Rest(c)
    /\ UNCHANGED <<store, writers>>

MarkFailed(c) ==
    /\ cpc[c] = "failing"
    /\ JobFree(claim[c][1])
    /\ IF Mine(c)
         THEN Leave(claim[c], IF attempts[claim[c]] >= MaxAttempts THEN "FAILED" ELSE "RETRYING")
         ELSE UNCHANGED targets
    /\ Rest(c)
    /\ UNCHANGED <<store, writers>>

CleanerCrash(c) ==
    /\ cpc[c] # "idle"
    /\ Rest(c)
    /\ UNCHANGED <<store, writers, targets>>

-----------------------------------------------------------------------------

WriterNext(w) ==
    \/ Arm(w)
    \/ Store(w)
    \/ Persist(w)
    \/ Refuse(w)
    \/ WriteFails(w)
    \/ Release(w)
    \/ ResolveLock(w)
    \/ Resolve(w)
    \/ WriterCrash(w)

CleanerNext(c) ==
    \/ \E t \in Target : ClaimDue(c, t)
    \/ LockTarget(c)
    \/ CheckReferences(c)
    \/ DeleteObject(c)
    \/ MarkCompleted(c)
    \/ ProcessFails(c)
    \/ MarkFailed(c)
    \/ CleanerCrash(c)

Next ==
    \/ \E w \in Writer : WriterNext(w)
    \/ \E o \in Owner : Delete(o)
    \/ \E t \in Target : BecomeDue(t)
    \/ \E c \in Cleaner : CleanerNext(c)

Spec == Init /\ [][Next]_vars

\* Delays run out, requests and workers go on.  Workers may crash and attempts
\* fail, as often as the bound on claims allows.
Fairness ==
    /\ \A t \in Target : WF_vars(t \notin due /\ BecomeDue(t))
    /\ \A w \in Writer : WF_vars(Store(w) \/ Persist(w) \/ Refuse(w) \/ Release(w)
                                \/ ResolveLock(w) \/ Resolve(w))
    /\ \A c \in Cleaner :
         WF_vars((\E t \in Target : ClaimDue(c, t)) \/ LockTarget(c) \/ CheckReferences(c)
                   \/ DeleteObject(c) \/ MarkCompleted(c) \/ MarkFailed(c))

LiveSpec == Spec /\ Fairness

-----------------------------------------------------------------------------
(* Properties. *)

\* An object is deleted only while nothing refers to it, although writers create
\* references all the time the worker has it in hand (services/cleanup.py, _process:
\* the key lock joins the check of the references to the deletion).
DeletionIsSafe ==
    [][\A k \in objects \ objects' : ~Referenced(k) /\ ~Referenced(k)']_vars

\* The keys that only uploads write: what a dying build stage stored stays until
\* the build runs the stage again.
UploadKey == Key \ {KeyOf[w] : w \in Writer \ Upload}

\* An uploaded object that nothing refers to and no upload works on is the business
\* of some cleanup target, or of one that was given up after its last attempt: the
\* guard is armed before the object is stored, and a deletion commits its targets
\* before the references go (arm_orphan_guard, capture_source_delete).  The one
\* exception: an owner was deleted, created again under its id and deleted again
\* when the first deletion's target of that key was settled, or its references
\* counted.
OrphanIsScheduled ==
    \A k \in (objects \cap UploadKey) \ swallowed :
        \/ Referenced(k)
        \/ \E w \in Writer : KeyOf[w] = k /\ InProgress(w)
        \/ \E t \in Target : t[2] = k /\ status[t] \in {"PENDING", "RETRYING", "RUNNING", "FAILED"}

\* A request that resolves its guard and a worker that processes the same guard
\* take the same two locks in opposite orders; they never meet, because the guard of
\* an upload in progress is not due (resolve_orphan_guard, _process).
NoLockCycle ==
    \A w \in Writer, c \in Cleaner :
        ~(wpc[w] = "resolving" /\ cpc[c] = "locked" /\ claim[c] = GuardTarget(w))

\* A settled target stays as it is: a worker that lost its lease, and then fails,
\* does not reopen what another worker finished (mark_failed is fenced by attempt).
SettledStays ==
    [][\A t \in Target : status[t] \in Settled => status'[t] = status[t]]_vars

\* An object without references is reclaimed in the end, whenever its upload broke
\* off, unless its target failed for good or used up the bound on claims, or a
\* repeated deletion found it settled (claim_due_targets takes over expired leases).
OrphansReclaimed ==
    \A k \in UploadKey :
        k \in objects /\ ~Referenced(k) ~>
            \/ k \notin objects
            \/ Referenced(k)
            \/ k \in swallowed
            \/ \E t \in Target : t[2] = k /\ (status[t] = "FAILED" \/ attempts[t] = MaxClaims)
-----------------------------------------------------------------------------
(***************************************************************************)
(* The inductive invariant of ObjectCleanupProofs.                         *)
(***************************************************************************)

\* Row locks exclude: no two workers process targets of one job.
RowsExclusive ==
    \A c, d \in Cleaner :
        HoldsRows(c) /\ HoldsRows(d) /\ claim[c][1] = claim[d][1] => c = d

\* What a worker has locked is in its attempt and stays so.
HeldIsRunning == \A c \in Cleaner : HoldsRows(c) => status[claim[c]] = "RUNNING"

\* From the check of the references on, no reference appears.
VerdictStands ==
    \A c \in Cleaner : cpc[c] = "unreferenced" => ~Referenced(claim[c][2])

AbsentNotDue == \A t \in due : status[t] # "ABSENT"

\* The guard of an upload does not exist before the upload arms it, and waits,
\* not due, until the upload is over.  Only uploads resolve guards.
GuardsWait ==
    /\ \A w \in Upload :
         /\ wpc[w] = "start" => status[GuardTarget(w)] = "ABSENT"
         /\ InProgress(w) => status[GuardTarget(w)] = "PENDING" /\ GuardTarget(w) \notin due
    /\ \A w \in Writer : wpc[w] \in {"persisted", "resolving"} => w \in Upload

IInv ==
    /\ TypeOK
    /\ RowsExclusive
    /\ HeldIsRunning
    /\ VerdictStands
    /\ AbsentNotDue
    /\ GuardsWait

-----------------------------------------------------------------------------
(***************************************************************************)
(* What keeps every orphan scheduled, on top of IInv.                      *)
(***************************************************************************)

\* The lock on a key excludes workers from one another.
KeysExclusive ==
    \A c, d \in Cleaner :
        HoldsKey(c) /\ HoldsKey(d) /\ claim[c][2] = claim[d][2] => c = d

\* The object of key k has a reference, an upload at work, or a target in T.
Unsettled == {"PENDING", "RETRYING", "RUNNING", "FAILED"}
Covered(k, T) ==
    \/ Referenced(k)
    \/ \E w \in Writer : KeyOf[w] = k /\ InProgress(w)
    \/ \E t \in T : t[2] = k /\ status[t] \in Unsettled

\* A worker that is about to settle its target leaves no orphan: the object is gone,
\* or it is covered by something other than that target, or was swallowed.
CoveredOtherwise ==
    \A c \in Cleaner :
        cpc[c] \in {"deleted", "referenced"} /\ claim[c][2] \in (objects \cap UploadKey) \ swallowed
            => Covered(claim[c][2], Target \ {claim[c]})

SInv == IInv /\ KeysExclusive /\ CoveredOtherwise /\ OrphanIsScheduled
=============================================================================
