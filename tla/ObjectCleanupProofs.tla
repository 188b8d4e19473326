------------------------ MODULE ObjectCleanupProofs ------------------------
(***************************************************************************)
(* Proofs that ObjectCleanup keeps its inductive invariant IInv, for any   *)
(* keys, owners, writers and cleanup workers.                              *)
(***************************************************************************)
EXTENDS ObjectCleanup, TLAPS

USE CleanupAssumption, TargetAssumption

\* A target names its job and its key; a guard has one target, and no other job
\* has the name of a guard.
LEMMA TargetFacts ==
  /\ \A t \in Target : t[1] \in Job /\ t[2] \in Key
  /\ \A w \in Upload : GuardTarget(w) \in Target /\ GuardTarget(w)[1] = Guard(w)
                         /\ GuardTarget(w)[2] = KeyOf[w] /\ Guard(w) \in Job
  /\ \A t \in Target, w \in Upload : t[1] = Guard(w) => t = GuardTarget(w)
  /\ \A v, w \in Writer : GuardTarget(v) = GuardTarget(w) => v = w
<1>1. \A t \in Target : t[1] \in Job /\ t[2] \in Key
  BY DEF Target, Job
<1>2. \A w \in Upload : GuardTarget(w) \in Target /\ GuardTarget(w)[1] = Guard(w)
                          /\ GuardTarget(w)[2] = KeyOf[w]
  BY DEF Target, GuardTarget
<1>3. \A w \in Upload : Guard(w) \in Job
  BY <1>1, <1>2
<1>4. ASSUME NEW t \in Target, NEW w \in Upload, t[1] = Guard(w) PROVE t = GuardTarget(w)
  <2>1. CASE t \in {<<Guard(v), KeyOf[v]>> : v \in Upload}
    BY <1>4, <2>1 DEF Guard, GuardTarget
  <2>2. CASE t \in {<<Deletion(o), k>> : o \in Owner, k \in Key}
    BY <1>4, <2>2 DEF Guard, Deletion
  <2>3. CASE t \in {<<Orphan(OwnerOf[v], KeyOf[v]), KeyOf[v]>> : v \in Writer \ Upload}
    BY <1>4, <2>3 DEF Guard, Orphan
  <2>4. QED
    BY <2>1, <2>2, <2>3 DEF Target
<1>5. \A v, w \in Writer : GuardTarget(v) = GuardTarget(w) => v = w
  BY DEF GuardTarget, Guard
<1>6. QED
  BY <1>1, <1>2, <1>3, <1>4, <1>5

\* The target of a deletion or of an orphan job is a target, and no guard's.
LEMMA OtherTargets ==
  /\ \A o \in Owner : Deletion(o) \in Job \/ Key = {}
  /\ \A o \in Owner, k \in Key : <<Deletion(o), k>> \in Target
  /\ \A o \in Owner, k \in Key, w \in Writer : <<Deletion(o), k>> # GuardTarget(w)
  /\ \A v \in Writer \ Upload :
       /\ <<Orphan(OwnerOf[v], KeyOf[v]), KeyOf[v]>> \in Target
       /\ Orphan(OwnerOf[v], KeyOf[v]) \in Job
       /\ \A w \in Writer : <<Orphan(OwnerOf[v], KeyOf[v]), KeyOf[v]>> # GuardTarget(w)
<1>1. \A o \in Owner, k \in Key : <<Deletion(o), k>> \in Target
  BY DEF Target
<1>2. \A o \in Owner, k \in Key, w \in Writer : <<Deletion(o), k>> # GuardTarget(w)
  BY DEF GuardTarget, Guard, Deletion
<1>3. \A v \in Writer \ Upload : <<Orphan(OwnerOf[v], KeyOf[v]), KeyOf[v]>> \in Target
  BY DEF Target
<1>4. \A v \in Writer \ Upload, w \in Writer :
        <<Orphan(OwnerOf[v], KeyOf[v]), KeyOf[v]>> # GuardTarget(w)
  BY DEF GuardTarget, Guard, Orphan
<1>5. \A o \in Owner, k \in Key : Deletion(o) \in Job
  <2>1. \A o \in Owner, k \in Key : <<Deletion(o), k>>[1] = Deletion(o)
    OBVIOUS
  <2>2. QED
    BY <1>1, <2>1, TargetFacts, ZenonT(60)
<1>6. \A v \in Writer \ Upload : Orphan(OwnerOf[v], KeyOf[v]) \in Job
  <2>1. \A o, k : <<Orphan(o, k), k>>[1] = Orphan(o, k)
    OBVIOUS
  <2>2. QED
    BY <1>3, <2>1, TargetFacts
<1>7. QED
  BY <1>1, <1>2, <1>3, <1>4, <1>5, <1>6

\* add_object_target gives a new target its first status and leaves the others.
LEMMA AddTargetsEffect ==
  ASSUME TypeOK, NEW j, NEW T \in SUBSET Target, NEW now \in BOOLEAN, AddTargets(j, T, now)
  PROVE  /\ status' \in [Target -> TargetStatus]
         /\ due' \subseteq Target
         /\ jobs' \in [Job -> JobStatus]
         /\ attempts' = attempts
         /\ \A t \in Target :
              status'[t] = IF t \in T /\ status[t] = "ABSENT" THEN "PENDING" ELSE status[t]
         /\ \A t \in due' : t \in due \/ (now /\ t \in T /\ status[t] = "ABSENT")
<1> USE DEF TypeOK, AddTargets
<1>1. /\ status' \in [Target -> TargetStatus]
      /\ \A t \in Target :
           status'[t] = IF t \in T /\ status[t] = "ABSENT" THEN "PENDING" ELSE status[t]
  BY DEF TargetStatus, Waiting
<1>2. /\ due' \subseteq Target
      /\ \A t \in due' : t \in due \/ (now /\ t \in T /\ status[t] = "ABSENT")
  OBVIOUS
<1>3. jobs' \in [Job -> JobStatus]
  BY DEF JobStatus
<1>4. QED
  BY <1>1, <1>2, <1>3

\* A target that leaves its attempt changes no other target.
LEMMA LeaveEffect ==
  ASSUME TypeOK, NEW t \in Target, NEW s \in TargetStatus, Leave(t, s)
  PROVE  /\ status' \in [Target -> TargetStatus]
         /\ due' \subseteq Target
         /\ jobs' \in [Job -> JobStatus]
         /\ attempts' = attempts
         /\ \A u \in Target : status'[u] = IF u = t THEN s ELSE status[u]
         /\ due' = due \ {t}
<1> USE DEF TypeOK, Leave
<1>1. Refresh(t[1], status') \in JobStatus
  BY DEF Refresh, JobStatus
<1>2. jobs' \in [Job -> JobStatus]
  BY <1>1
<1>3. QED
  BY <1>2

\* The targets of an owner that is deleted are targets of its deletion.
LEMMA CapturedTargets ==
  ASSUME TypeOK, NEW o \in Owner
  PROVE  {<<Deletion(o), r[2]>> : r \in {r \in refs : r[1] = o}}
           \in SUBSET {<<Deletion(o), k>> : k \in Key}
  BY DEF TypeOK

\* No writer, deletion or cleanup worker leaves the types.
LEMMA TypeStep == TypeOK /\ GuardsWait /\ [Next]_vars => TypeOK'
<1> SUFFICES ASSUME TypeOK, GuardsWait, [Next]_vars PROVE TypeOK'
  OBVIOUS
<1> USE DEF store, writers, targets, cleaners, WriterPC, CleanerPC
<1>1. ASSUME NEW w \in Writer, Arm(w) PROVE TypeOK'
  <2>1. {GuardTarget(w)} \in SUBSET Target
    BY <1>1, TargetFacts DEF Arm
  <2>2. QED
    BY <1>1, <2>1, AddTargetsEffect DEF Arm, WriterTo, TypeOK
<1>2. ASSUME NEW w \in Writer, Store(w) \/ Persist(w) PROVE TypeOK'
  BY <1>2 DEF Store, Persist, WriterTo, TypeOK
<1>3. ASSUME NEW w \in Writer, Refuse(w) \/ WriteFails(w) \/ ResolveLock(w) \/ WriterCrash(w)
      PROVE TypeOK'
  BY <1>3 DEF Refuse, WriteFails, ResolveLock, WriterCrash, WriterTo, TypeOK
<1>4. ASSUME NEW w \in Writer, Release(w) PROVE TypeOK'
  <2>1. CASE w \in Upload
    BY <1>4, <2>1 DEF Release, WriterTo, TypeOK
  <2>2. CASE w \notin Upload
    <3>1. {<<Orphan(OwnerOf[w], KeyOf[w]), KeyOf[w]>>} \in SUBSET Target
      BY <2>2, OtherTargets
    <3>2. QED
      BY <1>4, <2>2, <3>1, AddTargetsEffect, ZenonT(60) DEF Release, WriterTo, TypeOK
  <2>3. QED
    BY <2>1, <2>2
<1>5. ASSUME NEW w \in Writer, Resolve(w) PROVE TypeOK'
  <2> GuardTarget(w) \in Target
    BY <1>5, TargetFacts DEF Resolve, GuardsWait
  <2>1. CASE Leave(GuardTarget(w), "SKIPPED_REFERENCED")
    <3>1. "SKIPPED_REFERENCED" \in TargetStatus
      BY DEF TargetStatus, Settled
    <3>2. QED
      BY <1>5, <2>1, <3>1, LeaveEffect DEF Resolve, WriterTo, TypeOK
  <2>2. CASE UNCHANGED targets
    BY <1>5, <2>2 DEF Resolve, WriterTo, TypeOK
  <2>3. QED
    BY <1>5, <2>1, <2>2 DEF Resolve
<1>6. ASSUME NEW o \in Owner, Delete(o) PROVE TypeOK'
  <2>1. {<<Deletion(o), r[2]>> : r \in {r \in refs : r[1] = o}} \in SUBSET Target
    BY CapturedTargets, OtherTargets
  <2>2. swallowed' \subseteq Key
    BY <1>6, <2>1, TargetFacts DEF Delete, Captured, TypeOK
  <2>3. QED
    BY <1>6, <2>1, <2>2, AddTargetsEffect DEF Delete, Captured, TypeOK
<1>7. ASSUME NEW t \in Target, BecomeDue(t) PROVE TypeOK'
  BY <1>7 DEF BecomeDue, TypeOK
<1>8. ASSUME NEW c \in Cleaner, NEW t \in Target, ClaimDue(c, t) PROVE TypeOK'
  <2>1. attempts[t] + 1 \in 0..MaxClaims
    BY <1>8 DEF ClaimDue, TypeOK
  <2>2. /\ status' \in [Target -> TargetStatus] /\ jobs' \in [Job -> JobStatus]
        /\ attempts' \in [Target -> 0..MaxClaims] /\ due' \subseteq Target
    BY <1>8, <2>1 DEF ClaimDue, TypeOK, TargetStatus, JobStatus
  <2>3. QED
    BY <1>8, <2>1, <2>2 DEF ClaimDue, TypeOK
<1>9. ASSUME NEW c \in Cleaner, LockTarget(c) \/ CleanerCrash(c) PROVE TypeOK'
  BY <1>9 DEF LockTarget, CleanerCrash, CleanerTo, Rest, TypeOK
<1>10. ASSUME NEW c \in Cleaner, CheckReferences(c) \/ DeleteObject(c) \/ ProcessFails(c)
       PROVE TypeOK'
  BY <1>10 DEF CheckReferences, DeleteObject, ProcessFails, HoldsRows, CleanerTo, TypeOK
<1>11. ASSUME NEW c \in Cleaner, MarkCompleted(c) PROVE TypeOK'
  <2>1. claim[c] \in Target /\ {"SKIPPED_REFERENCED", "COMPLETED"} \subseteq TargetStatus
    BY <1>11 DEF MarkCompleted, TypeOK, TargetStatus, Settled
  <2>2. QED
    BY <1>11, <2>1, LeaveEffect DEF MarkCompleted, Rest, TypeOK
<1>12. ASSUME NEW c \in Cleaner, MarkFailed(c) PROVE TypeOK'
  <2>1. claim[c] \in Target /\ {"FAILED", "RETRYING"} \subseteq TargetStatus
    BY <1>12 DEF MarkFailed, TypeOK, TargetStatus, Settled, Waiting
  <2>2. CASE UNCHANGED targets
    BY <1>12, <2>2 DEF MarkFailed, Rest, TypeOK
  <2>3. CASE ~UNCHANGED targets
    BY <1>12, <2>1, <2>3, LeaveEffect DEF MarkFailed, Rest, TypeOK
  <2>4. QED
    BY <2>2, <2>3
<1>13. CASE UNCHANGED vars
  BY <1>13 DEF vars, TypeOK
<1>14. QED
  BY <1>1, <1>2, <1>3, <1>4, <1>5, <1>6, <1>7, <1>8, <1>9, <1>10, <1>11, <1>12, <1>13
     DEF Next, WriterNext, CleanerNext

-----------------------------------------------------------------------------
(* What a step can do to the targets. *)

\* Seven kinds of step write targets; every other step leaves them alone.
LEMMA TargetStep ==
  ASSUME [Next]_vars
  PROVE  \/ UNCHANGED <<status, due>>
         \/ \E w \in Writer : Arm(w) \/ Release(w) \/ Resolve(w)
         \/ \E o \in Owner : Delete(o)
         \/ \E t \in Target : BecomeDue(t)
         \/ \E c \in Cleaner, t \in Target : ClaimDue(c, t)
         \/ \E c \in Cleaner : MarkCompleted(c) \/ MarkFailed(c)
  BY DEF Next, WriterNext, CleanerNext, vars, writers, targets, Store, Persist, Refuse, WriteFails,
         ResolveLock, WriterCrash, LockTarget, CheckReferences, DeleteObject, ProcessFails,
         CleanerCrash

\* How one target moves: it appears, is claimed when due, or leaves; it leaves only
\* from its attempt, or as the guard of a writer that is resolving it.
Moves(t) ==
    \/ status'[t] = status[t]
    \/ status[t] = "ABSENT" /\ status'[t] = "PENDING"
    \/ t \in due /\ status[t] \in Waiting \cup {"RUNNING"} /\ status'[t] = "RUNNING"
    \/ /\ status[t] \in Waiting /\ status'[t] = "SKIPPED_REFERENCED"
       /\ \E w \in Upload : t = GuardTarget(w) /\ wpc[w] = "resolving" /\ wpc'[w] = "done"
    \/ /\ status[t] = "RUNNING" /\ status'[t] \in Settled \cup {"RETRYING"}
       /\ \E c \in Cleaner : claim[c] = t /\ (MarkCompleted(c) \/ MarkFailed(c))

\* No step moves a target otherwise.
LEMMA TargetMoves ==
  ASSUME TypeOK, HeldIsRunning, GuardsWait, [Next]_vars, NEW t \in Target
  PROVE  Moves(t)
<1> USE DEF Moves
<1>1. CASE UNCHANGED <<status, due>>
  BY <1>1
<1>2. ASSUME NEW w \in Writer, Arm(w) PROVE Moves(t)
  <2>1. {GuardTarget(w)} \in SUBSET Target
    BY <1>2, TargetFacts DEF Arm
  <2>2. QED
    BY <1>2, <2>1, AddTargetsEffect DEF Arm
<1>3. ASSUME NEW w \in Writer, Release(w) PROVE Moves(t)
  <2>1. CASE w \in Upload
    BY <1>3, <2>1 DEF Release
  <2>2. CASE w \notin Upload
    <3>1. {<<Orphan(OwnerOf[w], KeyOf[w]), KeyOf[w]>>} \in SUBSET Target
      BY <2>2, OtherTargets
    <3>2. QED
      BY <1>3, <2>2, <3>1, AddTargetsEffect DEF Release
  <2>3. QED
    BY <2>1, <2>2
<1>4. ASSUME NEW w \in Writer, Resolve(w) PROVE Moves(t)
  <2>1. w \in Upload /\ GuardTarget(w) \in Target /\ wpc[w] = "resolving" /\ wpc'[w] = "done"
    BY <1>4, TargetFacts DEF Resolve, GuardsWait, WriterTo, TypeOK
  <2>2. "SKIPPED_REFERENCED" \in TargetStatus
    BY DEF TargetStatus, Settled
  <2>3. CASE UNCHANGED targets
    BY <2>3 DEF targets
  <2>4. CASE status[GuardTarget(w)] \in Waiting /\ Leave(GuardTarget(w), "SKIPPED_REFERENCED")
    BY <2>1, <2>2, <2>4, LeaveEffect
  <2>5. QED
    BY <1>4, <2>3, <2>4 DEF Resolve
<1>5. ASSUME NEW o \in Owner, Delete(o) PROVE Moves(t)
  <2>1. {<<Deletion(o), r[2]>> : r \in {r \in refs : r[1] = o}} \in SUBSET Target
    BY CapturedTargets, OtherTargets
  <2>2. QED
    BY <1>5, <2>1, AddTargetsEffect DEF Delete, Captured
<1>6. ASSUME NEW u \in Target, BecomeDue(u) PROVE Moves(t)
  BY <1>6 DEF BecomeDue
<1>7. ASSUME NEW c \in Cleaner, NEW u \in Target, ClaimDue(c, u) PROVE Moves(t)
  BY <1>7 DEF ClaimDue, TypeOK
<1>8. ASSUME NEW c \in Cleaner, MarkCompleted(c) PROVE Moves(t)
  <2>1. /\ claim[c] \in Target /\ {"SKIPPED_REFERENCED", "COMPLETED"} \subseteq TargetStatus
        /\ status[claim[c]] = "RUNNING"
    BY <1>8 DEF MarkCompleted, TypeOK, TargetStatus, Settled, HeldIsRunning, HoldsRows
  <2>2. QED
    BY <1>8, <2>1, LeaveEffect DEF MarkCompleted, Settled
<1>9. ASSUME NEW c \in Cleaner, MarkFailed(c) PROVE Moves(t)
  <2>1. claim[c] \in Target /\ {"FAILED", "RETRYING"} \subseteq TargetStatus
    BY <1>9 DEF MarkFailed, TypeOK, TargetStatus, Settled, Waiting
  <2>2. CASE Mine(c)
    BY <1>9, <2>1, <2>2, LeaveEffect DEF MarkFailed, Mine, Settled
  <2>3. CASE ~Mine(c)
    BY <1>9, <2>3 DEF MarkFailed, targets
  <2>4. QED
    BY <2>2, <2>3
<1>10. QED
  BY TargetStep, <1>1, <1>2, <1>3, <1>4, <1>5, <1>6, <1>7, <1>8, <1>9

\* A target becomes due when a deletion or a stage records it, when its upload
\* releases it, or when its time has come.
LEMMA DueGrows ==
  ASSUME TypeOK, GuardsWait, [Next]_vars, NEW t \in due', t \notin due
  PROVE  \/ status'[t] = "PENDING" /\ \A w \in Writer : t # GuardTarget(w)
         \/ \E w \in Upload : Release(w) /\ t = GuardTarget(w) /\ status'[t] \in Waiting
         \/ BecomeDue(t) /\ status'[t] \in Waiting \cup {"RUNNING"}
<1> DEFINE Goal == \/ status'[t] = "PENDING" /\ \A w \in Writer : t # GuardTarget(w)
                   \/ \E w \in Upload : Release(w) /\ t = GuardTarget(w) /\ status'[t] \in Waiting
                   \/ BecomeDue(t) /\ status'[t] \in Waiting \cup {"RUNNING"}
<1>1. ASSUME NEW w \in Writer, Arm(w) PROVE FALSE
  <2>1. {GuardTarget(w)} \in SUBSET Target
    BY <1>1, TargetFacts DEF Arm
  <2>2. QED
    BY <1>1, <2>1, AddTargetsEffect DEF Arm
<1>2. ASSUME NEW w \in Writer, Release(w) PROVE Goal
  <2>1. CASE w \in Upload
    BY <1>2, <2>1 DEF Release
  <2>2. CASE w \notin Upload
    <3> DEFINE T == {<<Orphan(OwnerOf[w], KeyOf[w]), KeyOf[w]>>}
    <3>1. T \in SUBSET Target /\ \A v \in Writer : GuardTarget(v) \notin T
      BY <2>2, OtherTargets
    <3>2. AddTargets(Orphan(OwnerOf[w], KeyOf[w]), T, TRUE)
      BY <1>2, <2>2 DEF Release
    <3> HIDE DEF T
    <3>3. t \in T /\ status[t] = "ABSENT"
      BY <3>1, <3>2, AddTargetsEffect, ZenonT(60)
    <3>4. status'[t] = "PENDING"
      BY <3>1, <3>2, <3>3, AddTargetsEffect
    <3>5. QED
      BY <3>1, <3>3, <3>4
  <2>3. QED
    BY <2>1, <2>2
<1>3. ASSUME NEW w \in Writer, Resolve(w) PROVE FALSE
  <2>1. GuardTarget(w) \in Target /\ "SKIPPED_REFERENCED" \in TargetStatus
    BY <1>3, TargetFacts DEF Resolve, GuardsWait, TargetStatus, Settled
  <2>2. QED
    BY <1>3, <2>1, LeaveEffect DEF Resolve, targets
<1>4. ASSUME NEW o \in Owner, Delete(o) PROVE Goal
  <2> DEFINE T == {<<Deletion(o), r[2]>> : r \in {r \in refs : r[1] = o}}
  <2>1. T \in SUBSET {<<Deletion(o), k>> : k \in Key} /\ T \in SUBSET Target
    BY CapturedTargets, OtherTargets
  <2>2. AddTargets(Deletion(o), T, TRUE)
    BY <1>4 DEF Delete, Captured
  <2> HIDE DEF T
  <2>3. t \in T /\ status[t] = "ABSENT"
    BY <2>1, <2>2, AddTargetsEffect
  <2>4. status'[t] = "PENDING"
    BY <2>1, <2>2, <2>3, AddTargetsEffect
  <2>5. QED
    BY <2>1, <2>3, <2>4, OtherTargets
<1>5. ASSUME NEW u \in Target, BecomeDue(u) PROVE Goal
  BY <1>5 DEF BecomeDue
<1>6. ASSUME NEW c \in Cleaner, NEW u \in Target, ClaimDue(c, u) PROVE FALSE
  BY <1>6 DEF ClaimDue
<1>7. ASSUME NEW c \in Cleaner, MarkCompleted(c) \/ MarkFailed(c) PROVE FALSE
  BY <1>7 DEF MarkCompleted, MarkFailed, Leave, targets
<1>8. QED
  BY TargetStep, <1>1, <1>2, <1>3, <1>4, <1>5, <1>6, <1>7

\* A guard comes into being only by its own upload.
LEMMA GuardAppears ==
  ASSUME TypeOK, HeldIsRunning, GuardsWait, [Next]_vars, NEW w \in Upload,
         status[GuardTarget(w)] = "ABSENT", status'[GuardTarget(w)] # "ABSENT"
  PROVE  Arm(w)
<1> DEFINE g == GuardTarget(w)
<1>0. g \in Target
  BY TargetFacts
<1>1. ASSUME NEW v \in Writer, Arm(v) PROVE Arm(w)
  <2> DEFINE T == {GuardTarget(v)}
  <2>1. T \in SUBSET Target /\ AddTargets(Guard(v), T, FALSE)
    BY <1>1, TargetFacts DEF Arm
  <2> HIDE DEF T
  <2>2. g \in T
    BY <1>0, <2>1, AddTargetsEffect
  <2>3. QED
    BY <1>1, <2>2, TargetFacts DEF T
<1>2. ASSUME NEW v \in Writer, Release(v) PROVE FALSE
  <2>1. CASE v \in Upload
    BY <1>2, <2>1 DEF Release
  <2>2. CASE v \notin Upload
    <3> DEFINE T == {<<Orphan(OwnerOf[v], KeyOf[v]), KeyOf[v]>>}
    <3>1. T \in SUBSET Target /\ g \notin T
      BY <2>2, OtherTargets
    <3>2. AddTargets(Orphan(OwnerOf[v], KeyOf[v]), T, TRUE)
      BY <1>2, <2>2 DEF Release
    <3> HIDE DEF T
    <3>3. g \in T
      BY <1>0, <3>1, <3>2, AddTargetsEffect
    <3>4. QED
      BY <3>1, <3>3
  <2>3. QED
    BY <2>1, <2>2
<1>3. ASSUME NEW v \in Writer, Resolve(v) PROVE FALSE
  <2>1. GuardTarget(v) \in Target /\ "SKIPPED_REFERENCED" \in TargetStatus
    BY <1>3, TargetFacts DEF Resolve, GuardsWait, TargetStatus, Settled
  <2>2. QED
    BY <1>0, <1>3, <2>1, LeaveEffect DEF Resolve, targets, Waiting
<1>4. ASSUME NEW o \in Owner, Delete(o) PROVE FALSE
  <2> DEFINE T == {<<Deletion(o), r[2]>> : r \in {r \in refs : r[1] = o}}
  <2>1. T \in SUBSET {<<Deletion(o), k>> : k \in Key} /\ T \in SUBSET Target
    BY CapturedTargets, OtherTargets
  <2>2. AddTargets(Deletion(o), T, TRUE)
    BY <1>4 DEF Delete, Captured
  <2> HIDE DEF T
  <2>3. g \in T
    BY <1>0, <2>1, <2>2, AddTargetsEffect
  <2>4. QED
    BY <2>1, <2>3, OtherTargets
<1>5. ASSUME NEW u \in Target, BecomeDue(u) PROVE FALSE
  BY <1>5 DEF BecomeDue
<1>6. ASSUME NEW c \in Cleaner, NEW u \in Target, ClaimDue(c, u) PROVE FALSE
  BY <1>0, <1>6 DEF ClaimDue, TypeOK, Waiting
<1>7. ASSUME NEW c \in Cleaner, MarkFailed(c), ~UNCHANGED targets PROVE FALSE
  <2>1. Mine(c) /\ claim[c] \in Target /\ {"FAILED", "RETRYING"} \subseteq TargetStatus
    BY <1>7 DEF MarkFailed, TypeOK, TargetStatus, Settled, Waiting
  <2>2. QED
    BY <1>0, <1>7, <2>1, LeaveEffect DEF MarkFailed, Mine
<1>8. ASSUME NEW c \in Cleaner, MarkCompleted(c) PROVE FALSE
  <2>1. /\ claim[c] \in Target /\ {"SKIPPED_REFERENCED", "COMPLETED"} \subseteq TargetStatus
        /\ status[claim[c]] = "RUNNING"
    BY <1>8 DEF MarkCompleted, TypeOK, TargetStatus, Settled, HeldIsRunning, HoldsRows
  <2>2. QED
    BY <1>0, <1>8, <2>1, LeaveEffect DEF MarkCompleted
<1>9. QED
  BY TargetStep, <1>1, <1>2, <1>3, <1>4, <1>5, <1>6, <1>7, <1>8 DEF targets

-----------------------------------------------------------------------------
(* The parts of the invariant. *)

\* A worker gets rows only by locking its target, which it keeps until it rests.
LEMMA HolderStep ==
  ASSUME TypeOK, [Next]_vars, NEW c \in Cleaner, HoldsRows(c)'
  PROVE  /\ claim'[c] = claim[c]
         /\ HoldsRows(c) \/ LockTarget(c)
         /\ cpc'[c] = "unreferenced" => cpc[c] = "unreferenced" \/ CheckReferences(c)
<1> DEFINE Goal == /\ claim'[c] = claim[c]
                   /\ HoldsRows(c) \/ LockTarget(c)
                   /\ cpc'[c] = "unreferenced" => cpc[c] = "unreferenced" \/ CheckReferences(c)
<1> USE DEF TypeOK, HoldsRows
<1>1. CASE UNCHANGED cleaners
  BY <1>1 DEF cleaners
<1>2. ASSUME NEW d \in Cleaner, NEW t \in Target, ClaimDue(d, t) PROVE Goal
  BY <1>2 DEF ClaimDue
<1>3. ASSUME NEW d \in Cleaner, LockTarget(d) PROVE Goal
  <2>1. CASE CleanerTo(d, "locked")
    BY <1>3, <2>1 DEF CleanerTo
  <2>2. CASE Rest(d)
    BY <2>2 DEF Rest
  <2>3. QED
    BY <1>3, <2>1, <2>2 DEF LockTarget
<1>4. ASSUME NEW d \in Cleaner, CheckReferences(d) \/ DeleteObject(d) \/ ProcessFails(d)
      PROVE  Goal
  BY <1>4 DEF CheckReferences, DeleteObject, ProcessFails, CleanerTo
<1>5. ASSUME NEW d \in Cleaner, Rest(d) PROVE Goal
  BY <1>5 DEF Rest
<1> HIDE DEF TypeOK, HoldsRows
<1>6. QED
  BY <1>1, <1>2, <1>3, <1>4, <1>5
     DEF Next, WriterNext, CleanerNext, MarkCompleted, MarkFailed, CleanerCrash, vars, writers, Arm, Store,
         Persist, Refuse, WriteFails, Release, ResolveLock, Resolve, WriterCrash, Delete, BecomeDue

\* Row locks stay exclusive.
LEMMA RowsStep ==
  ASSUME TypeOK, RowsExclusive, [Next]_vars
  PROVE  RowsExclusive'
<1> SUFFICES ASSUME NEW c \in Cleaner, NEW d \in Cleaner, c # d,
                    HoldsRows(c)', HoldsRows(d)', claim'[c][1] = claim'[d][1]
             PROVE  FALSE
  BY DEF RowsExclusive
<1>1. claim'[c] = claim[c] /\ claim'[d] = claim[d] /\ claim[c][1] = claim[d][1]
  BY HolderStep
<1>2. ASSUME NEW x \in Cleaner, NEW y \in Cleaner, x # y, LockTarget(x), HoldsRows(y)',
             claim[x][1] = claim[y][1]
      PROVE  FALSE
  <2>1. HoldsRows(y)
    BY <1>2 DEF LockTarget, HoldsRows, CleanerTo, Rest, TypeOK
  <2>2. QED
    BY <1>2, <2>1 DEF LockTarget, JobFree
<1>3. HoldsRows(c) /\ HoldsRows(d)
  BY <1>1, <1>2, HolderStep
<1>4. QED
  BY <1>1, <1>3 DEF RowsExclusive

\* A locked target stays in its attempt: nobody else can settle or fail it.
LEMMA RunningStep ==
  ASSUME TypeOK, RowsExclusive, HeldIsRunning, GuardsWait, [Next]_vars
  PROVE  HeldIsRunning'
<1> SUFFICES ASSUME NEW c \in Cleaner, HoldsRows(c)'
             PROVE  status'[claim'[c]] = "RUNNING"
  BY DEF HeldIsRunning
<1>1. claim'[c] = claim[c] /\ (HoldsRows(c) \/ LockTarget(c))
  BY HolderStep
<1>2. CASE LockTarget(c)
  <2>1. Mine(c) /\ status' = status
    BY <1>2 DEF LockTarget, Rest, HoldsRows, TypeOK, targets
  <2>2. QED
    BY <1>1, <2>1 DEF Mine
<1>3. CASE HoldsRows(c)
  <2>1. claim[c] \in Target /\ status[claim[c]] = "RUNNING"
    BY <1>3 DEF HeldIsRunning, HoldsRows, TypeOK
  <2>2. ASSUME NEW d \in Cleaner, claim[d] = claim[c], MarkCompleted(d) \/ MarkFailed(d)
        PROVE  FALSE
    <3>1. CASE MarkCompleted(d)
      <4>1. HoldsRows(d) /\ ~HoldsRows(d)'
        BY <3>1 DEF MarkCompleted, HoldsRows, Rest, TypeOK
      <4>2. QED
        BY <1>3, <2>2, <4>1 DEF RowsExclusive
    <3>2. CASE MarkFailed(d)
      BY <1>3, <2>2, <3>2 DEF MarkFailed, JobFree
    <3>3. QED
      BY <2>2, <3>1, <3>2
  <2>3. QED
    BY <1>1, <2>1, <2>2, TargetMoves DEF Moves, Waiting
<1>4. QED
  BY <1>1, <1>2, <1>3

\* References appear only by Persist.
LEMMA RefsStep ==
  ASSUME [Next]_vars
  PROVE  refs' \subseteq refs \/ \E w \in Writer : Persist(w)
  BY DEF Next, WriterNext, CleanerNext, vars, writers, store, Arm, Store, Refuse, WriteFails, Release,
         ResolveLock, Resolve, WriterCrash, Delete, BecomeDue, ClaimDue, LockTarget,
         CheckReferences, DeleteObject, MarkCompleted, ProcessFails, MarkFailed, CleanerCrash

\* The verdict of a worker that found no reference stands: Persist needs the key.
LEMMA VerdictStep ==
  ASSUME TypeOK, VerdictStands, [Next]_vars
  PROVE  VerdictStands'
<1> SUFFICES ASSUME NEW c \in Cleaner, cpc'[c] = "unreferenced", NEW o \in Owner
             PROVE  <<o, claim'[c][2]>> \notin refs'
  BY DEF VerdictStands, Referenced
<1>1. claim'[c] = claim[c] /\ (cpc[c] = "unreferenced" \/ CheckReferences(c))
  BY HolderStep DEF HoldsRows
<1>2. ~Referenced(claim[c][2])
  BY <1>1 DEF VerdictStands, CheckReferences, CleanerTo, TypeOK
<1>3. ASSUME NEW w \in Writer, Persist(w) PROVE <<o, claim[c][2]>> \notin refs'
  <2>1. cpc[c] = "unreferenced"
    BY <1>3 DEF Persist, cleaners
  <2>2. claim[c][2] # KeyOf[w]
    BY <1>3, <2>1 DEF Persist, KeyFree, HoldsKey
  <2>3. QED
    BY <1>2, <1>3, <2>2 DEF Referenced, Persist
<1>4. ASSUME refs' \subseteq refs PROVE <<o, claim[c][2]>> \notin refs'
  BY <1>2, <1>4 DEF Referenced
<1>5. QED
  BY <1>1, <1>3, <1>4, RefsStep

\* What is due exists.
LEMMA DueStep ==
  ASSUME TypeOK, HeldIsRunning, AbsentNotDue, GuardsWait, [Next]_vars
  PROVE  AbsentNotDue'
<1> SUFFICES ASSUME NEW t \in due' PROVE status'[t] # "ABSENT"
  BY DEF AbsentNotDue
<1>1. CASE t \in due
  <2>1. t \in Target /\ status[t] # "ABSENT"
    BY <1>1 DEF AbsentNotDue, TypeOK
  <2>2. QED
    BY <2>1, TargetMoves DEF Moves, Waiting, Settled
<1>2. CASE t \notin due
  BY <1>2, DueGrows DEF Waiting
<1>3. QED
  BY <1>1, <1>2

\* What a writer does next depends on where it was.
LEMMA WriterStep ==
  ASSUME TypeOK, [Next]_vars, NEW w \in Writer
  PROVE  /\ wpc'[w] = "start" => wpc[w] = "start" /\ ~Arm(w)
         /\ w \in Upload /\ InProgress(w)' => InProgress(w) \/ Arm(w)
         /\ wpc'[w] \in {"persisted", "resolving"} =>
                w \in Upload \/ wpc[w] \in {"persisted", "resolving"}
<1> DEFINE Goal == /\ wpc'[w] = "start" => wpc[w] = "start" /\ ~Arm(w)
                   /\ w \in Upload /\ InProgress(w)' => InProgress(w) \/ Arm(w)
                   /\ wpc'[w] \in {"persisted", "resolving"} =>
                          w \in Upload \/ wpc[w] \in {"persisted", "resolving"}
<1>1. CASE wpc'[w] = wpc[w]
  <2>1. ~Arm(w)
    BY <1>1 DEF Arm, WriterTo, TypeOK
  <2>2. QED
    BY <1>1, <2>1 DEF InProgress
<1>2. ASSUME NEW v \in Writer, WriterNext(v), v # w PROVE wpc'[w] = wpc[w]
  BY <1>2 DEF WriterNext, WriterTo, TypeOK, Arm, Store, Persist, Refuse, WriteFails, Release,
              ResolveLock, Resolve, WriterCrash
<1>3. CASE Arm(w)
  BY <1>3 DEF Arm, WriterTo, TypeOK
<1>4. CASE Store(w) \/ Persist(w) \/ Refuse(w) \/ WriteFails(w)
  BY <1>4 DEF Store, Persist, Refuse, WriteFails, WriterTo, TypeOK, InProgress, Arm
<1>5. CASE Release(w) \/ ResolveLock(w) \/ Resolve(w) \/ WriterCrash(w)
  BY <1>5 DEF Release, ResolveLock, Resolve, WriterCrash, WriterTo, TypeOK, InProgress, Arm
<1>6. CASE ~\E v \in Writer : WriterNext(v)
  <2>1. wpc' = wpc
    BY <1>6 DEF Next, CleanerNext, vars, writers, Delete, Captured, BecomeDue, ClaimDue, LockTarget,
                CheckReferences, DeleteObject, MarkCompleted, ProcessFails, MarkFailed, CleanerCrash
  <2>2. QED
    BY <1>1, <2>1
<1>7. QED
  BY <1>1, <1>2, <1>3, <1>4, <1>5, <1>6 DEF WriterNext

\* The guard of an upload in progress stays out of the workers' sight.
LEMMA GuardStep ==
  ASSUME TypeOK, HeldIsRunning, AbsentNotDue, GuardsWait, [Next]_vars
  PROVE  GuardsWait'
<1>1. ASSUME NEW w \in Upload, wpc'[w] = "start" PROVE status'[GuardTarget(w)] = "ABSENT"
  <2>1. wpc[w] = "start" /\ ~Arm(w)
    BY <1>1, WriterStep
  <2>2. QED
    BY <2>1, GuardAppears DEF GuardsWait
<1>2. ASSUME NEW w \in Upload, InProgress(w)'
      PROVE  status'[GuardTarget(w)] = "PENDING" /\ GuardTarget(w) \notin due'
  <2>0. GuardTarget(w) \in Target /\ GuardTarget(w)[1] = Guard(w)
    BY TargetFacts
  <2>1. CASE Arm(w)
    <3>1. status[GuardTarget(w)] = "ABSENT" /\ GuardTarget(w) \notin due
      BY <2>1 DEF Arm, GuardsWait, AbsentNotDue
    <3> DEFINE T == {GuardTarget(w)}
    <3>2. T \in SUBSET Target /\ GuardTarget(w) \in T /\ AddTargets(Guard(w), T, FALSE)
      BY <2>0, <2>1 DEF Arm
    <3> HIDE DEF T
    <3>3. status'[GuardTarget(w)] = "PENDING"
      BY <2>0, <3>1, <3>2, AddTargetsEffect
    <3>4. GuardTarget(w) \notin due'
      BY <3>1, <3>2, AddTargetsEffect
    <3>5. QED
      BY <3>3, <3>4
  <2>2. CASE InProgress(w)
    <3>1. status[GuardTarget(w)] = "PENDING" /\ GuardTarget(w) \notin due
      BY <2>2 DEF GuardsWait
    <3>2. status'[GuardTarget(w)] = "PENDING"
      <4>1. ASSUME NEW v \in Upload, GuardTarget(w) = GuardTarget(v), wpc'[v] = "done" PROVE FALSE
        BY <1>2, <4>1, TargetFacts DEF InProgress
      <4>2. QED
        BY <2>0, <3>1, <4>1, TargetMoves DEF Moves
    <3>3. ASSUME GuardTarget(w) \in due' PROVE FALSE
      <4>1. ASSUME NEW v \in Upload, Release(v), GuardTarget(w) = GuardTarget(v) PROVE FALSE
        <5>1. v = w
          BY <4>1, TargetFacts
        <5>2. wpc'[w] = "done"
          BY <4>1, <5>1 DEF Release, WriterTo, TypeOK
        <5>3. QED
          BY <1>2, <5>2 DEF InProgress
      <4>2. ASSUME BecomeDue(GuardTarget(w)) PROVE FALSE
        BY <2>0, <2>2, <3>1, <4>2 DEF BecomeDue
      <4>3. QED
        BY <3>1, <3>3, <4>1, <4>2, DueGrows
    <3>4. QED
      BY <3>2, <3>3
  <2>3. QED
    BY <1>2, <2>1, <2>2, WriterStep
<1>3. ASSUME NEW w \in Writer, wpc'[w] \in {"persisted", "resolving"} PROVE w \in Upload
  BY <1>3, WriterStep DEF GuardsWait
<1>4. QED
  BY <1>1, <1>2, <1>3 DEF GuardsWait, GuardTarget, Guard

-----------------------------------------------------------------------------
(* The theorems. *)

\* At the start nothing is locked, due or armed.
LEMMA InitIInv == Init => IInv
<1> SUFFICES ASSUME Init PROVE IInv
  OBVIOUS
<1>1. TypeOK
  BY DEF Init, TypeOK, WriterPC, TargetStatus, JobStatus, CleanerPC
<1>2. RowsExclusive /\ HeldIsRunning /\ VerdictStands /\ AbsentNotDue
  BY DEF Init, RowsExclusive, HeldIsRunning, VerdictStands, AbsentNotDue, HoldsRows
<1>3. GuardsWait
  BY TargetFacts DEF Init, GuardsWait, InProgress
<1>4. QED
  BY <1>1, <1>2, <1>3 DEF IInv

\* The inductive invariant is kept by every step.
LEMMA StepIInv == IInv /\ [Next]_vars => IInv'
  BY TypeStep, RowsStep, RunningStep, VerdictStep, DueStep, GuardStep DEF IInv

\* Objects, references, targets, jobs, writers and workers keep their types.
THEOREM TypeCorrect == Spec => []TypeOK
<1>1. IInv => TypeOK
  BY DEF IInv
<1>2. QED
  BY InitIInv, StepIInv, <1>1, PTL DEF Spec

\* A request that resolves its guard never meets a worker that holds the guard's
\* rows and waits for the key (resolve_orphan_guard against _process).
THEOREM LocksNeverCross == Spec => []NoLockCycle
<1>1. IInv => NoLockCycle
  BY DEF IInv, NoLockCycle, HeldIsRunning, HoldsRows, GuardsWait, InProgress
<1>2. QED
  BY InitIInv, StepIInv, <1>1, PTL DEF Spec

\* No cleanup worker deletes an object that a row refers to, whatever writers
\* persist in the meantime (_process, lock_object_reference).
THEOREM DeletionsAreSafe == Spec => DeletionIsSafe
<1>1. ASSUME IInv, [Next]_vars, NEW k \in objects \ objects'
      PROVE  ~Referenced(k) /\ ~Referenced(k)'
  <2>1. PICK c \in Cleaner : DeleteObject(c)
    BY <1>1 DEF Next, WriterNext, CleanerNext, vars, writers, store, Arm, Store, Persist, Refuse, WriteFails,
                Release, ResolveLock, Resolve, WriterCrash, Delete, BecomeDue, ClaimDue, LockTarget,
                CheckReferences, MarkCompleted, ProcessFails, MarkFailed, CleanerCrash
  <2>2. k = claim[c][2] /\ cpc[c] = "unreferenced" /\ refs' = refs
    BY <1>1, <2>1 DEF DeleteObject
  <2>3. ~Referenced(k)
    BY <1>1, <2>2 DEF IInv, VerdictStands
  <2>4. QED
    BY <2>2, <2>3 DEF Referenced
<1>2. IInv /\ [Next]_vars => [\A k \in objects \ objects' : ~Referenced(k) /\ ~Referenced(k)']_vars
  BY <1>1
<1>3. QED
  BY InitIInv, StepIInv, <1>2, PTL DEF Spec, DeletionIsSafe

\* A target that is settled stays settled: a worker that lost its lease cannot
\* reopen it (mark_failed, mark_completed).
THEOREM TargetsStaySettled == Spec => SettledStays
<1>1. ASSUME IInv, [Next]_vars, NEW t \in Target, status[t] \in Settled
      PROVE  status'[t] = status[t]
  BY <1>1, TargetMoves DEF IInv, Moves, Settled, Waiting
<1>2. IInv /\ [Next]_vars => [\A t \in Target : status[t] \in Settled => status'[t] = status[t]]_vars
  BY <1>1
<1>3. QED
  BY InitIInv, StepIInv, <1>2, PTL DEF Spec, SettledStays

-----------------------------------------------------------------------------
(* Orphans are scheduled: SInv. *)

\* A worker gets a key only by checking the references of its target.
LEMMA KeyHolderStep ==
  ASSUME TypeOK, [Next]_vars, NEW c \in Cleaner, HoldsKey(c)'
  PROVE  /\ claim'[c] = claim[c]
         /\ HoldsKey(c) \/ CheckReferences(c)
         /\ cpc'[c] = "deleted" => cpc[c] = "deleted" \/ DeleteObject(c)
         /\ cpc'[c] = "referenced" => cpc[c] = "referenced" \/ CheckReferences(c)
<1> DEFINE Goal == /\ claim'[c] = claim[c]
                   /\ HoldsKey(c) \/ CheckReferences(c)
                   /\ cpc'[c] = "deleted" => cpc[c] = "deleted" \/ DeleteObject(c)
                   /\ cpc'[c] = "referenced" => cpc[c] = "referenced" \/ CheckReferences(c)
<1> USE DEF TypeOK, HoldsKey
<1>1. CASE UNCHANGED cleaners
  BY <1>1 DEF cleaners
<1>2. ASSUME NEW d \in Cleaner, NEW t \in Target, ClaimDue(d, t) PROVE Goal
  BY <1>2 DEF ClaimDue
<1>3. ASSUME NEW d \in Cleaner, LockTarget(d) PROVE Goal
  <2>1. CASE CleanerTo(d, "locked")
    BY <1>3, <2>1 DEF CleanerTo
  <2>2. CASE Rest(d)
    BY <2>2 DEF Rest
  <2>3. QED
    BY <1>3, <2>1, <2>2 DEF LockTarget
<1>4. ASSUME NEW d \in Cleaner, CheckReferences(d) \/ DeleteObject(d) \/ ProcessFails(d)
      PROVE  Goal
  BY <1>4 DEF CheckReferences, DeleteObject, ProcessFails, CleanerTo
<1>5. ASSUME NEW d \in Cleaner, Rest(d) PROVE Goal
  BY <1>5 DEF Rest
<1> HIDE DEF TypeOK, HoldsKey
<1>6. QED
  BY <1>1, <1>2, <1>3, <1>4, <1>5
     DEF Next, WriterNext, CleanerNext, MarkCompleted, MarkFailed, CleanerCrash, vars, writers, Arm, Store,
         Persist, Refuse, WriteFails, Release, ResolveLock, Resolve, WriterCrash, Delete, BecomeDue

\* Locks on keys stay exclusive.
LEMMA KeysStep ==
  ASSUME TypeOK, KeysExclusive, [Next]_vars
  PROVE  KeysExclusive'
<1> SUFFICES ASSUME NEW c \in Cleaner, NEW d \in Cleaner, c # d,
                    HoldsKey(c)', HoldsKey(d)', claim'[c][2] = claim'[d][2]
             PROVE  FALSE
  BY DEF KeysExclusive
<1>1. claim'[c] = claim[c] /\ claim'[d] = claim[d] /\ claim[c][2] = claim[d][2]
  BY KeyHolderStep
<1>2. ASSUME NEW x \in Cleaner, NEW y \in Cleaner, x # y, CheckReferences(x), HoldsKey(y)',
             claim[x][2] = claim[y][2]
      PROVE  FALSE
  <2>1. HoldsKey(y)
    BY <1>2 DEF CheckReferences, HoldsKey, CleanerTo, TypeOK
  <2>2. QED
    BY <1>2, <2>1 DEF CheckReferences, KeyFree
<1>3. HoldsKey(c) /\ HoldsKey(d)
  BY <1>1, <1>2, KeyHolderStep
<1>4. QED
  BY <1>1, <1>3 DEF KeysExclusive

\* Only a deletion of its owner takes a reference away.
LEMMA RefsShrink ==
  ASSUME [Next]_vars, NEW o \in Owner, NEW k \in Key, <<o, k>> \in refs, <<o, k>> \notin refs'
  PROVE  Delete(o)
  BY ZenonT(60) DEF Next, WriterNext, CleanerNext, vars, writers, store, Arm, Store, Persist, Refuse, WriteFails,
         Release, ResolveLock, Resolve, WriterCrash, Delete, BecomeDue, ClaimDue, LockTarget,
         CheckReferences, DeleteObject, MarkCompleted, ProcessFails, MarkFailed, CleanerCrash

\* What a deletion does to the target of one of its references, unless the target was
\* taken up before.
LEMMA DeleteSchedules ==
  ASSUME TypeOK, NEW o \in Owner, NEW k \in Key, <<o, k>> \in refs, Delete(o), k \notin swallowed'
  PROVE  ~TakenUp(<<Deletion(o), k>>) /\ status'[<<Deletion(o), k>>] \in Unsettled
<1> DEFINE T == {<<Deletion(o), r[2]>> : r \in {r \in refs : r[1] = o}}
           u == <<Deletion(o), k>>
<1>1. T \in SUBSET Target /\ u \in Target /\ u[2] = k
  BY CapturedTargets, OtherTargets
<1>2. u \in T
  <2>1. <<o, k>>[1] = o /\ <<o, k>>[2] = k
    OBVIOUS
  <2>2. QED
    BY <2>1
<1>3. /\ AddTargets(Deletion(o), T, TRUE)
      /\ swallowed' = swallowed \cup {t[2] : t \in {t \in T : TakenUp(t)}}
  BY DEF Delete, Captured
<1> HIDE DEF T, u
<1>4. ~TakenUp(u)
  BY <1>1, <1>2, <1>3
<1>5. status[u] \in {"ABSENT", "RUNNING", "FAILED"} \cup Waiting
  BY <1>1, <1>4 DEF TakenUp, TypeOK, TargetStatus, Settled
<1>6. status'[u] = IF status[u] = "ABSENT" THEN "PENDING" ELSE status[u]
  BY <1>1, <1>2, <1>3, AddTargetsEffect
<1>7. status'[u] \in Unsettled
  BY <1>5, <1>6 DEF Unsettled, Waiting
<1>8. QED
  BY <1>4, <1>7 DEF u

\* A target closes when its upload finds its object referenced, or when a worker is
\* done with it.
LEMMA TargetCloses ==
  ASSUME TypeOK, HeldIsRunning, GuardsWait, [Next]_vars, NEW t \in Target,
         status[t] \in Unsettled, status'[t] \notin Unsettled
  PROVE  \/ Referenced(t[2]) /\ refs' = refs
         \/ \E c \in Cleaner : claim[c] = t /\ MarkCompleted(c)
<1>0. Moves(t)
  BY TargetMoves
<1>1. ASSUME NEW w \in Upload, t = GuardTarget(w), wpc[w] = "resolving", wpc'[w] = "done",
             status'[t] # status[t]
      PROVE  Referenced(t[2]) /\ refs' = refs
  <2>0. t[2] = KeyOf[w] /\ w \in Writer
    BY <1>1, TargetFacts
  <2>1. WriterNext(w)
    <3>1. ASSUME NEW v \in Writer, WriterNext(v), v # w PROVE wpc'[w] = wpc[w]
      BY <3>1 DEF WriterNext, WriterTo, TypeOK, Arm, Store, Persist, Refuse, WriteFails, Release,
                  ResolveLock, Resolve, WriterCrash
    <3>2. wpc' # wpc
      BY <1>1
    <3>3. \E v \in Writer : WriterNext(v)
      BY <3>2 DEF Next, CleanerNext, vars, writers, Delete, Captured, BecomeDue, ClaimDue, LockTarget, CheckReferences,
                  DeleteObject, MarkCompleted, ProcessFails, MarkFailed, CleanerCrash
    <3>4. QED
      BY <1>1, <3>1, <3>3
  <2>2. Resolve(w)
    BY <1>1, <2>1 DEF WriterNext, Arm, Store, Persist, Refuse, WriteFails, Release, ResolveLock,
                      WriterCrash, targets
  <2>3. QED
    BY <1>1, <2>0, <2>2 DEF Resolve, targets, store
<1>2. ASSUME NEW c \in Cleaner, claim[c] = t, MarkFailed(c), status'[t] # status[t] PROVE FALSE
  <2>1. {"FAILED", "RETRYING"} \subseteq TargetStatus
    BY DEF TargetStatus, Settled, Waiting
  <2>2. Mine(c)
    BY <1>2 DEF MarkFailed, targets
  <2>3. status'[t] \in {"FAILED", "RETRYING"}
    BY <1>2, <2>1, <2>2, LeaveEffect DEF MarkFailed
  <2>4. QED
    BY <2>3 DEF Unsettled
<1>3. QED
  BY <1>0, <1>1, <1>2 DEF Moves, Unsettled

\* What covers an object goes on covering it, unless it is a target that its worker
\* is done with, or a deletion swallows it.  T is to hold the guards of the uploads
\* at work and the targets of deletions that nobody has taken up.
LEMMA CoveredStep ==
  ASSUME IInv, [Next]_vars, NEW k \in UploadKey, NEW T \in SUBSET Target,
         Covered(k, T), k \notin swallowed',
         \A w \in Upload : InProgress(w) => GuardTarget(w) \in T,
         \A o \in Owner : TakenUp(<<Deletion(o), k>>) \/ <<Deletion(o), k>> \in T,
         \A c \in Cleaner : MarkCompleted(c) /\ claim[c][2] = k => claim[c] \notin T
  PROVE  Covered(k, T)'
<1> k \in Key
  BY DEF UploadKey
<1> TypeOK /\ HeldIsRunning /\ GuardsWait
  BY DEF IInv
<1>0. ASSUME NEW t \in T, t[2] = k, status[t] \in Unsettled PROVE Covered(k, T)'
  <2>1. CASE status'[t] \in Unsettled
    BY <1>0, <2>1 DEF Covered
  <2>2. CASE Referenced(k) /\ refs' = refs
    BY <2>2 DEF Covered, Referenced
  <2>3. QED
    BY <1>0, <2>1, <2>2, TargetCloses
<1>1. ASSUME NEW o \in Owner, <<o, k>> \in refs PROVE Covered(k, T)'
  <2>1. CASE <<o, k>> \in refs'
    BY <2>1 DEF Covered, Referenced
  <2>2. CASE <<o, k>> \notin refs'
    <3>1. ~TakenUp(<<Deletion(o), k>>) /\ status'[<<Deletion(o), k>>] \in Unsettled
      BY <1>1, <2>2, RefsShrink, DeleteSchedules
    <3>2. <<Deletion(o), k>> \in T /\ <<Deletion(o), k>>[2] = k
      BY <3>1
    <3>3. QED
      BY <3>1, <3>2 DEF Covered
  <2>3. QED
    BY <2>1, <2>2
<1>2. ASSUME NEW w \in Writer, KeyOf[w] = k, InProgress(w) PROVE Covered(k, T)'
  <2>1. w \in Upload
    BY <1>2 DEF UploadKey
  <2>2. GuardTarget(w) \in T /\ GuardTarget(w)[2] = k /\ status[GuardTarget(w)] = "PENDING"
    BY <1>2, <2>1, TargetFacts DEF GuardsWait
  <2>3. QED
    BY <1>0, <2>2 DEF Unsettled
<1>3. QED
  BY <1>0, <1>1, <1>2 DEF Covered, Referenced

\* An object appears when a writer stores it.
LEMMA ObjectsGrow ==
  ASSUME TypeOK, [Next]_vars, NEW k \in objects', k \notin objects
  PROVE  \E w \in Writer : KeyOf[w] = k /\ InProgress(w)' /\ UNCHANGED cleaners
<1>1. PICK w \in Writer : Store(w)
  BY DEF Next, WriterNext, CleanerNext, vars, writers, store, Arm, Persist, Refuse, WriteFails, Release,
         ResolveLock, Resolve, WriterCrash, Delete, BecomeDue, ClaimDue, LockTarget,
         CheckReferences, DeleteObject, MarkCompleted, ProcessFails, MarkFailed, CleanerCrash
<1>2. KeyOf[w] = k /\ UNCHANGED cleaners
  BY <1>1 DEF Store
<1>3. wpc'[w] = "stored"
  BY <1>1 DEF Store, WriterTo, TypeOK
<1>4. QED
  BY <1>2, <1>3 DEF InProgress

\* The guard of an upload at work and the target of a deletion that nobody has taken
\* up are no worker's.
LEMMA OthersTargets ==
  ASSUME IInv, NEW c \in Cleaner, HoldsKey(c), NEW k \in Key
  PROVE  /\ \A w \in Upload : InProgress(w) => GuardTarget(w) \in Target \ {claim[c]}
         /\ \A o \in Owner : \/ TakenUp(<<Deletion(o), k>>)
                              \/ <<Deletion(o), k>> \in Target \ {claim[c]}
<1>1. status[claim[c]] = "RUNNING"
  BY DEF IInv, HeldIsRunning, HoldsRows, HoldsKey
<1>2. \A w \in Upload : InProgress(w) => GuardTarget(w) \in Target \ {claim[c]}
  BY <1>1, TargetFacts DEF IInv, GuardsWait
<1>3. \A o \in Owner : TakenUp(<<Deletion(o), k>>) \/ <<Deletion(o), k>> \in Target \ {claim[c]}
  BY OtherTargets DEF TakenUp
<1>4. QED
  BY <1>2, <1>3

\* While a worker holds its key, what covers the object without the worker's target
\* goes on doing so.
LEMMA OtherwiseStep ==
  ASSUME IInv, KeysExclusive, [Next]_vars, NEW c \in Cleaner, HoldsKey(c),
         NEW k \in UploadKey, k = claim[c][2], k \notin swallowed',
         NEW T \in SUBSET Target, T = Target \ {claim[c]}, Covered(k, T)
  PROVE  Covered(k, T)'
<1>1. k \in Key
  BY DEF UploadKey
<1>2. /\ \A w \in Upload : InProgress(w) => GuardTarget(w) \in T
      /\ \A o \in Owner : TakenUp(<<Deletion(o), k>>) \/ <<Deletion(o), k>> \in T
  BY <1>1, OthersTargets
<1>3. \A d \in Cleaner : MarkCompleted(d) /\ claim[d][2] = k => claim[d] \notin T
  BY DEF MarkCompleted, HoldsKey, KeysExclusive
<1>4. QED
  BY <1>2, <1>3, CoveredStep

\* A swallowed object is out of it when it is referenced again or deleted.
LEMMA SwallowedShrinks ==
  ASSUME [Next]_vars, NEW k \in swallowed, k \notin swallowed'
  PROVE  \/ k \notin objects'
         \/ \E w \in Writer : Persist(w) /\ KeyOf[w] = k
  BY DEF Next, WriterNext, CleanerNext, vars, writers, store, Arm, Store, Persist, Refuse, WriteFails,
         Release, ResolveLock, Resolve, WriterCrash, Delete, BecomeDue, ClaimDue, LockTarget,
         CheckReferences, DeleteObject, MarkCompleted, ProcessFails, MarkFailed, CleanerCrash

\* A worker that is about to settle its target leaves no orphan.
LEMMA SettlingStep ==
  ASSUME IInv, KeysExclusive, CoveredOtherwise, [Next]_vars
  PROVE  CoveredOtherwise'
<1> SUFFICES ASSUME NEW c \in Cleaner, cpc'[c] \in {"deleted", "referenced"},
                    claim'[c][2] \in (objects' \cap UploadKey) \ swallowed'
             PROVE  Covered(claim[c][2], Target \ {claim[c]})'
  BY DEF CoveredOtherwise, UploadKey
<1> TypeOK
  BY DEF IInv
<1>1. /\ claim'[c] = claim[c]
      /\ cpc'[c] = "deleted" => cpc[c] = "deleted" \/ DeleteObject(c)
      /\ cpc'[c] = "referenced" => cpc[c] = "referenced" \/ CheckReferences(c)
  BY KeyHolderStep DEF HoldsKey
<1>2. PICK k \in UploadKey : k = claim[c][2]
  BY <1>1
<1>3. PICK T \in SUBSET Target : T = Target \ {claim[c]}
  OBVIOUS
<1>4. SUFFICES Covered(k, T)'
  BY <1>1, <1>2, <1>3
<1>5. ~DeleteObject(c)
  BY <1>1, <1>2 DEF DeleteObject
<1>6. CASE CheckReferences(c)
  <2>1. Referenced(k) /\ refs' = refs
    BY <1>1, <1>2, <1>5, <1>6 DEF CheckReferences, CleanerTo, store, TypeOK
  <2>2. QED
    BY <2>1 DEF Covered, Referenced
<1>7. CASE cpc[c] \in {"deleted", "referenced"} /\ k \in objects
  <2>1. HoldsKey(c)
    BY <1>7 DEF HoldsKey
  <2>2. k \notin swallowed
    <3>1. ASSUME NEW w \in Writer, Persist(w), KeyOf[w] = k PROVE FALSE
      BY <1>2, <2>1, <3>1 DEF Persist, KeyFree
    <3>2. QED
      BY <1>1, <1>2, <3>1, SwallowedShrinks
  <2>3. Covered(k, T)
    BY <1>2, <1>3, <1>7, <2>2 DEF CoveredOtherwise
  <2>4. QED
    BY <1>1, <1>2, <1>3, <2>1, <2>3, OtherwiseStep
<1>8. CASE k \notin objects
  BY <1>1, <1>2, <1>8, ObjectsGrow DEF Covered
<1>9. QED
  BY <1>1, <1>5, <1>6, <1>7, <1>8

\* An uploaded object is never left without a reference, an upload or a target.
LEMMA ScheduledStep ==
  ASSUME IInv, KeysExclusive, CoveredOtherwise, OrphanIsScheduled, [Next]_vars
  PROVE  OrphanIsScheduled'
<1> SUFFICES ASSUME NEW k \in UploadKey, k \in objects', k \notin swallowed'
             PROVE  Covered(k, Target)'
  BY DEF OrphanIsScheduled, Covered, Unsettled, UploadKey
<1> TypeOK /\ k \in Key
  BY DEF IInv, UploadKey
<1>0. CASE k \in swallowed
  <2>1. PICK w \in Writer : Persist(w) /\ KeyOf[w] = k
    BY <1>0, SwallowedShrinks
  <2>2. <<OwnerOf[w], k>> \in refs' /\ OwnerOf[w] \in Owner
    BY <2>1 DEF Persist
  <2>3. QED
    BY <2>2 DEF Covered, Referenced
<1>1. CASE k \notin objects
  BY <1>1, ObjectsGrow DEF Covered
<1>2. ASSUME k \in objects, k \notin swallowed, NEW c \in Cleaner, MarkCompleted(c), claim[c][2] = k
      PROVE  Covered(k, Target)'
  <2>1. PICK T \in SUBSET Target : T = Target \ {claim[c]}
    OBVIOUS
  <2>2. HoldsKey(c) /\ Covered(k, T)
    BY <1>2, <2>1 DEF MarkCompleted, HoldsKey, CoveredOtherwise
  <2>3. Covered(k, T)'
    BY <1>2, <2>1, <2>2, OtherwiseStep
  <2>4. QED
    BY <2>3 DEF Covered
<1>3. ASSUME k \in objects, k \notin swallowed, \A c \in Cleaner : MarkCompleted(c) => claim[c][2] # k
      PROVE  Covered(k, Target)'
  <2>1. Covered(k, Target)
    BY <1>3 DEF OrphanIsScheduled, Covered, Unsettled
  <2>2. /\ \A w \in Upload : GuardTarget(w) \in Target
        /\ \A o \in Owner : <<Deletion(o), k>> \in Target
    BY TargetFacts, OtherTargets
  <2>3. QED
    BY <1>3, <2>1, <2>2, CoveredStep
<1>4. QED
  BY <1>0, <1>1, <1>2, <1>3

\* An uploaded object that nothing refers to and no upload works on is some target's
\* business, whichever uploads, deletions and workers meet on its key and whichever
\* sources are created again under their old ids, except for the keys that a second
\* deletion left to a target taken up before (arm_orphan_guard, _process).
THEOREM OrphansAreScheduled == Spec => []OrphanIsScheduled
<1>1. Init => SInv
  <2> SUFFICES ASSUME Init PROVE SInv
    OBVIOUS
  <2>1. KeysExclusive /\ CoveredOtherwise
    BY DEF Init, KeysExclusive, HoldsKey, CoveredOtherwise
  <2>2. OrphanIsScheduled
    <3>1. ASSUME NEW k \in objects PROVE Referenced(k)
      <4>1. PICK r \in refs : k = r[2]
        BY <3>1 DEF Init
      <4>2. r = <<r[1], k>> /\ r[1] \in Owner
        BY <4>1 DEF Init
      <4>3. QED
        BY <4>2 DEF Referenced
    <3>2. QED
      BY <3>1 DEF OrphanIsScheduled
  <2>3. QED
    BY InitIInv, <2>1, <2>2 DEF SInv
<1>2. SInv /\ [Next]_vars => SInv'
  <2> SUFFICES ASSUME SInv, [Next]_vars PROVE SInv'
    OBVIOUS
  <2>1. IInv /\ KeysExclusive /\ CoveredOtherwise /\ OrphanIsScheduled /\ TypeOK
    BY DEF SInv, IInv
  <2>2. IInv' /\ KeysExclusive'
    BY <2>1, StepIInv, KeysStep
  <2>3. CoveredOtherwise' /\ OrphanIsScheduled'
    BY <2>1, SettlingStep, ScheduledStep
  <2>4. QED
    BY <2>2, <2>3 DEF SInv
<1>3. SInv => OrphanIsScheduled
  BY DEF SInv
<1>4. QED
  BY <1>1, <1>2, <1>3, PTL DEF Spec
=============================================================================
