------------------------------ MODULE Sources ------------------------------
(***************************************************************************)
(* The sources of one project: rows with a selected version, the versions *)
(* themselves, the requests that add, refresh, promote and delete them,   *)
(* the builds that pin what was selected, and the retention sweep.        *)
(*                                                                         *)
(* Every transaction that writes sources, versions or builds takes the    *)
(* project's row lock first, so each is one step here.  What a request    *)
(* reads before its transaction (the source row, the selected version,    *)
(* the project's routing, the current bindings, the answer of the remote  *)
(* server) is read in steps of its own.  Staging, guards and the deletion *)
(* of objects are in ObjectCleanup; the pipeline is in BuildAdmission.    *)
(***************************************************************************)
EXTENDS Integers, FiniteSets, FiniteSetsExt

CONSTANTS
    Source,       \* source ids, chosen by the client
    Definition,   \* [name, kind, origin]: what a creation may ask for
    Content,      \* contents, told apart by their hash
    Candidates,   \* [Content -> SUBSET Server]: servers its operation accepts
    Inherits,     \* contents whose operation inherits the document's servers
    Routing,      \* [active, mapping]: routing settings a project may have
    Editor,       \* concurrent requests that work on sources
    Builder,      \* concurrent requests that create builds
    None,
    Keep,         \* build_retention_count
    Bounds        \* [stamps, builds, sources]: bounds a behaviour may have on rows
                  \* created, builds created and source ids used

VARIABLES
    sources,      \* rows of project_sources, by id
    versions,     \* rows of source_versions
    remote,       \* what the URL of the sources serves now
    routing,      \* default_base_url, active_server_ref and server_mappings
    builds,       \* rows of builds with their build_source_versions
    deployed,     \* sequences of builds with a deployment row
    requests,     \* what each request holds between its steps
    stamp,        \* creation order, standing for created_at
    bounds        \* the bounds of this behaviour; they never change

vars == <<sources, versions, remote, routing, builds, deployed, requests, stamp, bounds>>

Request == Editor \cup Builder

ASSUME KeepAssumption == Keep \in Nat \ {0}
ASSUME BoundsAssumption ==
    Bounds \subseteq [stamps : Nat, builds : Nat, sources : SUBSET Source]

MaxStamp == Max({x.stamps : x \in Bounds})
MaxBuilds == Max({x.builds : x \in Bounds})

Kind == {"openapi", "api_inventory", "documentation"}
Origin == {"upload", "url"}
Executable(row) == row.kind \in {"openapi", "api_inventory"}

Version == [source : Source, content : Content, born : 1..MaxStamp]
Row == [name : {d.name : d \in Definition}, kind : Kind, origin : Origin,
        primary : BOOLEAN, current : Version \cup {None},
        etag : Content \cup {None}, born : 1..MaxStamp]

Status == {"ACTIVE", "READY", "FAILED"}
Terminal == {"READY", "FAILED"}

\* A request between its steps; fields it has not read yet are None.
Step == {"idle", "fetch_new", "create", "version", "latest", "fetch",
         "observe", "bindings", "build"}
Idle == [step |-> "idle", source |-> None, def |-> None, content |-> None,
         primary |-> FALSE, etag |-> None, latest |-> None,
         routing |-> None, bindings |-> None]

\* A validator (ETag, Last-Modified) names the content it came with.
Validator(content) == content

-----------------------------------------------------------------------------
(* Reads *)

Live == DOMAIN sources
Versioned(s) == sources[s].current # None

\* What a build would bind now: the selected version of every source, with
\* the identity and role of its source.
Binding(s) == [version |-> sources[s].current, name |-> sources[s].name,
               kind |-> sources[s].kind, primary |-> sources[s].primary]
Bindings == {Binding(s) : s \in {x \in Live : Versioned(x)}}

PrimaryOf(bindings) == {b \in bindings : b.primary /\ Executable(b)}

\* Fingerprint of the configuration: equal exactly when bindings and routing are.
Fingerprint(bindings, r) == <<bindings, r>>

\* Sources of one name and kind supersede one another, the newest first.
Group(name, kind, except) ==
    {s \in Live \ except : sources[s].name = name /\ sources[s].kind = kind}
LatestInGroup(name, kind, except) ==
    CHOOSE s \in Group(name, kind, except) :
        \A t \in Group(name, kind, except) : sources[t].born <= sources[s].born

VersionedExecutables(except) ==
    {s \in Live \ except : Executable(sources[s]) /\ Versioned(s)}
FirstVersionedExecutable(except) ==
    CHOOSE s \in VersionedExecutables(except) :
        \A t \in VersionedExecutables(except) : sources[s].born <= sources[t].born

VersionedPrimaries == {s \in VersionedExecutables({}) : sources[s].primary}

-----------------------------------------------------------------------------
(* Discovery *)

\* The project-wide server applies only where the operation has a choice and
\* every candidate comes from the document's own server list.
InheritedServer(content, r) ==
    IF /\ r.active \in Candidates[content]
       /\ Cardinality(Candidates[content]) > 1
       /\ content \in Inherits
    THEN r.active ELSE None

\* The server of the operation, None when it is ambiguous or not applicable.
SelectedServer(content, r) ==
    LET configured == IF r.mapping # None THEN r.mapping
                      ELSE InheritedServer(content, r)
    IN  CASE configured \in Candidates[content] -> configured
          [] configured = None /\ Cardinality(Candidates[content]) = 1 ->
                CHOOSE server \in Candidates[content] : TRUE
          [] OTHER -> None

RoutingComplete(bindings, r) ==
    \A b \in PrimaryOf(bindings) : SelectedServer(b.version.content, r) # None

-----------------------------------------------------------------------------
(* Pieces of the transactions *)

\* Rows after source s becomes the executable primary; nothing is written
\* unless it is executable and has a selected version.
Promote(rows, s) ==
    [t \in DOMAIN rows |->
        [rows[t] EXCEPT !.primary = IF t = s THEN TRUE
                                    ELSE @ /\ ~Executable(rows[t])]]

\* The version of s with this content, or the one to insert for it.
VersionFor(s, content) ==
    LET known == {v \in versions : v.source = s /\ v.content = content}
    IN  IF known # {} THEN CHOOSE v \in known : TRUE
        ELSE [source |-> s, content |-> content, born |-> stamp + 1]

\* Selecting a version records the validator it was observed with.
Select(rows, s, version, etag) ==
    [rows EXCEPT ![s].current = version, ![s].etag = etag]

SameIdentity(row, def) ==
    row.name = def.name /\ row.kind = def.kind /\ row.origin = def.origin

NewRow(def, born) ==
    [name |-> def.name, kind |-> def.kind, origin |-> def.origin,
     primary |-> FALSE, current |-> None, etag |-> None, born |-> born]

Added(rows, s, row) == [t \in DOMAIN rows \cup {s} |-> IF t = s THEN row ELSE rows[t]]

Done(r) == requests' = [requests EXCEPT ![r] = Idle]
Goto(r, req) == requests' = [requests EXCEPT ![r] = req]

-----------------------------------------------------------------------------
(* Creating a source *)

\* create: a row without a version, never primary.
Create(s, def) ==
    /\ s \in bounds.sources \ Live
    /\ stamp < bounds.stamps
    /\ stamp' = stamp + 1
    /\ sources' = Added(sources, s, NewRow(def, stamp + 1))
    /\ UNCHANGED <<versions, remote, routing, builds, deployed, requests, bounds>>

\* A repeated creation returns what the first one made; another definition
\* under the same id is refused.  Neither changes anything.
CreationOpen(s, def) ==
    s \in Live => SameIdentity(sources[s], def) /\ ~Versioned(s)

BeginCreate(r, s, def, primary, content) ==
    /\ requests[r] = Idle
    /\ s \in bounds.sources
    /\ def.kind = "documentation" => ~primary
    /\ CreationOpen(s, def)
    /\ Goto(r, [Idle EXCEPT !.step = IF def.origin = "url" THEN "fetch_new" ELSE "create",
                            !.source = s, !.def = def, !.primary = primary,
                            !.content = IF def.origin = "url" THEN None ELSE content])
    /\ UNCHANGED <<sources, versions, remote, routing, builds, deployed, stamp, bounds>>

FetchNew(r) ==
    /\ requests[r].step = "fetch_new"
    /\ Goto(r, [requests[r] EXCEPT !.step = "create",
                                   !.content = remote,
                                   !.etag = Validator(remote)])
    /\ UNCHANGED <<sources, versions, remote, routing, builds, deployed, stamp, bounds>>

\* _persist_created_source: the row if it is new, the version unless the
\* content is known, the selection, and the primary role if it was asked
\* for, is vacant, or belonged to the source this one supersedes.
PersistCreated(r) ==
    LET q == requests[r]
        new == q.source \notin Live
        row == IF new THEN NewRow(q.def, stamp + 1) ELSE sources[q.source]
        version == VersionFor(q.source, q.content)
        rows == Select(Added(sources, q.source, row), q.source, version, q.etag)
        inherits == /\ new
                    /\ Group(q.def.name, q.def.kind, {}) # {}
                    /\ sources[LatestInGroup(q.def.name, q.def.kind, {})].primary
        promoted == Executable(row) /\ (q.primary \/ VersionedPrimaries = {} \/ inherits)
    IN  /\ q.step = "create"
        /\ Done(r)
        /\ IF ~new /\ ~SameIdentity(row, q.def)
           THEN UNCHANGED <<sources, versions, stamp>>
           ELSE /\ version.born <= bounds.stamps
                /\ sources' = IF promoted THEN Promote(rows, q.source) ELSE rows
                /\ versions' = versions \cup {version}
                /\ stamp' = Max({stamp, version.born})
        /\ UNCHANGED <<remote, routing, builds, deployed, bounds>>

-----------------------------------------------------------------------------
(* Changing a source *)

\* update with a name.
Rename(s, name) ==
    /\ s \in Live /\ sources[s].name # name
    /\ sources' = [sources EXCEPT ![s].name = name]
    /\ UNCHANGED <<versions, remote, routing, builds, deployed, requests, stamp, bounds>>

\* update with is_primary: the role can be taken, never given back.
MakePrimary(s) ==
    /\ s \in VersionedExecutables({})
    /\ sources' = Promote(sources, s)
    /\ UNCHANGED <<versions, remote, routing, builds, deployed, requests, stamp, bounds>>

\* The namesake is taken over without asking whether it has a version; the
\* promotion then writes nothing.
Replacement_Sibling(s) ==
    LET name == sources[s].name
        kind == sources[s].kind
        siblings == Group(name, kind, {s})
    IN  IF siblings # {} THEN {t \in {LatestInGroup(name, kind, {s})} : Versioned(t)}
        ELSE IF VersionedExecutables({s}) # {} THEN {FirstVersionedExecutable({s})}
        ELSE {}

\* The source that takes over the role of s: its newest namesake if that has
\* a version, else the oldest executable source with one.
Replacement(s) ==
    LET name == sources[s].name
        kind == sources[s].kind
        siblings == Group(name, kind, {s})
        sibling == LatestInGroup(name, kind, {s})
    IN  IF siblings # {} /\ Versioned(sibling) THEN {sibling}
        ELSE IF VersionedExecutables({s}) # {} THEN {FirstVersionedExecutable({s})}
        ELSE {}

Without(rows, s) == [t \in DOMAIN rows \ {s} |-> rows[t]]

\* delete: refused while a build refers to any version of s; its versions go
\* with it.
Delete(s) ==
    /\ s \in Live
    /\ \A b \in builds : \A x \in b.bindings : x.version.source # s
    /\ LET rows == Without(sources, s)
           heirs == IF sources[s].primary THEN Replacement(s) ELSE {}
       IN  sources' = IF heirs = {} THEN rows
                      ELSE Promote(rows, CHOOSE t \in heirs : TRUE)
    /\ versions' = {v \in versions : v.source # s}
    /\ UNCHANGED <<remote, routing, builds, deployed, requests, stamp, bounds>>

-----------------------------------------------------------------------------
(* New versions *)

\* add_upload_version reads the source, then stores the upload.
BeginVersion(r, s, content) ==
    /\ requests[r] = Idle
    /\ s \in Live /\ sources[s].origin = "upload"
    /\ Goto(r, [Idle EXCEPT !.step = "version", !.source = s, !.content = content])
    /\ UNCHANGED <<sources, versions, remote, routing, builds, deployed, stamp, bounds>>

\* refresh reads the source with its last validator ...
BeginRefresh(r, s) ==
    /\ requests[r] = Idle
    /\ s \in Live /\ sources[s].origin = "url"
    /\ Goto(r, [Idle EXCEPT !.step = "latest", !.source = s, !.etag = sources[s].etag])
    /\ UNCHANGED <<sources, versions, remote, routing, builds, deployed, stamp, bounds>>

\* ... and the selected version in a session of its own.
ReadLatest(r) ==
    /\ requests[r].step = "latest"
    /\ LET s == requests[r].source
       IN  Goto(r, [requests[r] EXCEPT !.step = "fetch",
                        !.latest = IF s \in Live THEN sources[s].current ELSE None])
    /\ UNCHANGED <<sources, versions, remote, routing, builds, deployed, stamp, bounds>>

\* The fetch is conditional on the validator if there was a version; the
\* server answers 304 when it still serves what the validator names.
Fetch(r) ==
    /\ requests[r].step = "fetch"
    /\ LET q == requests[r]
           served == remote
           unmodified == q.latest # None /\ q.etag = Validator(served)
       IN  Goto(r, IF unmodified THEN [q EXCEPT !.step = "observe"]
                   ELSE [q EXCEPT !.step = "version", !.content = served,
                                  !.etag = Validator(served)])
    /\ UNCHANGED <<sources, versions, remote, routing, builds, deployed, stamp, bounds>>

\* observe_not_modified: the validator is recorded if the version that was
\* read is still the selected one.
Observe(r) ==
    /\ requests[r].step = "observe"
    /\ Done(r)
    /\ LET q == requests[r]
           hit == q.source \in Live /\ sources[q.source].current = q.latest
       IN  sources' = IF hit THEN [sources EXCEPT ![q.source].etag = q.etag] ELSE sources
    /\ UNCHANGED <<versions, remote, routing, builds, deployed, stamp, bounds>>

\* The source is not locked and read again.
PersistVersion_Unlocked(r) ==
    LET q == requests[r]
        version == VersionFor(q.source, q.content)
    IN  /\ q.step = "version"
        /\ Done(r)
        /\ version.born <= bounds.stamps
        /\ LET rows == Select(sources, q.source, version, q.etag)
           IN  sources' = IF q.source \notin Live THEN sources
                          ELSE IF Executable(rows[q.source]) /\ VersionedPrimaries = {}
                          THEN Promote(rows, q.source) ELSE rows
        /\ versions' = versions \cup {version}
        /\ stamp' = Max({stamp, version.born})
        /\ UNCHANGED <<remote, routing, builds, deployed, bounds>>

\* _persist_version: refused if the source is gone.
PersistVersion(r) ==
    LET q == requests[r]
        version == VersionFor(q.source, q.content)
        rows == Select(sources, q.source, version, q.etag)
        vacant == Executable(sources[q.source]) /\ VersionedPrimaries = {}
    IN  /\ q.step = "version"
        /\ Done(r)
        /\ IF q.source \notin Live
           THEN UNCHANGED <<sources, versions, stamp>>
           ELSE /\ version.born <= bounds.stamps
                /\ sources' = IF vacant THEN Promote(rows, q.source) ELSE rows
                /\ versions' = versions \cup {version}
                /\ stamp' = Max({stamp, version.born})
        /\ UNCHANGED <<remote, routing, builds, deployed, bounds>>

\* A request fails or its process stops between two steps.
Abandon(r) ==
    /\ requests[r] # Idle
    /\ Done(r)
    /\ UNCHANGED <<sources, versions, remote, routing, builds, deployed, stamp, bounds>>

-----------------------------------------------------------------------------
(* Builds *)

NextSequence == 1 + Max({0} \cup {b.sequence : b \in builds})

\* BuildService.create: discovery reads the project's routing, then, in
\* another session, the current bindings, and parses what they hold.
BeginBuild(r) ==
    /\ requests[r] = Idle
    /\ NextSequence <= bounds.builds
    /\ Goto(r, [Idle EXCEPT !.step = "bindings", !.routing = routing])
    /\ UNCHANGED <<sources, versions, remote, routing, builds, deployed, stamp, bounds>>

ReadBindings(r) ==
    /\ requests[r].step = "bindings"
    /\ Bindings # {} /\ Cardinality(PrimaryOf(Bindings)) = 1
    /\ Goto(r, [requests[r] EXCEPT !.step = "build", !.bindings = Bindings])
    /\ UNCHANGED <<sources, versions, remote, routing, builds, deployed, stamp, bounds>>

\* The transaction binds what is current and requires it to be what
\* discovery saw; discovery's verdict on routing then holds for it.
CommitBuild_Stale(r) ==
    LET q == requests[r]
    IN  /\ q.step = "build"
        /\ NextSequence <= bounds.builds
        /\ Done(r)
        /\ LET ok == /\ RoutingComplete(q.bindings, q.routing)
                     /\ Cardinality(PrimaryOf(Bindings)) = 1
                     /\ \A b \in builds : b.status \in Terminal
           IN  builds' = IF ok
                         THEN builds \cup {[sequence |-> NextSequence, status |-> "ACTIVE",
                                            bindings |-> Bindings, routing |-> routing]}
                         ELSE builds
        /\ UNCHANGED <<sources, versions, remote, routing, deployed, stamp, bounds>>

CommitBuild(r) ==
    LET q == requests[r]
    IN  /\ q.step = "build"
        /\ NextSequence <= bounds.builds
        /\ Done(r)
        /\ LET ok == /\ Fingerprint(q.bindings, q.routing) = Fingerprint(Bindings, routing)
                     /\ RoutingComplete(q.bindings, q.routing)
                     /\ Cardinality(PrimaryOf(Bindings)) = 1
                     /\ \A b \in builds : b.status \in Terminal
           IN  builds' = IF ok
                         THEN builds \cup {[sequence |-> NextSequence, status |-> "ACTIVE",
                                            bindings |-> Bindings, routing |-> routing]}
                         ELSE builds
        /\ UNCHANGED <<sources, versions, remote, routing, deployed, stamp, bounds>>

\* The pipeline ends the active build (BuildAdmission).
FinishBuild(b, status) ==
    /\ b.status = "ACTIVE"
    /\ builds' = (builds \ {b}) \cup {[b EXCEPT !.status = status]}
    /\ UNCHANGED <<sources, versions, remote, routing, deployed, requests, stamp, bounds>>

\* A READY build gets a deployment row, which is never deleted (Deployment).
Deploy(b) ==
    /\ b.status = "READY"
    /\ b.sequence \notin deployed
    /\ deployed' = deployed \cup {b.sequence}
    /\ UNCHANGED <<sources, versions, remote, routing, builds, requests, stamp, bounds>>

-----------------------------------------------------------------------------
(* The retention sweep *)

\* The newest Keep builds, unfinished builds and builds with a deployment.
Protected(b) ==
    \/ Cardinality({x \in builds : x.sequence > b.sequence}) < Keep
    \/ b.status \notin Terminal
    \/ b.sequence \in deployed
BuildCandidates == {b \in builds : ~Protected(b)}

\* Builds that keep a reference are not looked up.
VersionCandidates_Unreferenced(cutoff) ==
    {v \in versions :
        /\ \E w \in versions : w.source = v.source /\ w.born > v.born
        /\ v.born < cutoff}

\* All versions but the newest of each source that are older than the cutoff
\* and that no build outlives the sweep with.
VersionCandidates(cutoff) ==
    {v \in versions :
        /\ \E w \in versions : w.source = v.source /\ w.born > v.born
        /\ v.born < cutoff
        /\ \A b \in builds \ BuildCandidates : \A x \in b.bindings : x.version # v}

\* The deferred foreign key of the selected version: a transaction that
\* would delete it fails as a whole when it commits.
SelectionIntact(gone) == \A s \in Live : sources[s].current \notin gone

Sweep(cutoff) ==
    /\ BuildCandidates \cup VersionCandidates(cutoff) # {}
    /\ SelectionIntact(VersionCandidates(cutoff))
    /\ builds' = builds \ BuildCandidates
    /\ versions' = versions \ VersionCandidates(cutoff)
    /\ UNCHANGED <<sources, remote, routing, deployed, requests, stamp, bounds>>

-----------------------------------------------------------------------------
(* The rest of the world *)

\* The owner of the URL publishes other content, or the former content again.
Publish(content) ==
    /\ remote # content
    /\ remote' = content
    /\ UNCHANGED <<sources, versions, routing, builds, deployed, requests, stamp, bounds>>

\* ProjectService.update changes the routing settings.
ChangeRouting(new) ==
    /\ new # routing
    /\ routing' = new
    /\ UNCHANGED <<sources, versions, remote, builds, deployed, requests, stamp, bounds>>

Init ==
    /\ sources = [s \in {} |-> None]
    /\ versions = {}
    /\ remote \in Content
    /\ routing \in Routing
    /\ builds = {}
    /\ deployed = {}
    /\ requests = [r \in Request |-> Idle]
    /\ stamp = 0
    /\ bounds \in Bounds

Edit(r) ==
    \/ \E s \in Source, d \in Definition, p \in BOOLEAN, c \in Content : BeginCreate(r, s, d, p, c)
    \/ \E s \in Source, c \in Content : BeginVersion(r, s, c)
    \/ \E s \in Source : BeginRefresh(r, s)
    \/ FetchNew(r) \/ PersistCreated(r)
    \/ ReadLatest(r) \/ Fetch(r) \/ Observe(r) \/ PersistVersion(r)
    \/ Abandon(r)

Build(r) == BeginBuild(r) \/ ReadBindings(r) \/ CommitBuild(r) \/ Abandon(r)

Next ==
    \/ \E r \in Editor : Edit(r)
    \/ \E r \in Builder : Build(r)
    \/ \E s \in Source, d \in Definition : Create(s, d)
    \/ \E s \in Source, d \in Definition : Rename(s, d.name)
    \/ \E s \in Source : MakePrimary(s) \/ Delete(s)
    \/ \E b \in builds, status \in Terminal : FinishBuild(b, status)
    \/ \E b \in builds : Deploy(b)
    \/ \E cutoff \in 1..MaxStamp : Sweep(cutoff)
    \/ \E c \in Content : Publish(c)
    \/ \E new \in Routing : ChangeRouting(new)

Spec == Init /\ [][Next]_vars

-----------------------------------------------------------------------------
(* Properties *)

\* Rows, versions, builds and requests keep their shape; a selected version
\* and a validator come from the values an observation can have.
TypeOK ==
    /\ Live \subseteq Source /\ \A s \in Live : sources[s] \in Row
    /\ versions \subseteq Version
    /\ remote \in Content /\ routing \in Routing
    /\ \A b \in builds : b.sequence \in 1..MaxBuilds /\ b.status \in Status
    /\ deployed \subseteq 1..MaxBuilds
    /\ \A r \in Request : requests[r].step \in Step
    /\ stamp \in 0..MaxStamp

\* Whatever is created, superseded, renamed, promoted, refreshed and deleted
\* in whatever order: as soon as an executable source has a version, exactly
\* one executable source is primary, and it has a version.  (The index
\* uq_project_sources_primary_executable only says at most one.)
OnePrimary ==
    VersionedExecutables({}) # {} =>
        LET primaries == {s \in Live : Executable(sources[s]) /\ sources[s].primary}
        IN  Cardinality(primaries) = 1 /\ primaries \subseteq VersionedExecutables({})

\* The versions a build was made from exist as long as the build does, and a
\* build that a deployment runs or can return to exists as long as the
\* deployment: neither the deletion of a source nor the retention sweep
\* takes one away.
PinsKept ==
    /\ \A b \in builds : \A x \in b.bindings : x.version \in versions
    /\ \A n \in deployed : \E b \in builds : b.sequence = n

\* Discovery reads the routing and the bindings in two sessions before the
\* build's transaction, while both may change: the build still freezes one
\* primary document whose operation resolves to a server under the routing
\* frozen with it.
RoutableBuilds ==
    \A b \in builds : Cardinality(PrimaryOf(b.bindings)) = 1
                       /\ RoutingComplete(b.bindings, b.routing)

\* A version whose source was deleted while it was fetched or uploaded is not
\* stored, concurrent uploads, refreshes and repeated creations store one
\* content once, and the selected version of every source exists.
SelectionExists ==
    /\ \A v, w \in versions : v.source \in Live
            /\ (v.source = w.source /\ v.content = w.content => v = w)
    /\ \A s \in Live : Versioned(s) => sources[s].current \in versions

-----------------------------------------------------------------------------
(***************************************************************************)
(* The inductive invariant of SourcesProofs.                               *)
(***************************************************************************)

AnyVersion == [source : Source, content : Content, born : Nat]
AnyName == {d.name : d \in Definition}
AnyRow == [name : AnyName, kind : Kind, origin : Origin, primary : BOOLEAN,
           current : AnyVersion \cup {None}, etag : Content \cup {None}, born : Nat]
AnyBinding == [version : AnyVersion, name : AnyName, kind : Kind, primary : BOOLEAN]
AnyRequest == [step : Step, source : Source \cup {None}, def : Definition \cup {None},
               content : Content \cup {None}, primary : BOOLEAN, etag : Content \cup {None},
               latest : AnyVersion \cup {None}, routing : Routing \cup {None},
               bindings : (SUBSET AnyBinding) \cup {None}]

ASSUME DefinitionAssumption == \A d \in Definition : d.kind \in Kind /\ d.origin \in Origin
ASSUME NoneAssumption == None \notin AnyVersion

Shapes ==
    /\ Live \subseteq Source /\ sources \in [Live -> AnyRow]
    /\ versions \subseteq AnyVersion
    /\ remote \in Content /\ routing \in Routing
    /\ requests \in [Request -> AnyRequest]
    /\ \A b \in builds : b = [sequence |-> b.sequence, status |-> b.status,
                              bindings |-> b.bindings, routing |-> b.routing]

\* What a request holds at each of its steps.
Ready(q) ==
    /\ q.step \in {"fetch_new", "create"} => q.source \in Source /\ q.def \in Definition
    /\ q.step \in {"version", "latest", "fetch", "observe"} => q.source \in Source
    /\ q.step \in {"create", "version"} => q.content \in Content
RequestsReady == \A r \in Request : Ready(requests[r])

\* Rows are created in the order of their stamps.
Stamped == stamp \in Nat /\ \A s \in Live : sources[s].born <= stamp

\* A source selects among its own versions.
SelectsOwn == \A s \in Live : Versioned(s) => sources[s].current.source = s

\* Only an executable source with a version is primary, no two are, and one is as
\* soon as there is such a source.
PrimaryRole ==
    /\ \A s \in Live : sources[s].primary => s \in VersionedExecutables({})
    /\ \A s, t \in Live : sources[s].primary /\ sources[t].primary => s = t
    /\ VersionedExecutables({}) # {} => \E s \in Live : sources[s].primary

IInv ==
    /\ Shapes
    /\ RequestsReady
    /\ Stamped
    /\ SelectsOwn
    /\ PrimaryRole
    /\ SelectionExists
    /\ PinsKept
    /\ RoutableBuilds
=============================================================================
