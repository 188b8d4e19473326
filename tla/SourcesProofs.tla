---------------------------- MODULE SourcesProofs ----------------------------
(***************************************************************************)
(* Proofs that Sources keeps its inductive invariant IInv, for any         *)
(* sources, definitions, contents and number of requests at work.          *)
(*                                                                         *)
(* The bound on the row order (stamp) is what makes the newest and the     *)
(* oldest source of a group exist; everything else about a transaction is  *)
(* told by what it does to a table of rows.                                *)
(***************************************************************************)
EXTENDS Sources, FiniteSetTheorems, TLAPS

USE DefinitionAssumption, NoneAssumption

-----------------------------------------------------------------------------
(* Numbers. *)

\* The greater of two stamps.
LEMMA MaxOfTwo ==
  ASSUME NEW a \in Nat, NEW b \in Nat
  PROVE  Max({a, b}) \in Nat /\ a <= Max({a, b}) /\ b <= Max({a, b})
<1>1. \E x \in {a, b} : \A y \in {a, b} : x >= y
  OBVIOUS
<1>2. Max({a, b}) \in {a, b} /\ \A y \in {a, b} : Max({a, b}) >= y
  BY <1>1 DEF Max
<1>3. QED
  BY <1>2

\* A set of numbers up to n has a greatest one: without it, the numbers below its
\* members could be counted again without the zero.
LEMMA GreatestExists ==
  ASSUME NEW n \in Nat, NEW S \in SUBSET (0 .. n), S # {}
  PROVE  \E m \in S : \A x \in S : x <= m
<1> SUFFICES ASSUME \A m \in S : \E x \in S : x > m PROVE FALSE
  OBVIOUS
<1> DEFINE T == {x \in 0 .. n : \E y \in S : x <= y}
           f == [x \in T |-> x + 1]
<1>1. IsFiniteSet(T)
  <2>1. IsFiniteSet(0 .. n)
    BY FS_Interval, 0 \in Int, n \in Int
  <2>2. T \in SUBSET (0 .. n)
    OBVIOUS
  <2> HIDE DEF T
  <2>3. QED
    BY <2>1, <2>2, FS_Subset
<1>2. 0 \in T
  <2>1. PICK y \in S : TRUE
    OBVIOUS
  <2>2. 0 <= y /\ 0 \in 0 .. n
    BY <2>1
  <2>3. QED
    BY <2>1, <2>2
<1>3. IsFiniteSet(T \ {0}) /\ Cardinality(T \ {0}) < Cardinality(T)
  <2> HIDE DEF T
  <2>1. Cardinality(T) \in Nat
    BY <1>1, FS_CardinalityType
  <2>2. IsFiniteSet(T \ {0}) /\ Cardinality(T \ {0}) = Cardinality(T) - 1
    BY <1>1, <1>2, FS_RemoveElement
  <2>3. QED
    BY <2>1, <2>2
<1>4. f \in [T -> T \ {0}]
  <2>1. ASSUME NEW x \in T PROVE x + 1 \in T \ {0}
    <3>1. PICK y \in S : x <= y
      OBVIOUS
    <3>2. PICK z \in S : z > y
      OBVIOUS
    <3>3. x + 1 <= z /\ z \in 0 .. n
      BY <3>1, <3>2
    <3>4. QED
      BY <3>3
  <2>2. QED
    BY <2>1
<1>5. \A x, y \in T : f[x] = f[y] => x = y
  OBVIOUS
<1> HIDE DEF T, f
<1>6. QED
  BY <1>1, <1>3, <1>4, <1>5, FS_PigeonHole

\* ... and a least one.
LEMMA LeastExists ==
  ASSUME NEW n \in Nat, NEW S \in SUBSET (0 .. n), S # {}
  PROVE  \E m \in S : \A x \in S : m <= x
<1> DEFINE R == {n - x : x \in S}
<1>1. R \in SUBSET (0 .. n) /\ R # {}
  <2>1. \A x \in S : n - x \in 0 .. n
    OBVIOUS
  <2>2. QED
    BY <2>1
<1>2. PICK m \in R : \A x \in R : x <= m
  <2> HIDE DEF R
  <2> QED
    BY <1>1, GreatestExists
<1>3. PICK y \in S : m = n - y
  OBVIOUS
<1>4. \A x \in S : n - x <= n - y
  BY <1>2, <1>3
<1>5. QED
  BY <1>3, <1>4

-----------------------------------------------------------------------------
(* The source that is chosen. *)

\* The newest source of a group is in the group.
LEMMA LatestExists ==
  ASSUME Shapes, Stamped, NEW name, NEW kind, NEW except, Group(name, kind, except) # {}
  PROVE  LatestInGroup(name, kind, except) \in Group(name, kind, except)
<1> DEFINE G == Group(name, kind, except)
           S == {sources[s].born : s \in G}
<1>1. \A s \in G : s \in Live /\ sources[s].born \in 0 .. stamp
  BY DEF Group, Shapes, Stamped, AnyRow
<1>2. S \in SUBSET (0 .. stamp) /\ S # {} /\ stamp \in Nat
  BY <1>1 DEF Stamped
<1> HIDE DEF G
<1>3. PICK m \in S : \A x \in S : x <= m
  <2> HIDE DEF S
  <2> QED
    BY <1>2, GreatestExists
<1>4. PICK s \in G : m = sources[s].born
  OBVIOUS
<1>5. \A t \in G : sources[t].born <= sources[s].born
  BY <1>3, <1>4
<1>6. QED
  BY <1>4, <1>5 DEF LatestInGroup, G

\* The oldest executable source with a version is one.
LEMMA FirstExists ==
  ASSUME Shapes, Stamped, NEW except, VersionedExecutables(except) # {}
  PROVE  FirstVersionedExecutable(except) \in VersionedExecutables(except)
<1> DEFINE G == VersionedExecutables(except)
           S == {sources[s].born : s \in G}
<1>1. \A s \in G : s \in Live /\ sources[s].born \in 0 .. stamp
  BY DEF VersionedExecutables, Shapes, Stamped, AnyRow
<1>2. S \in SUBSET (0 .. stamp) /\ S # {} /\ stamp \in Nat
  BY <1>1 DEF Stamped
<1> HIDE DEF G
<1>3. PICK m \in S : \A x \in S : m <= x
  <2> HIDE DEF S
  <2> QED
    BY <1>2, LeastExists
<1>4. PICK s \in G : m = sources[s].born
  OBVIOUS
<1>5. \A t \in G : sources[s].born <= sources[t].born
  BY <1>3, <1>4
<1>6. QED
  BY <1>4, <1>5 DEF FirstVersionedExecutable, G

\* The source that takes over a role has a version, is executable, and stays; there
\* is none only if no other source could.
LEMMA ReplacementFits ==
  ASSUME Shapes, Stamped, NEW s \in Live, Executable(sources[s])
  PROVE  /\ Replacement(s) \subseteq VersionedExecutables({s})
         /\ Replacement(s) = {} => VersionedExecutables({s}) = {}
<1> DEFINE name == sources[s].name
           kind == sources[s].kind
           sibling == LatestInGroup(name, kind, {s})
<1>1. CASE Group(name, kind, {s}) # {} /\ Versioned(sibling)
  <2>1. sibling \in Group(name, kind, {s})
    BY <1>1, LatestExists
  <2>2. sibling \in VersionedExecutables({s})
    BY <1>1, <2>1 DEF Group, VersionedExecutables, Executable
  <2>3. Replacement(s) = {sibling}
    BY <1>1 DEF Replacement
  <2>4. QED
    BY <2>2, <2>3
<1>2. CASE ~(Group(name, kind, {s}) # {} /\ Versioned(sibling))
  BY <1>2, FirstExists DEF Replacement
<1>3. QED
  BY <1>1, <1>2

-----------------------------------------------------------------------------
(* What the pieces of a transaction do to a table of rows. *)

\* The rows that may be primary, and the rule about which one is.
Able(rows) == {s \in DOMAIN rows : Executable(rows[s]) /\ rows[s].current # None}
Role(rows) ==
    /\ \A s \in DOMAIN rows : rows[s].primary => s \in Able(rows)
    /\ \A s, t \in DOMAIN rows : rows[s].primary /\ rows[t].primary => s = t
    /\ Able(rows) # {} => \E s \in DOMAIN rows : rows[s].primary

\* A table has rows of the right shape.
Table(rows) == rows \in [DOMAIN rows -> AnyRow]

\* The role of the invariant is that of the table of sources.
LEMMA RoleOfSources ==
  /\ PrimaryRole <=> Role(sources)
  /\ Able(sources) = VersionedExecutables({})
  BY DEF PrimaryRole, Role, Able, VersionedExecutables, Versioned, Live

\* A promotion changes nothing but who is primary.
LEMMA PromoteEffect ==
  ASSUME NEW rows, Table(rows), NEW s \in DOMAIN rows
  PROVE  /\ DOMAIN Promote(rows, s) = DOMAIN rows
         /\ Table(Promote(rows, s))
         /\ \A t \in DOMAIN rows :
              /\ Promote(rows, s)[t].name = rows[t].name
              /\ Promote(rows, s)[t].kind = rows[t].kind
              /\ Promote(rows, s)[t].current = rows[t].current
              /\ Promote(rows, s)[t].born = rows[t].born
              /\ Promote(rows, s)[t].primary <=>
                   t = s \/ (rows[t].primary /\ ~Executable(rows[t]))
<1> DEFINE p(t) == IF t = s THEN TRUE ELSE rows[t].primary /\ ~Executable(rows[t])
           new(t) == [rows[t] EXCEPT !.primary = p(t)]
<1>1. Promote(rows, s) = [t \in DOMAIN rows |-> new(t)]
  BY DEF Promote
<1>2. ASSUME NEW t \in DOMAIN rows
      PROVE  /\ new(t) \in AnyRow
             /\ new(t).name = rows[t].name /\ new(t).kind = rows[t].kind
             /\ new(t).current = rows[t].current /\ new(t).born = rows[t].born
             /\ new(t).primary = p(t)
  <2>1. rows[t] \in AnyRow /\ p(t) \in BOOLEAN
    BY DEF Table
  <2> HIDE DEF p
  <2>2. QED
    BY <2>1 DEF AnyRow
<1> HIDE DEF new
<1>3. QED
  BY <1>1, <1>2 DEF Table

\* Selecting a version changes that and its validator.
LEMMA SelectEffect ==
  ASSUME NEW rows, Table(rows), NEW s \in DOMAIN rows, NEW v \in AnyVersion,
         NEW e \in Content \cup {None}
  PROVE  /\ DOMAIN Select(rows, s, v, e) = DOMAIN rows
         /\ Table(Select(rows, s, v, e))
         /\ \A t \in DOMAIN rows :
              /\ Select(rows, s, v, e)[t].name = rows[t].name
              /\ Select(rows, s, v, e)[t].kind = rows[t].kind
              /\ Select(rows, s, v, e)[t].current = IF t = s THEN v ELSE rows[t].current
              /\ Select(rows, s, v, e)[t].born = rows[t].born
              /\ Select(rows, s, v, e)[t].primary = rows[t].primary
<1> DEFINE new(t) == IF t = s THEN [rows[s] EXCEPT !.current = v, !.etag = e] ELSE rows[t]
<1>1. Select(rows, s, v, e) = [t \in DOMAIN rows |-> new(t)]
  BY DEF Select, Table
<1>2. ASSUME NEW t \in DOMAIN rows
      PROVE  /\ new(t) \in AnyRow
             /\ new(t).name = rows[t].name /\ new(t).kind = rows[t].kind
             /\ new(t).current = IF t = s THEN v ELSE rows[t].current
             /\ new(t).born = rows[t].born /\ new(t).primary = rows[t].primary
  <2>1. rows[t] \in AnyRow
    BY DEF Table
  <2>2. QED
    BY <2>1 DEF AnyRow
<1> HIDE DEF new
<1>3. QED
  BY <1>1, <1>2 DEF Table

\* A new row is a row.
LEMMA NewRowType ==
  ASSUME NEW def \in Definition, NEW born \in Nat
  PROVE  NewRow(def, born) \in AnyRow
  BY DEF NewRow, AnyRow, AnyName

\* After a promotion exactly one source is primary.
LEMMA PromoteRole ==
  ASSUME NEW rows, Table(rows), NEW s \in Able(rows),
         \A t \in DOMAIN rows : rows[t].primary => Executable(rows[t])
  PROVE  Role(Promote(rows, s))
<1>1. s \in DOMAIN rows
  BY DEF Able
<1> DEFINE P == Promote(rows, s)
<1>2. /\ DOMAIN P = DOMAIN rows
      /\ \A t \in DOMAIN rows :
           /\ P[t].kind = rows[t].kind /\ P[t].current = rows[t].current
           /\ P[t].primary <=> t = s \/ (rows[t].primary /\ ~Executable(rows[t]))
  BY <1>1, PromoteEffect
<1> HIDE DEF P
<1>3. \A t \in DOMAIN rows : P[t].primary <=> t = s
  BY <1>2
<1>4. s \in Able(P)
  BY <1>2 DEF Able, Executable
<1>5. Role(P)
  BY <1>1, <1>2, <1>3, <1>4 DEF Role
<1>6. QED
  BY <1>5 DEF P

\* A selection leaves the role alone if it is taken, or not open to the source.
LEMMA SelectRole ==
  ASSUME NEW rows, Table(rows), Role(rows), NEW s \in DOMAIN rows, NEW v \in AnyVersion,
         NEW e \in Content \cup {None},
         ~Executable(rows[s]) \/ \E t \in DOMAIN rows : rows[t].primary
  PROVE  Role(Select(rows, s, v, e))
<1> DEFINE P == Select(rows, s, v, e)
<1>1. /\ DOMAIN P = DOMAIN rows
      /\ \A t \in DOMAIN rows :
           /\ P[t].kind = rows[t].kind
           /\ P[t].current = IF t = s THEN v ELSE rows[t].current
           /\ P[t].primary = rows[t].primary
  BY SelectEffect
<1> HIDE DEF P
<1>2. /\ Able(rows) \subseteq Able(P)
      /\ ~Executable(rows[s]) => Able(P) = Able(rows)
  BY <1>1 DEF Able, Executable
<1>3. Role(P)
  BY <1>1, <1>2 DEF Role
<1>4. QED
  BY <1>3 DEF P

\* A row without a version has no part in it.
LEMMA AddedRole ==
  ASSUME NEW rows, Table(rows), Role(rows), NEW s, s \notin DOMAIN rows, NEW row \in AnyRow,
         ~row.primary, row.current = None
  PROVE  Role(Added(rows, s, row))
<1> DEFINE P == Added(rows, s, row)
<1>1. /\ DOMAIN P = DOMAIN rows \cup {s} /\ P[s] = row
      /\ \A t \in DOMAIN rows : P[t] = rows[t]
  BY DEF Added
<1> HIDE DEF P
<1>2. Able(P) = Able(rows)
  BY <1>1 DEF Able
<1>3. Role(P)
  BY <1>1, <1>2 DEF Role
<1>4. QED
  BY <1>3 DEF P

-----------------------------------------------------------------------------
(* Requests. *)

\* A request goes on with what its next step needs.
LEMMA GotoEffect ==
  ASSUME requests \in [Request -> AnyRequest], RequestsReady, NEW r \in Request,
         NEW q \in AnyRequest, Ready(q), requests' = [requests EXCEPT ![r] = q]
  PROVE  requests' \in [Request -> AnyRequest] /\ RequestsReady'
<1>1. \A x \in Request : requests'[x] = IF x = r THEN q ELSE requests[x]
  OBVIOUS
<1>2. ASSUME NEW x \in Request PROVE Ready(requests'[x])
  BY <1>1 DEF RequestsReady
<1>3. requests' \in [Request -> AnyRequest]
  OBVIOUS
<1>4. QED
  BY <1>2, <1>3 DEF RequestsReady, Request

\* An idle request needs nothing.
LEMMA IdleRequest == Idle \in AnyRequest /\ Ready(Idle)
  BY DEF Idle, AnyRequest, Ready, Step

\* Every read and every reply leaves a request with what it needs.
LEMMA RequestsStep ==
  ASSUME Shapes, RequestsReady, [Next]_vars
  PROVE  requests' \in [Request -> AnyRequest] /\ RequestsReady'
<1> DEFINE Goal == requests' \in [Request -> AnyRequest] /\ RequestsReady'
<1>0. requests \in [Request -> AnyRequest] /\ remote \in Content /\ routing \in Routing
  BY DEF Shapes
<1>1. ASSUME UNCHANGED requests PROVE Goal
  BY <1>0, <1>1 DEF RequestsReady
<1>2. ASSUME NEW r \in Request, Done(r) PROVE Goal
  BY <1>0, <1>2, IdleRequest, GotoEffect DEF Done
<1>3. ASSUME NEW r \in Request, NEW s \in Source, NEW d \in Definition, NEW p \in BOOLEAN,
             NEW c \in Content, BeginCreate(r, s, d, p, c)
      PROVE  Goal
  <2> DEFINE q == [Idle EXCEPT !.step = IF d.origin = "url" THEN "fetch_new" ELSE "create",
                               !.source = s, !.def = d, !.primary = p,
                               !.content = IF d.origin = "url" THEN None ELSE c]
  <2>1. q \in AnyRequest /\ Ready(q)
    BY DEF Idle, AnyRequest, Ready, Step
  <2>2. Goto(r, q)
    BY <1>3 DEF BeginCreate
  <2> HIDE DEF q
  <2>3. QED
    BY <1>0, <2>1, <2>2, GotoEffect DEF Goto
<1>4. ASSUME NEW r \in Request, NEW s \in Source, NEW c \in Content, BeginVersion(r, s, c) PROVE Goal
  <2> DEFINE q == [Idle EXCEPT !.step = "version", !.source = s, !.content = c]
  <2>1. q \in AnyRequest /\ Ready(q)
    BY DEF Idle, AnyRequest, Ready, Step
  <2>2. Goto(r, q)
    BY <1>4 DEF BeginVersion
  <2> HIDE DEF q
  <2>3. QED
    BY <1>0, <2>1, <2>2, GotoEffect DEF Goto
<1>5. ASSUME NEW r \in Request, NEW s \in Source, BeginRefresh(r, s) PROVE Goal
  <2> DEFINE q == [Idle EXCEPT !.step = "latest", !.source = s, !.etag = sources[s].etag]
  <2>0. sources[s].etag \in Content \cup {None}
    BY <1>5 DEF BeginRefresh, Shapes, AnyRow
  <2>1. q \in AnyRequest /\ Ready(q)
    BY <2>0 DEF Idle, AnyRequest, Ready, Step
  <2>2. Goto(r, q)
    BY <1>5 DEF BeginRefresh
  <2> HIDE DEF q
  <2>3. QED
    BY <1>0, <2>1, <2>2, GotoEffect DEF Goto
<1>6. ASSUME NEW r \in Request, FetchNew(r) PROVE Goal
  <2> DEFINE q == [requests[r] EXCEPT !.step = "create", !.content = remote,
                                      !.etag = Validator(remote)]
  <2>0. requests[r] \in AnyRequest /\ Ready(requests[r]) /\ requests[r].step = "fetch_new"
    BY <1>0, <1>6 DEF FetchNew, RequestsReady
  <2>1. q \in AnyRequest /\ Ready(q)
    BY <1>0, <2>0 DEF AnyRequest, Ready, Step, Validator
  <2>2. Goto(r, q)
    BY <1>6 DEF FetchNew
  <2> HIDE DEF q
  <2>3. QED
    BY <1>0, <2>1, <2>2, GotoEffect DEF Goto
<1>7. ASSUME NEW r \in Request, ReadLatest(r) PROVE Goal
  <2> DEFINE s == requests[r].source
             q == [requests[r] EXCEPT !.step = "fetch",
                     !.latest = IF s \in Live THEN sources[s].current ELSE None]
  <2>0. requests[r] \in AnyRequest /\ Ready(requests[r]) /\ requests[r].step = "latest"
    BY <1>0, <1>7 DEF ReadLatest, RequestsReady
  <2>1. (IF s \in Live THEN sources[s].current ELSE None) \in AnyVersion \cup {None}
    BY DEF Shapes, AnyRow
  <2>2. q \in AnyRequest /\ Ready(q)
    BY <2>0, <2>1, ZenonT(60) DEF AnyRequest, Ready, Step
  <2>3. Goto(r, q)
    BY <1>7 DEF ReadLatest
  <2> HIDE DEF q
  <2>4. QED
    BY <1>0, <2>2, <2>3, GotoEffect DEF Goto
<1>8. ASSUME NEW r \in Request, Fetch(r) PROVE Goal
  <2> DEFINE old == [requests[r] EXCEPT !.step = "observe"]
             new == [requests[r] EXCEPT !.step = "version", !.content = remote,
                                        !.etag = Validator(remote)]
  <2>0. requests[r] \in AnyRequest /\ Ready(requests[r]) /\ requests[r].step = "fetch"
    BY <1>0, <1>8 DEF Fetch, RequestsReady
  <2>1. old \in AnyRequest /\ Ready(old) /\ new \in AnyRequest /\ Ready(new)
    BY <1>0, <2>0 DEF AnyRequest, Ready, Step, Validator
  <2>2. Goto(r, old) \/ Goto(r, new)
    BY <1>8 DEF Fetch
  <2> HIDE DEF old, new
  <2>3. QED
    BY <1>0, <2>1, <2>2, GotoEffect DEF Goto
<1>9. ASSUME NEW r \in Request, BeginBuild(r) PROVE Goal
  <2> DEFINE q == [Idle EXCEPT !.step = "bindings", !.routing = routing]
  <2>1. q \in AnyRequest /\ Ready(q)
    BY <1>0 DEF Idle, AnyRequest, Ready, Step
  <2>2. Goto(r, q)
    BY <1>9 DEF BeginBuild
  <2> HIDE DEF q
  <2>3. QED
    BY <1>0, <2>1, <2>2, GotoEffect DEF Goto
<1>10. ASSUME NEW r \in Request, ReadBindings(r) PROVE Goal
  <2> DEFINE q == [requests[r] EXCEPT !.step = "build", !.bindings = Bindings]
  <2>0. requests[r] \in AnyRequest
    BY <1>0
  <2>1. Bindings \in SUBSET AnyBinding
    BY DEF Bindings, Binding, AnyBinding, Shapes, AnyRow, Versioned
  <2>2. q \in AnyRequest /\ Ready(q)
    BY <2>0, <2>1, ZenonT(60) DEF AnyRequest, Ready, Step
  <2>3. Goto(r, q)
    BY <1>10 DEF ReadBindings
  <2> HIDE DEF q
  <2>4. QED
    BY <1>0, <2>2, <2>3, GotoEffect DEF Goto
<1>11. ASSUME NEW r \in Request,
              PersistCreated(r) \/ Observe(r) \/ PersistVersion(r) \/ Abandon(r) \/ CommitBuild(r)
       PROVE  Done(r)
  BY <1>11 DEF PersistCreated, Observe, PersistVersion, Abandon, CommitBuild
<1>12. ASSUME NEW r \in Editor, Edit(r) PROVE Goal
  BY <1>2, <1>3, <1>4, <1>5, <1>6, <1>7, <1>8, <1>11, <1>12 DEF Edit, Request
<1>13. ASSUME NEW r \in Builder, Build(r) PROVE Goal
  BY <1>2, <1>9, <1>10, <1>11, <1>13 DEF Build, Request
<1>14. QED
  BY <1>1, <1>12, <1>13 DEF Next, vars, Create, Rename, MakePrimary, Delete, FinishBuild, Deploy, Sweep,
                            Publish, ChangeRouting

-----------------------------------------------------------------------------
(* Rows and versions. *)

\* The part of the invariant that sources, versions and stamp decide.
RowsInv ==
    /\ Live \subseteq Source /\ Table(sources)
    /\ versions \subseteq AnyVersion
    /\ Stamped /\ SelectsOwn /\ PrimaryRole /\ SelectionExists

\* Nine kinds of step write rows or versions.
LEMMA RowsMove ==
  ASSUME [Next]_vars
  PROVE  \/ UNCHANGED <<sources, versions, stamp>>
         \/ \E r \in Request : PersistCreated(r) \/ PersistVersion(r) \/ Observe(r)
         \/ \E s \in Source, d \in Definition : Create(s, d) \/ Rename(s, d.name)
         \/ \E s \in Source : MakePrimary(s) \/ Delete(s)
         \/ \E cutoff : Sweep(cutoff)
  BY ZenonT(60) DEF Next, vars, Edit, Build, Request, BeginCreate, BeginVersion, BeginRefresh, FetchNew,
         ReadLatest, Fetch, Abandon, BeginBuild, ReadBindings, CommitBuild, FinishBuild, Deploy,
         Publish, ChangeRouting

\* The version for a content is the one that is there, or a new one.
LEMMA VersionForEffect ==
  ASSUME versions \subseteq AnyVersion, stamp \in Nat, NEW s \in Source, NEW c \in Content
  PROVE  /\ VersionFor(s, c) \in AnyVersion
         /\ VersionFor(s, c).source = s /\ VersionFor(s, c).content = c
         /\ \/ VersionFor(s, c) \in versions
            \/ /\ VersionFor(s, c).born = stamp + 1
               /\ ~\E v \in versions : v.source = s /\ v.content = c
<1> DEFINE known == {v \in versions : v.source = s /\ v.content = c}
<1>1. CASE known # {}
  BY <1>1 DEF VersionFor
<1>2. CASE known = {}
  BY <1>2 DEF VersionFor, AnyVersion
<1>3. QED
  BY <1>1, <1>2

\* A table after a version was selected, and its source promoted if the role is vacant.
Persisted(base, s, v, e, P) ==
    \/ P = Promote(Select(base, s, v, e), s) /\ Executable(base[s])
    \/ /\ P = Select(base, s, v, e)
       /\ ~Executable(base[s]) \/ \E t \in DOMAIN base : base[t].primary

\* Such a table is as good as before.
LEMMA PersistedEffect ==
  ASSUME NEW base, Table(base), Role(base), NEW s \in DOMAIN base, NEW v \in AnyVersion,
         NEW e \in Content \cup {None}, NEW P, Persisted(base, s, v, e, P)
  PROVE  /\ DOMAIN P = DOMAIN base /\ Table(P) /\ Role(P)
         /\ \A t \in DOMAIN base :
              P[t].born = base[t].born
              /\ P[t].current = IF t = s THEN v ELSE base[t].current
<1> DEFINE rows == Select(base, s, v, e)
<1>1. /\ DOMAIN rows = DOMAIN base /\ Table(rows)
      /\ \A t \in DOMAIN base :
           /\ rows[t].kind = base[t].kind /\ rows[t].primary = base[t].primary
           /\ rows[t].born = base[t].born
           /\ rows[t].current = IF t = s THEN v ELSE base[t].current
  BY SelectEffect
<1>2. CASE P = rows /\ (~Executable(base[s]) \/ \E t \in DOMAIN base : base[t].primary)
  BY <1>1, <1>2, SelectRole
<1>3. CASE P = Promote(rows, s) /\ Executable(base[s])
  <2> HIDE DEF rows
  <2>1. s \in Able(rows) /\ \A t \in DOMAIN rows : rows[t].primary => Executable(rows[t])
    BY <1>1, <1>3 DEF Able, Executable, Role
  <2>2. Role(P)
    BY <1>1, <1>3, <2>1, PromoteRole
  <2>3. /\ DOMAIN P = DOMAIN rows /\ Table(P)
        /\ \A t \in DOMAIN rows : P[t].current = rows[t].current /\ P[t].born = rows[t].born
    BY <1>1, <1>3, PromoteEffect
  <2>4. QED
    BY <1>1, <2>2, <2>3
<1>4. QED
  BY <1>2, <1>3 DEF Persisted

\* The transactions that store a version, with the source there or new.
LEMMA PersistStep ==
  ASSUME RowsInv, NEW s \in Source, NEW c \in Content, NEW e \in Content \cup {None}, NEW base,
         Table(base), Role(base), DOMAIN base = Live \cup {s},
         \A t \in Live : base[t] = sources[t],
         s \notin Live => base[s].born = stamp + 1,
         Persisted(base, s, VersionFor(s, c), e, sources'),
         versions' = versions \cup {VersionFor(s, c)},
         stamp' = Max({stamp, VersionFor(s, c).born})
  PROVE  RowsInv'
<1> DEFINE v == VersionFor(s, c)
<1>1. /\ v \in AnyVersion /\ v.source = s /\ v.content = c
      /\ \/ v \in versions
         \/ v.born = stamp + 1 /\ ~\E w \in versions : w.source = s /\ w.content = c
  BY VersionForEffect DEF RowsInv, Stamped
<1>2. stamp \in Nat /\ v.born \in Nat
  BY <1>1 DEF RowsInv, Stamped, AnyVersion
<1> HIDE DEF v
<1>3. stamp' \in Nat /\ stamp <= stamp' /\ v.born <= stamp'
  BY <1>2, MaxOfTwo DEF v
<1>4. /\ DOMAIN sources' = Live \cup {s} /\ Table(sources') /\ Role(sources')
      /\ \A t \in Live \cup {s} :
           sources'[t].born = base[t].born
           /\ sources'[t].current = IF t = s THEN v ELSE base[t].current
  <2>1. Persisted(base, s, v, e, sources') /\ s \in DOMAIN base
    BY DEF v
  <2>2. QED
    BY <1>1, <2>1, PersistedEffect
<1>5. Live' = Live \cup {s} /\ versions' = versions \cup {v}
  BY <1>4 DEF Live, v
<1>6. s \notin Live => v.born = stamp + 1
  BY <1>1 DEF RowsInv, SelectionExists
<1>7. Stamped'
  <2>1. ASSUME NEW t \in Live PROVE sources'[t].born <= stamp'
    <3>1. sources[t].born \in Nat /\ sources[t].born <= stamp
      BY DEF RowsInv, Stamped, Table, AnyRow, Live
    <3>2. sources'[t].born = sources[t].born
      BY <1>4
    <3>3. QED
      BY <1>2, <1>3, <3>1, <3>2
  <2>2. s \notin Live => sources'[s].born <= stamp'
    BY <1>2, <1>3, <1>4, <1>6
  <2>3. QED
    BY <1>3, <1>5, <2>1, <2>2 DEF Stamped
<1>8. SelectsOwn' /\ SelectionExists'
  <2>1. ASSUME NEW t \in Live', sources'[t].current # None
        PROVE  sources'[t].current.source = t /\ sources'[t].current \in versions'
    BY <1>1, <1>4, <1>5, <2>1 DEF RowsInv, SelectsOwn, SelectionExists, Versioned
  <2>2. ASSUME NEW x \in versions' PROVE x.source \in Live'
    BY <1>1, <1>5, <2>2 DEF RowsInv, SelectionExists
  <2>3. ASSUME NEW x \in versions', NEW y \in versions', x.source = y.source, x.content = y.content
        PROVE  x = y
    BY <1>1, <1>5, <2>3 DEF RowsInv, SelectionExists
  <2>4. QED
    BY <2>1, <2>2, <2>3 DEF SelectsOwn, SelectionExists, Versioned
<1>9. PrimaryRole'
  BY <1>4 DEF PrimaryRole, Role, Able, VersionedExecutables, Versioned, Live
<1>10. QED
  BY <1>1, <1>4, <1>5, <1>7, <1>8, <1>9 DEF RowsInv

\* _persist_version: the source is there.
LEMMA PersistVersionStep ==
  ASSUME RowsInv, Shapes, RequestsReady, NEW r \in Request, PersistVersion(r)
  PROVE  RowsInv'
<1> DEFINE s == requests[r].source
           c == requests[r].content
           e == requests[r].etag
           v == VersionFor(s, c)
<1>1. s \in Source /\ c \in Content /\ e \in Content \cup {None}
  BY DEF PersistVersion, RequestsReady, Ready, Shapes, AnyRequest
<1>2. CASE s \notin Live
  <2>1. UNCHANGED <<sources, versions, stamp>>
    BY <1>2 DEF PersistVersion
  <2>2. QED
    BY <2>1 DEF RowsInv, Live, Stamped, SelectsOwn, PrimaryRole, SelectionExists, Versioned,
                VersionedExecutables
<1>3. CASE s \in Live
  <2>1. /\ sources' = IF Executable(sources[s]) /\ VersionedPrimaries = {}
                       THEN Promote(Select(sources, s, v, e), s) ELSE Select(sources, s, v, e)
        /\ versions' = versions \cup {v} /\ stamp' = Max({stamp, v.born})
    BY <1>3 DEF PersistVersion
  <2>2. Table(sources) /\ Role(sources) /\ DOMAIN sources = Live \cup {s}
    BY <1>3, RoleOfSources DEF RowsInv, Live
  <2>3. VersionedPrimaries # {} => \E t \in DOMAIN sources : sources[t].primary
    BY DEF VersionedPrimaries, VersionedExecutables, Live
  <2>4. Persisted(sources, s, v, e, sources')
    BY <2>1, <2>3 DEF Persisted
  <2> HIDE DEF s, c, e
  <2>5. QED
    BY <1>1, <1>3, <2>1, <2>2, <2>4, PersistStep DEF v
<1>4. QED
  BY <1>2, <1>3

\* _persist_created_source: the source is there or is added without a version.
LEMMA PersistCreatedStep ==
  ASSUME RowsInv, Shapes, RequestsReady, NEW r \in Request, PersistCreated(r)
  PROVE  RowsInv'
<1> DEFINE q == requests[r]
           s == q.source
           c == q.content
           e == q.etag
           v == VersionFor(s, c)
           new == s \notin Live
           row == IF new THEN NewRow(q.def, stamp + 1) ELSE sources[s]
           base == Added(sources, s, row)
           inherits == /\ new
                       /\ Group(q.def.name, q.def.kind, {}) # {}
                       /\ sources[LatestInGroup(q.def.name, q.def.kind, {})].primary
           promoted == Executable(row) /\ (q.primary \/ VersionedPrimaries = {} \/ inherits)
<1>1. s \in Source /\ c \in Content /\ e \in Content \cup {None} /\ q.def \in Definition
  BY DEF PersistCreated, RequestsReady, Ready, Shapes, AnyRequest
<1>2. CASE UNCHANGED <<sources, versions, stamp>>
  BY <1>2 DEF RowsInv, Live, Stamped, SelectsOwn, PrimaryRole, SelectionExists, Versioned,
              VersionedExecutables
<1>3. CASE ~UNCHANGED <<sources, versions, stamp>>
  <2>1. /\ sources' = IF promoted THEN Promote(Select(base, s, v, e), s)
                       ELSE Select(base, s, v, e)
        /\ versions' = versions \cup {v} /\ stamp' = Max({stamp, v.born})
    BY <1>3 DEF PersistCreated
  <2>2. Table(sources) /\ Role(sources) /\ DOMAIN sources = Live /\ stamp + 1 \in Nat
    BY RoleOfSources DEF RowsInv, Live, Stamped
  <2>3. row \in AnyRow /\ (new => row.born = stamp + 1 /\ ~row.primary /\ row.current = None)
    BY <1>1, <2>2, NewRowType DEF NewRow, Table
  <2> HIDE DEF row
  <2>4. /\ DOMAIN base = Live \cup {s} /\ Table(base) /\ base[s] = row
        /\ \A t \in Live : t # s => base[t] = sources[t]
    BY <2>2, <2>3 DEF Added, Table
  <2>5. Role(base) /\ \A t \in Live : base[t] = sources[t]
    <3>1. CASE new
      BY <2>2, <2>3, <2>4, <3>1, AddedRole
    <3>2. CASE ~new
      <4>1. row = sources[s] /\ Live \cup {s} = Live
        BY <3>2 DEF row
      <4>2. base = sources
        BY <2>2, <2>4, <4>1 DEF Added, Table
      <4>3. QED
        BY <2>2, <4>2
    <3>3. QED
      BY <3>1, <3>2
  <2> HIDE DEF base
  <2>6. VersionedPrimaries # {} => \E t \in DOMAIN base : base[t].primary
    BY <2>4, <2>5 DEF VersionedPrimaries, VersionedExecutables
  <2>7. Persisted(base, s, v, e, sources')
    BY <2>1, <2>4, <2>6 DEF Persisted
  <2>8. s \notin Live => base[s].born = stamp + 1
    BY <2>3, <2>4
  <2> HIDE DEF q, s, c, e
  <2>9. QED
    BY <1>1, <2>1, <2>4, <2>5, <2>7, <2>8, PersistStep DEF v
<1>4. QED
  BY <1>2, <1>3

\* create: a row without a version.
LEMMA CreateStep ==
  ASSUME RowsInv, NEW s \in Source, NEW d \in Definition, Create(s, d)
  PROVE  RowsInv'
<1> DEFINE row == NewRow(d, stamp + 1)
<1>1. /\ s \notin Live /\ sources' = Added(sources, s, row)
      /\ stamp' = stamp + 1 /\ versions' = versions /\ stamp \in Nat
  BY DEF Create, RowsInv, Stamped
<1>2. row \in AnyRow /\ ~row.primary /\ row.current = None /\ row.born = stamp + 1
  BY <1>1, NewRowType DEF NewRow
<1> HIDE DEF row
<1>3. Table(sources) /\ Role(sources) /\ DOMAIN sources = Live
  BY RoleOfSources DEF RowsInv, Live
<1>4. Role(sources')
  BY <1>1, <1>2, <1>3, AddedRole
<1>5. /\ DOMAIN sources' = Live \cup {s} /\ Table(sources') /\ sources'[s] = row
      /\ \A t \in Live : sources'[t] = sources[t]
  BY <1>1, <1>2, <1>3 DEF Added, Table
<1>6. Live' = Live \cup {s}
  BY <1>5 DEF Live
<1>7. Stamped'
  <2>1. \A t \in Live : sources[t].born \in Nat /\ sources[t].born <= stamp
    BY <1>3 DEF RowsInv, Stamped, Table, AnyRow
  <2>2. QED
    BY <1>1, <1>2, <1>5, <1>6, <2>1 DEF Stamped
<1>8. SelectsOwn' /\ SelectionExists'
  BY <1>1, <1>2, <1>5, <1>6 DEF RowsInv, SelectsOwn, SelectionExists, Versioned
<1>9. PrimaryRole'
  BY <1>4 DEF PrimaryRole, Role, Able, VersionedExecutables, Versioned, Live
<1>10. QED
  BY <1>1, <1>5, <1>6, <1>7, <1>8, <1>9 DEF RowsInv

\* A change that touches neither kinds nor versions leaves the rest to the role.
LEMMA SameVersionsStep ==
  ASSUME RowsInv, UNCHANGED <<versions, stamp>>, DOMAIN sources' = Live, Table(sources'), Role(sources'),
         \A t \in Live : /\ sources'[t].current = sources[t].current
                         /\ sources'[t].born = sources[t].born
  PROVE  RowsInv'
<1>1. Live' = Live
  BY DEF Live
<1>2. Stamped' /\ SelectsOwn' /\ SelectionExists'
  BY <1>1 DEF RowsInv, Stamped, SelectsOwn, SelectionExists, Versioned
<1>3. PrimaryRole'
  BY DEF PrimaryRole, Role, Able, VersionedExecutables, Versioned, Live
<1>4. QED
  BY <1>1, <1>2, <1>3 DEF RowsInv

\* update and observe_not_modified write one field.
LEMMA UpdateStep ==
  ASSUME RowsInv, Shapes, RequestsReady,
         \/ \E s \in Source, d \in Definition : Rename(s, d.name)
         \/ \E s \in Source : MakePrimary(s)
         \/ \E r \in Request : Observe(r)
  PROVE  RowsInv'
<1>0. Table(sources) /\ Role(sources) /\ DOMAIN sources = Live
  BY RoleOfSources DEF RowsInv, Live
<1>1. ASSUME UNCHANGED <<versions, stamp>>, DOMAIN sources' = Live, Table(sources'),
             \A t \in Live : /\ sources'[t].current = sources[t].current
                             /\ sources'[t].born = sources[t].born
                             /\ sources'[t].kind = sources[t].kind
                             /\ sources'[t].primary = sources[t].primary
      PROVE  RowsInv'
  <2>1. Able(sources') = Able(sources)
    BY <1>0, <1>1 DEF Able, Executable
  <2>2. Role(sources')
    BY <1>0, <1>1, <2>1 DEF Role
  <2>3. QED
    BY <1>1, <2>2, SameVersionsStep
<1>2. ASSUME NEW s \in Source, NEW d \in Definition, Rename(s, d.name) PROVE RowsInv'
  <2>1. sources' = [sources EXCEPT ![s].name = d.name] /\ s \in Live
    BY <1>2 DEF Rename
  <2>2. d.name \in AnyName /\ sources[s] \in AnyRow
    BY <1>0, <2>1 DEF AnyName, Table
  <2>3. [sources[s] EXCEPT !.name = d.name] \in AnyRow
    BY <2>2 DEF AnyRow
  <2>4. DOMAIN sources' = Live /\ Table(sources')
    BY <1>0, <2>1, <2>3 DEF Table
  <2>5. \A t \in Live : /\ sources'[t].current = sources[t].current
                        /\ sources'[t].born = sources[t].born
                        /\ sources'[t].kind = sources[t].kind
                        /\ sources'[t].primary = sources[t].primary
    BY <1>0, <2>1, <2>2 DEF Table, AnyRow
  <2>6. QED
    BY <1>1, <1>2, <2>4, <2>5 DEF Rename
<1>3. ASSUME NEW s \in Source, MakePrimary(s) PROVE RowsInv'
  <2>1. s \in Able(sources) /\ sources' = Promote(sources, s) /\ s \in DOMAIN sources
    BY <1>3, RoleOfSources DEF MakePrimary, VersionedExecutables, Live
  <2>2. Role(sources')
    BY <1>0, <2>1, PromoteRole DEF Role, Able
  <2>3. /\ DOMAIN sources' = Live /\ Table(sources')
        /\ \A t \in Live : /\ sources'[t].current = sources[t].current
                           /\ sources'[t].born = sources[t].born
    BY <1>0, <2>1, PromoteEffect
  <2>4. QED
    BY <1>3, <2>2, <2>3, SameVersionsStep DEF MakePrimary
<1>4. ASSUME NEW r \in Request, Observe(r) PROVE RowsInv'
  <2> DEFINE s == requests[r].source
             e == requests[r].etag
  <2>1. e \in Content \cup {None}
    BY DEF Shapes, AnyRequest
  <2>2. CASE sources' = sources
    BY <1>0, <1>1, <1>4, <2>2 DEF Observe
  <2>3. CASE s \in Live /\ sources' = [sources EXCEPT ![s].etag = e]
    <3> HIDE DEF s, e
    <3>1. sources[s] \in AnyRow
      BY <1>0, <2>3 DEF Table
    <3>2. [sources[s] EXCEPT !.etag = e] \in AnyRow
      BY <2>1, <3>1 DEF AnyRow
    <3>3. DOMAIN sources' = Live /\ Table(sources')
      BY <1>0, <2>3, <3>2 DEF Table
    <3>4. \A t \in Live : /\ sources'[t].current = sources[t].current
                          /\ sources'[t].born = sources[t].born
                          /\ sources'[t].kind = sources[t].kind
                          /\ sources'[t].primary = sources[t].primary
      BY <1>0, <2>3, <3>1 DEF Table, AnyRow
    <3>5. QED
      BY <1>1, <1>4, <3>3, <3>4 DEF Observe
  <2>4. QED
    BY <1>4, <2>2, <2>3 DEF Observe
<1>5. QED
  BY <1>2, <1>3, <1>4

\* delete: an heir takes the role over, if there is any.
LEMMA DeleteStep ==
  ASSUME RowsInv, Shapes, NEW s \in Source, Delete(s)
  PROVE  RowsInv'
<1> DEFINE rows == Without(sources, s)
           heirs == IF sources[s].primary THEN Replacement(s) ELSE {}
<1>0. Table(sources) /\ Role(sources) /\ DOMAIN sources = Live /\ s \in Live
  BY RoleOfSources DEF RowsInv, Live, Delete
<1>1. /\ sources' = IF heirs = {} THEN rows ELSE Promote(rows, CHOOSE t \in heirs : TRUE)
      /\ versions' = {v \in versions : v.source # s} /\ stamp' = stamp
  BY DEF Delete
<1>2. /\ DOMAIN rows = Live \ {s} /\ Table(rows)
      /\ \A t \in Live \ {s} : rows[t] = sources[t]
  BY <1>0 DEF Without, Table
<1>3. Able(rows) = VersionedExecutables({s})
  BY <1>2 DEF Able, VersionedExecutables, Versioned
<1>4. \A t \in DOMAIN rows : rows[t].primary => t \in Able(rows)
  BY <1>0, <1>2 DEF Role, Able
<1>5. sources[s].primary => /\ heirs \subseteq Able(rows)
                            /\ heirs = {} => Able(rows) = {}
  BY <1>0, <1>3, ReplacementFits DEF Role, Able, RowsInv
<1> HIDE DEF rows, heirs
<1>6. /\ DOMAIN sources' = Live \ {s} /\ Table(sources') /\ Role(sources')
      /\ \A t \in Live \ {s} : /\ sources'[t].current = sources[t].current
                               /\ sources'[t].born = sources[t].born
  <2>1. CASE heirs = {}
    <3>1. sources' = rows
      BY <1>1, <2>1
    <3>2. Able(rows) # {} => \E t \in DOMAIN rows : rows[t].primary
      <4>1. SUFFICES ASSUME Able(rows) # {} PROVE \E t \in DOMAIN rows : rows[t].primary
        OBVIOUS
      <4>2. ~sources[s].primary
        BY <1>5, <2>1, <4>1
      <4>3. Able(sources) # {}
        BY <1>0, <1>2, <4>1 DEF Able
      <4>4. PICK t \in Live : sources[t].primary
        BY <1>0, <4>3 DEF Role
      <4>5. t \in Live \ {s}
        BY <4>2, <4>4
      <4>6. QED
        BY <1>2, <4>4, <4>5
    <3>3. \A t, u \in DOMAIN rows : rows[t].primary /\ rows[u].primary => t = u
      BY <1>0, <1>2 DEF Role
    <3>4. QED
      BY <1>2, <1>4, <3>1, <3>2, <3>3 DEF Role
  <2>2. CASE heirs # {}
    <3>1. PICK h \in heirs : sources' = Promote(rows, h)
      BY <1>1, <2>2
    <3>2. h \in Able(rows) /\ h \in DOMAIN rows
      BY <1>5, <2>2 DEF Able, heirs
    <3>3. \A t \in DOMAIN rows : rows[t].primary => Executable(rows[t])
      BY <1>4 DEF Able
    <3>4. Role(sources')
      BY <1>2, <3>1, <3>2, <3>3, PromoteRole
    <3>5. /\ DOMAIN sources' = DOMAIN rows /\ Table(sources')
          /\ \A t \in DOMAIN rows : /\ sources'[t].current = rows[t].current
                                    /\ sources'[t].born = rows[t].born
      BY <1>2, <3>1, <3>2, PromoteEffect
    <3>6. QED
      BY <1>2, <3>4, <3>5
  <2>3. QED
    BY <2>1, <2>2
<1>7. Live' = Live \ {s}
  BY <1>6 DEF Live
<1>8. Stamped'
  BY <1>1, <1>6, <1>7 DEF RowsInv, Stamped
<1>9. SelectsOwn' /\ SelectionExists'
  <2>1. ASSUME NEW t \in Live', sources'[t].current # None
        PROVE  sources'[t].current.source = t /\ sources'[t].current \in versions'
    BY <1>1, <1>6, <1>7, <2>1 DEF RowsInv, SelectsOwn, SelectionExists, Versioned
  <2>2. ASSUME NEW x \in versions', NEW y \in versions'
        PROVE  x.source \in Live' /\ (x.source = y.source /\ x.content = y.content => x = y)
    BY <1>1, <1>7, <2>2 DEF RowsInv, SelectionExists
  <2>3. QED
    BY <2>1, <2>2 DEF SelectsOwn, SelectionExists, Versioned
<1>10. PrimaryRole'
  BY <1>6 DEF PrimaryRole, Role, Able, VersionedExecutables, Versioned, Live
<1>11. QED
  BY <1>1, <1>6, <1>7, <1>8, <1>9, <1>10 DEF RowsInv

\* The sweep takes no selected version.
LEMMA SweepStep ==
  ASSUME RowsInv, NEW cutoff, Sweep(cutoff)
  PROVE  RowsInv'
<1>1. /\ sources' = sources /\ stamp' = stamp /\ versions' \subseteq versions
      /\ \A s \in Live : sources[s].current \notin versions \ versions'
  BY DEF Sweep, SelectionIntact
<1>2. Live' = Live
  BY <1>1 DEF Live
<1>3. SelectsOwn' /\ SelectionExists' /\ Stamped' /\ PrimaryRole'
  BY <1>1, <1>2 DEF RowsInv, SelectsOwn, SelectionExists, Stamped, PrimaryRole, Versioned,
                    VersionedExecutables
<1>4. QED
  BY <1>1, <1>2, <1>3 DEF RowsInv

\* Every step keeps rows and versions in order.
LEMMA RowsStep ==
  ASSUME RowsInv, Shapes, RequestsReady, [Next]_vars
  PROVE  RowsInv'
<1>1. CASE UNCHANGED <<sources, versions, stamp>>
  BY <1>1 DEF RowsInv, Live, Stamped, SelectsOwn, PrimaryRole, SelectionExists, Versioned,
              VersionedExecutables
<1>2. ASSUME NEW r \in Request, PersistCreated(r) \/ PersistVersion(r) PROVE RowsInv'
  BY <1>2, PersistCreatedStep, PersistVersionStep
<1>3. ASSUME NEW s \in Source, NEW d \in Definition, Create(s, d) PROVE RowsInv'
  BY <1>3, CreateStep
<1>4. ASSUME NEW s \in Source, Delete(s) PROVE RowsInv'
  BY <1>4, DeleteStep
<1>5. ASSUME NEW cutoff, Sweep(cutoff) PROVE RowsInv'
  BY <1>5, SweepStep
<1>6. QED
  BY <1>1, <1>2, <1>3, <1>4, <1>5, RowsMove, UpdateStep

-----------------------------------------------------------------------------
(* Builds. *)

\* The part of the invariant that is about builds.
BuildsInv ==
    /\ \A b \in builds : b = [sequence |-> b.sequence, status |-> b.status,
                              bindings |-> b.bindings, routing |-> b.routing]
    /\ PinsKept /\ RoutableBuilds

\* Builds are committed, finished and swept.
LEMMA BuildsMove ==
  ASSUME [Next]_vars
  PROVE  \/ UNCHANGED <<builds, deployed>>
         \/ \E r \in Request : CommitBuild(r)
         \/ \E b \in builds, status \in Terminal : FinishBuild(b, status)
         \/ \E b \in builds : Deploy(b)
         \/ \E cutoff : Sweep(cutoff)
<1>1. \A r : PersistCreated(r) \/ PersistVersion(r) \/ Observe(r) => UNCHANGED <<builds, deployed>>
  BY DEF PersistCreated, PersistVersion, Observe
<1>2. \A r \in Editor : Edit(r) => UNCHANGED <<builds, deployed>>
  BY <1>1, ZenonT(60) DEF Edit, BeginCreate, BeginVersion, BeginRefresh, FetchNew, ReadLatest, Fetch, Abandon
<1>3. \A r \in Builder : Build(r) => UNCHANGED <<builds, deployed>> \/ CommitBuild(r)
  BY DEF Build, BeginBuild, ReadBindings, Abandon
<1>4. QED
  BY <1>2, <1>3 DEF Next, vars, Request, Create, Rename, MakePrimary, Delete, Publish, ChangeRouting

\* The only steps that take versions away are the two deletions.
LEMMA VersionsShrink ==
  ASSUME [Next]_vars
  PROVE  versions \subseteq versions' \/ (\E s \in Source : Delete(s)) \/ (\E cutoff : Sweep(cutoff))
<1>1. \A r : PersistCreated(r) \/ PersistVersion(r) => versions \subseteq versions'
  BY DEF PersistCreated, PersistVersion
<1>2. QED
  BY <1>1, RowsMove DEF Create, Rename, MakePrimary, Observe

\* A build is committed with what is selected, and keeps it.
LEMMA BuildsStep ==
  ASSUME RowsInv, BuildsInv, [Next]_vars
  PROVE  BuildsInv'
<1>1. ASSUME UNCHANGED <<builds, deployed>>,
             \A b \in builds : \A x \in b.bindings : x.version \in versions'
      PROVE  BuildsInv'
  BY <1>1 DEF BuildsInv, PinsKept, RoutableBuilds
<1>2. ASSUME NEW r \in Request, CommitBuild(r) PROVE BuildsInv'
  <2> DEFINE q == requests[r]
             n == [sequence |-> NextSequence, status |-> "ACTIVE",
                   bindings |-> Bindings, routing |-> routing]
  <2>1. UNCHANGED <<sources, versions, deployed, routing>>
    BY <1>2 DEF CommitBuild
  <2>2. CASE builds' = builds
    BY <1>1, <2>1, <2>2 DEF BuildsInv, PinsKept
  <2>3. CASE builds' # builds
    <3>1. /\ builds' = builds \cup {n}
          /\ Fingerprint(q.bindings, q.routing) = Fingerprint(Bindings, routing)
          /\ RoutingComplete(q.bindings, q.routing)
          /\ Cardinality(PrimaryOf(Bindings)) = 1
      BY <1>2, <2>3 DEF CommitBuild
    <3>2. RoutingComplete(Bindings, routing)
      BY <3>1 DEF Fingerprint
    <3>3. /\ n.bindings = Bindings /\ n.routing = routing
          /\ n = [sequence |-> n.sequence, status |-> n.status,
                  bindings |-> n.bindings, routing |-> n.routing]
      OBVIOUS
    <3>4. \A x \in Bindings : x.version \in versions
      BY DEF Bindings, Binding, Versioned, RowsInv, SelectionExists
    <3> HIDE DEF n
    <3>5. \A b \in builds' :
            /\ b = [sequence |-> b.sequence, status |-> b.status,
                    bindings |-> b.bindings, routing |-> b.routing]
            /\ \A x \in b.bindings : x.version \in versions
            /\ Cardinality(PrimaryOf(b.bindings)) = 1
            /\ RoutingComplete(b.bindings, b.routing)
      BY <3>1, <3>2, <3>3, <3>4 DEF BuildsInv, PinsKept, RoutableBuilds
    <3>6. QED
      BY <2>1, <3>1, <3>5 DEF BuildsInv, PinsKept, RoutableBuilds
  <2>4. QED
    BY <2>2, <2>3
<1>3. ASSUME NEW b \in builds, NEW status \in Terminal, FinishBuild(b, status) PROVE BuildsInv'
  <2> DEFINE n == [b EXCEPT !.status = status]
  <2>1. n = [sequence |-> b.sequence, status |-> status,
             bindings |-> b.bindings, routing |-> b.routing]
    BY DEF BuildsInv
  <2>2. /\ n.bindings = b.bindings /\ n.routing = b.routing /\ n.sequence = b.sequence
        /\ n = [sequence |-> n.sequence, status |-> n.status,
                bindings |-> n.bindings, routing |-> n.routing]
    BY <2>1
  <2>3. builds' = (builds \ {b}) \cup {n} /\ UNCHANGED <<versions, deployed>>
    BY <1>3 DEF FinishBuild
  <2> HIDE DEF n
  <2>4. QED
    BY <2>2, <2>3 DEF BuildsInv, PinsKept, RoutableBuilds
<1>4. ASSUME NEW b \in builds, Deploy(b) PROVE BuildsInv'
  BY <1>4 DEF Deploy, BuildsInv, PinsKept, RoutableBuilds
<1>5. ASSUME NEW cutoff, Sweep(cutoff) PROVE BuildsInv'
  <2>1. /\ builds' = builds \ BuildCandidates /\ deployed' = deployed
        /\ versions' = versions \ VersionCandidates(cutoff)
    BY <1>5 DEF Sweep
  <2>2. \A b \in builds' : \A x \in b.bindings : x.version \in versions'
    BY <2>1 DEF BuildsInv, PinsKept, VersionCandidates
  <2>3. \A n \in deployed : \E b \in builds' : b.sequence = n
    BY <2>1 DEF BuildsInv, PinsKept, BuildCandidates, Protected
  <2>4. QED
    BY <2>1, <2>2, <2>3 DEF BuildsInv, PinsKept, RoutableBuilds
<1>6. ASSUME UNCHANGED <<builds, deployed>>, NEW s \in Source, Delete(s)
      PROVE  \A b \in builds : \A x \in b.bindings : x.version \in versions'
  BY <1>6 DEF Delete, BuildsInv, PinsKept
<1>7. CASE UNCHANGED <<builds, deployed>>
  <2>1. versions \subseteq versions' => \A b \in builds : \A x \in b.bindings : x.version \in versions'
    BY DEF BuildsInv, PinsKept
  <2>2. QED
    BY <1>1, <1>5, <1>6, <1>7, <2>1, VersionsShrink
<1>8. QED
  BY <1>2, <1>3, <1>4, <1>5, <1>7, BuildsMove

-----------------------------------------------------------------------------
(* The theorems. *)

\* A project starts without sources.
LEMMA InitIInv == Init => IInv
<1> SUFFICES ASSUME Init PROVE IInv
  OBVIOUS
<1>1. DOMAIN sources = {} /\ sources \in [{} -> AnyRow]
  BY DEF Init
<1>2. Live = {}
  BY <1>1 DEF Live
<1>3. Shapes
  BY <1>1, <1>2, IdleRequest DEF Init, Shapes
<1>4. RequestsReady
  BY IdleRequest DEF Init, RequestsReady
<1>5. Stamped /\ SelectsOwn /\ PrimaryRole /\ SelectionExists
  BY <1>2 DEF Init, Stamped, SelectsOwn, PrimaryRole, SelectionExists, VersionedExecutables
<1>6. PinsKept /\ RoutableBuilds
  BY DEF Init, PinsKept, RoutableBuilds
<1>7. QED
  BY <1>3, <1>4, <1>5, <1>6 DEF IInv

\* The inductive invariant is kept by every step.
LEMMA StepIInv == IInv /\ [Next]_vars => IInv'
<1> SUFFICES ASSUME IInv, [Next]_vars PROVE IInv'
  OBVIOUS
<1>1. RowsInv /\ BuildsInv /\ Shapes /\ RequestsReady
  BY DEF IInv, RowsInv, BuildsInv, Shapes, Table, Live
<1>2. RowsInv' /\ BuildsInv'
  BY <1>1, RowsStep, BuildsStep
<1>3. requests' \in [Request -> AnyRequest] /\ RequestsReady'
  BY <1>1, RequestsStep
<1>4. remote' \in Content /\ routing' \in Routing
  BY <1>1, ZenonT(60) DEF Shapes, Next, vars, Edit, Build, BeginCreate, BeginVersion, BeginRefresh, FetchNew,
              PersistCreated, PersistVersion, Observe, ReadLatest, Fetch, Abandon, BeginBuild,
              ReadBindings, CommitBuild, Create, Rename, MakePrimary, Delete, FinishBuild, Deploy,
              Sweep, Publish, ChangeRouting
<1>5. Shapes'
  BY <1>2, <1>3, <1>4 DEF Shapes, RowsInv, BuildsInv, Table, Live, Request
<1>6. QED
  BY <1>2, <1>3, <1>5 DEF IInv, RowsInv, BuildsInv

\* Whatever requests create, supersede, rename, promote, refresh and delete, in any
\* number and order: exactly one executable source is primary as soon as one has a
\* version, and it has one (SourceRepository.set_primary, SourceService.delete).
THEOREM PrimaryIsUnique == Spec => []OnePrimary
<1>1. IInv => OnePrimary
  <2> SUFFICES ASSUME IInv, VersionedExecutables({}) # {}
               PROVE  LET primaries == {s \in Live : Executable(sources[s]) /\ sources[s].primary}
                      IN  Cardinality(primaries) = 1 /\ primaries \subseteq VersionedExecutables({})
    BY DEF OnePrimary
  <2> DEFINE primaries == {s \in Live : Executable(sources[s]) /\ sources[s].primary}
  <2>1. PICK p \in Live : sources[p].primary
    BY DEF IInv, PrimaryRole
  <2>2. primaries = {p} /\ primaries \subseteq VersionedExecutables({})
    BY <2>1 DEF IInv, PrimaryRole, VersionedExecutables
  <2> HIDE DEF primaries
  <2>3. Cardinality(primaries) = 1
    BY <2>2, FS_Singleton
  <2>4. QED
    BY <2>2, <2>3 DEF primaries
<1>2. QED
  BY InitIInv, StepIInv, <1>1, PTL DEF Spec

\* The versions of a build outlive it, and so does the build a deployment needs,
\* whichever sources are deleted and whatever the retention sweep removes.
THEOREM PinsAreKept == Spec => []PinsKept
<1>1. IInv => PinsKept
  BY DEF IInv
<1>2. QED
  BY InitIInv, StepIInv, <1>1, PTL DEF Spec

\* A build freezes bindings and routing that fit together, although discovery read
\* them in two sessions before (BuildService.create, fingerprint comparison).
THEOREM BuildsAreRoutable == Spec => []RoutableBuilds
<1>1. IInv => RoutableBuilds
  BY DEF IInv
<1>2. QED
  BY InitIInv, StepIInv, <1>1, PTL DEF Spec

\* No upload or refresh stores a version of a deleted source, or one content twice,
\* and every selected version exists.
THEOREM SelectionsExist == Spec => []SelectionExists
<1>1. IInv => SelectionExists
  BY DEF IInv
<1>2. QED
  BY InitIInv, StepIInv, <1>1, PTL DEF Spec
=============================================================================
