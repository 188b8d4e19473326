------------------------- MODULE ToolContractProofs -------------------------
(***************************************************************************)
(* Proofs about ToolContract, for any documents, settings, credentials,    *)
(* values and responses that the assumptions admit.                        *)
(*                                                                         *)
(* The stages hand on what they have established: the judgement that       *)
(* admits a build, the refusals of the parser and of the compiler, the     *)
(* manifest as the compiler made it and the probe of the harness (CInv).   *)
(* From that the properties follow by what the functions do to one         *)
(* operation: discovery and parser choose the same server, every parameter *)
(* has one mapping, and the envelope holds the body of every declaration   *)
(* that can decide about a success.                                        *)
(***************************************************************************)
EXTENDS ToolContract, FiniteSetTheorems, WellFoundedInduction, TLAPS

-----------------------------------------------------------------------------
(* Routing: what discovery finds is what the parser selects. *)

\* Where an operation may be sent does not depend on the settings that choose among servers.
LEMMA UnroutedCandidates ==
  ASSUME NEW doc, NEW routing, NEW k
  PROVE  /\ Candidates(doc, Unrouted(routing), k) = Candidates(doc, routing, k)
         /\ Servers(doc, Unrouted(routing)) = Servers(doc, routing)
         /\ Unrouted(routing).active = None /\ DOMAIN Unrouted(routing).mapping = {}
<1>1. Roots(doc, Unrouted(routing)) = Roots(doc, routing)
  BY DEF Roots, Unrouted
<1>2. QED
  BY <1>1 DEF Candidates, Servers, Unrouted

\* The candidates are a list of servers.
LEMMA CandidatesAreServers ==
  ASSUME setup \in Project, NEW k \in Keys(setup.doc)
  PROVE  LET own == setup.doc.operations[k].servers
             c == Candidates(setup.doc, setup.routing, k)
         IN  /\ own \in Seq(DOMAIN Host)
             /\ DOMAIN c = 1 .. Len(c) /\ Len(c) \in Nat
             /\ own # <<>> => c = own /\ own[1] \in DOMAIN Host /\ own[1] \in ToSet(c)
             /\ own = <<>> => c = Roots(setup.doc, setup.routing)
             /\ None \notin ToSet(c)
<1> DEFINE own == setup.doc.operations[k].servers
           c == Candidates(setup.doc, setup.routing, k)
<1>1. own \in Seq(DOMAIN Host) /\ setup.doc.servers \in Seq(DOMAIN Host)
  BY ServersAssumption
<1>2. own # <<>> => c = own /\ own[1] \in DOMAIN Host /\ own[1] \in ToSet(c)
  BY <1>1 DEF Candidates, ToSet
<1>3. own = <<>> => c = Roots(setup.doc, setup.routing)
  BY DEF Candidates
<1>4. c \in Seq(DOMAIN Host) \/ (c = <<setup.routing.base>> /\ setup.routing.base # None)
  BY <1>1, <1>2, <1>3 DEF Roots
<1>5. DOMAIN c = 1 .. Len(c) /\ Len(c) \in Nat /\ None \notin ToSet(c)
  BY <1>4, ServersAssumption DEF ToSet
<1>6. QED
  BY <1>1, <1>2, <1>3, <1>5

\* What the parser selects without the settings: the only candidate, or an inventory's own.
LEMMA SelectedUnrouted ==
  ASSUME setup \in Project, NEW k \in Keys(setup.doc)
  PROVE  LET doc == setup.doc
             c == Candidates(doc, setup.routing, k)
         IN  \/ doc.format = "inventory" /\ doc.operations[k].servers # <<>>
             \/ Selected(doc, Unrouted(setup.routing), k) = IF Len(c) = 1 THEN c[1] ELSE None
<1> DEFINE doc == setup.doc
           bare == Unrouted(setup.routing)
           c == Candidates(doc, setup.routing, k)
<1>1. /\ Candidates(doc, bare, k) = c
      /\ bare.active = None /\ k \notin DOMAIN bare.mapping
  BY UnroutedCandidates
<1>2. SUFFICES ASSUME ~(doc.format = "inventory" /\ doc.operations[k].servers # <<>>)
               PROVE  Selected(doc, bare, k) = IF Len(c) = 1 THEN c[1] ELSE None
  OBVIOUS
<1> HIDE DEF bare, c
<1>3. Configured(doc, bare, k) = None
  BY <1>1, <1>2 DEF Configured
<1>4. QED
  BY <1>1, <1>3 DEF Selected

\* A build that discovery finds complete, with settings that the document bears out, and no
\* operation that repeats servers of the document: the
\* parser accepts the settings and selects a server for every operation.
LEMMA DiscoveredIsSelected ==
  ASSUME setup \in Project, ~StaleRouting, ~RepeatsRoots,
         RoutingComplete(setup.doc, setup.routing), NEW k \in Keys(setup.doc)
  PROVE  /\ Selected(setup.doc, setup.routing, k) # None
         /\ Selected(setup.doc, setup.routing, k) \in ToSet(Candidates(setup.doc, setup.routing, k))
<1> DEFINE doc == setup.doc
           routing == setup.routing
           own == doc.operations[k].servers
           c == Candidates(doc, routing, k)
           selected == Selected(doc, routing, k)
<1>0. Discovered(doc, routing, k) # None
  BY DEF RoutingComplete
<1>1. /\ own \in Seq(DOMAIN Host) /\ DOMAIN c = 1 .. Len(c) /\ None \notin ToSet(c)
      /\ own # <<>> => c = own /\ own[1] \in DOMAIN Host /\ own[1] \in ToSet(c)
      /\ own = <<>> => c = Roots(doc, routing)
  BY CandidatesAreServers
<1>2. Len(c) = 1 => c[1] \in ToSet(c) /\ c[1] # None
  BY <1>1 DEF ToSet
<1>3. CASE doc.format = "inventory" /\ own # <<>>
  <2>1. Configured(doc, routing, k) = own[1] /\ own[1] # None
    BY ServersAssumption, <1>1, <1>3 DEF Configured
  <2>2. QED
    BY <1>1, <1>3, <2>1 DEF Selected
<1>4. CASE ~(doc.format = "inventory" /\ own # <<>>)
  <2>1. Selected(doc, Unrouted(routing), k) = IF Len(c) = 1 THEN c[1] ELSE None
    BY <1>4, SelectedUnrouted
  <2>2. CASE k \in DOMAIN routing.mapping
    <3>1. Configured(doc, routing, k) = routing.mapping[k]
      BY <1>4, <2>2 DEF Configured
    <3>2. CASE routing.mapping[k] # None
      <4>1. routing.mapping[k] \in ToSet(c)
        BY <1>0, <2>2, <3>2 DEF Discovered
      <4>2. QED
        BY <3>1, <3>2, <4>1 DEF Selected
    <3>3. CASE routing.mapping[k] = None
      <4>1. Len(c) = 1
        BY <1>0, <2>1, <2>2, <3>3 DEF Discovered
      <4>2. QED
        BY <1>2, <3>1, <3>3, <4>1 DEF Selected
    <3>4. QED
      BY <3>2, <3>3
  <2>3. CASE k \notin DOMAIN routing.mapping /\ own = <<>> /\ routing.active # None
    <3>1. selected = routing.active
      BY <1>4, <2>3 DEF Configured, Selected
    <3>2. routing.active \in ToSet(c)
      BY <1>1, <2>3 DEF StaleRouting
    <3>3. QED
      BY <2>3, <3>1, <3>2
  <2>4. CASE k \notin DOMAIN routing.mapping /\ ~(own = <<>> /\ routing.active # None)
    <3>1. Configured(doc, routing, k) = None
      BY <1>4, <2>4 DEF Configured
    <3>2. Inherited(doc, routing, k) = None
      <4>1. CASE own = <<>>
        BY <1>1, <2>4, <4>1 DEF Inherited
      <4>2. CASE own # <<>>
        BY <2>4, <4>2 DEF RepeatsRoots
      <4>3. QED
        BY <4>1, <4>2
    <3>3. Len(c) = 1
      BY <1>0, <2>1, <2>4, <3>2 DEF Discovered
    <3>4. QED
      BY <1>2, <3>1, <3>3 DEF Selected
  <2>5. QED
    BY <2>2, <2>3, <2>4
<1>5. QED
  BY <1>3, <1>4

\* And the parser accepts the settings.
LEMMA DiscoveredIsRouted ==
  ASSUME setup \in Project, ~StaleRouting, ~RepeatsRoots, RoutingComplete(setup.doc, setup.routing),
         ~RoutingRefused(setup.doc, Unrouted(setup.routing))
  PROVE  ~RoutingRefused(setup.doc, setup.routing)
<1> DEFINE doc == setup.doc
           routing == setup.routing
<1>1. Servers(doc, routing) # {}
  BY UnroutedCandidates DEF RoutingRefused, NoServer, ActiveUnknown, NotApplicable, UnknownMapping
<1>2. routing.active # None => /\ routing.active \in ToSet(Roots(doc, routing))
                              /\ routing.active \in Servers(doc, routing)
  BY DEF StaleRouting, Servers
<1>3. DOMAIN routing.mapping \subseteq Keys(doc)
  BY DEF StaleRouting
<1>4. QED
  BY <1>1, <1>2, <1>3, DiscoveredIsSelected DEF RoutingRefused, NoServer, ActiveUnknown, NotApplicable, UnknownMapping

-----------------------------------------------------------------------------
(* The inductive invariant: what each stage may rely on. *)

\* The compiler's intermediate results, of the setup that was frozen with the build.
AdmittedProfiles == Profiles(setup.doc, Active(setup.credentials), setup.excluded)
AdmittedNames == ToolNames(setup.doc, Executable(setup.doc, setup.excluded))

\* The judgement that admits a build.
Judged ==
    /\ ~RoutingRefused(setup.doc, Unrouted(setup.routing))
    /\ RoutingComplete(setup.doc, setup.routing)
    /\ Ready(setup.doc, setup.credentials)

\* The compiler has refused nothing, and the manifest is what it has made.
Compiled ==
    /\ ~RoutingRefused(setup.doc, setup.routing)
    /\ CompileFailure(setup.doc, setup.routing, setup.excluded, AdmittedProfiles, AdmittedNames) = None
    /\ manifest = Manifest(setup.doc, setup.routing, AdmittedProfiles, AdmittedNames)

\* The call in progress is of a tool of the manifest, with arguments that fit its input schema,
\* and its request was not refused.
CallBuilt ==
    /\ call.tool \in manifest.tools
    /\ InputValid(call.tool, call.args)
    /\ call.request = BuildRequest(call.tool, call.args) /\ call.request # None

\* A result is a decoded response that the tool accepts.
ResultAccepted ==
    /\ call # None
    /\ \E q \in Response : /\ q.status # "404"
                           /\ reply.data = Decoded(q)
                           /\ Accepts(call.tool.responses, q.status, q.media, reply.data)

\* Stage by stage; from READY on, what holds of the call and its reply.
CInv ==
    /\ setup \in Project
    /\ stage # "failed" => failure = None
    /\ stage \in {"admitted", "parsed"} => Judged
    /\ stage = "parsed" => ~RoutingRefused(setup.doc, setup.routing)
    /\ stage \in {"compiled", "ready"} => Compiled
    /\ stage = "ready" => Probed(manifest)
    /\ stage # "ready" => call = None /\ reply = None
    /\ call # None => CallBuilt
    /\ reply # None /\ reply.kind = "result" => ResultAccepted
    /\ AdmittedSound

-----------------------------------------------------------------------------
(* Admission *)

\* The two tables read the same off a scheme.
LEMMA SpecsAgree ==
  ASSUME NEW doc
  PROVE  ReadinessSpecs(doc) = MappingSpecs(doc)
<1>1. \A name, scheme : ReadinessSpec(DiscoveredScheme(name, scheme)) = MappingSpec(name, scheme)
  BY DEF ReadinessSpec, DiscoveredScheme, MappingSpec
<1>2. QED
  BY <1>1 DEF ReadinessSpecs, MappingSpecs

\* So the credentials that a build is judged on serve the compiler as well.
LEMMA ReadyIsServed ==
  ASSUME Ready(setup.doc, setup.credentials)
  PROVE  Unserved(setup.doc, Active(setup.credentials), setup.excluded) = {}
  BY SpecsAgree DEF Ready, Unserved, Executable

\* A set of numbers that is not empty has a smallest one.
LEMMA Smallest ==
  ASSUME NEW S, S \subseteq Nat, S # {}
  PROVE  \E i \in S : \A j \in S : i <= j
<1> DEFINE below == {pair \in Nat \X Nat : pair[1] < pair[2]}
<1>1. IsWellFoundedOn(below, Nat)
  BY NatLessThanWellFounded, Zenon DEF OpToRel
<1> HIDE DEF below
<1>2. \E i \in S : \A j \in S : <<j, i>> \notin below
  BY <1>1, WFMin
<1>3. \A i, j \in S : <<j, i>> \notin below => i <= j
  BY DEF below
<1>4. QED
  BY <1>2, <1>3

\* What is selected is one of the alternatives, served.
LEMMA SelectedIsServed ==
  ASSUME NEW specs, NEW security, NEW credentials, DOMAIN security \subseteq Nat,
         Selection(specs, security, credentials) # None
  PROVE  \E j \in DOMAIN security :
            Selection(specs, security, credentials) = Alternative(specs, security[j], credentials)
<1> DEFINE options == [i \in DOMAIN security |-> Alternative(specs, security[i], credentials)]
           served == {i \in DOMAIN options : options[i] # None}
           first == CHOOSE i \in served : \A j \in served : i <= j
<1>1. Selection(specs, security, credentials) = IF served = {} THEN None ELSE options[first]
  BY DEF Selection, FirstServed
<1>2. served # {} /\ served \subseteq Nat
  BY <1>1
<1>3. \E i \in served : \A j \in served : i <= j
  BY <1>2, Smallest
<1>4. first \in served
  BY <1>3
<1>5. QED
  BY <1>1, <1>2, <1>4

\* An alternative that is served asks for one scheme, which only OAuth asks scopes of, and
\* these are the scopes of the selection.
LEMMA ServedScopes ==
  ASSUME NEW specs, NEW alternative, NEW credentials, \A name \in DOMAIN specs : specs[name].name = name,
         Alternative(specs, alternative, credentials) # None
  PROVE  LET selection == Alternative(specs, alternative, credentials)
         IN  /\ selection.scheme \in DOMAIN specs /\ DOMAIN alternative = {selection.scheme}
             /\ alternative[selection.scheme] \in {{}, selection.scopes}
<1>1. PICK name \in DOMAIN specs : DOMAIN alternative = {name}
  BY DEF Alternative
<1> DEFINE asked == alternative[name]
           spec == specs[name]
           matching == Matching(credentials, spec, asked)
           c == CHOOSE x \in matching : TRUE
<1>2. (CHOOSE x \in DOMAIN alternative : TRUE) = name
  BY <1>1
<1>3. Alternative(specs, alternative, credentials) = Served(spec, asked, matching)
  BY <1>1, <1>2 DEF Alternative
<1> HIDE DEF matching
<1>4. Cardinality(matching) = 1
  BY <1>3 DEF Served
<1>5. matching # {}
  BY <1>4, FS_EmptySet
<1>6. Compatible(c, spec, asked)
  BY <1>5 DEF matching, Matching
<1>7. ~spec.oauth => asked = {}
  BY <1>6 DEF Compatible
<1> HIDE DEF c
<1>8. Served(spec, asked, matching) =
        [scheme |-> spec.name, credential |-> c.id,
         scopes |-> IF ~spec.oauth THEN {} ELSE IF asked # {} THEN asked ELSE c.scopes]
  BY <1>4 DEF Served, c
<1>9. QED
  BY <1>1, <1>3, <1>7, <1>8

\* So the compiler finds other scopes only in an earlier alternative of the same scheme.
LEMMA ScopesDiffer ==
  ASSUME setup \in Project, NEW k \in Executable(setup.doc, setup.excluded),
         AdmittedProfiles[k] # None, ScopesChanged(setup.doc.operations[k], AdmittedProfiles[k])
  PROVE  SameSchemeTwice
<1> DEFINE doc == setup.doc
           specs == MappingSpecs(doc)
           security == doc.operations[k].security
           selection == Selection(specs, security, Active(setup.credentials))
           profile == AdmittedProfiles[k]
<1>1. DOMAIN security \subseteq Nat
  BY SecurityAssumption DEF Executable
<1>2. selection # None /\ profile = AuthProfile(selection, doc.schemes[selection.scheme])
  BY DEF AdmittedProfiles, Profiles
<1> HIDE DEF selection, profile
<1>3. profile.scheme = selection.scheme /\ profile.scopes = selection.scopes
  BY <1>2 DEF AuthProfile
<1>4. PICK j \in DOMAIN security : selection = Alternative(specs, security[j], Active(setup.credentials))
  BY <1>1, <1>2, SelectedIsServed DEF selection
<1>5. DOMAIN specs = DOMAIN doc.schemes /\ \A name \in DOMAIN specs : specs[name].name = name
  BY DEF MappingSpecs, MappingSpec
<1> DEFINE name == selection.scheme
<1> HIDE DEF specs
<1>6. /\ name \in DOMAIN doc.schemes /\ DOMAIN security[j] = {name}
      /\ security[j][name] \in {{}, selection.scopes}
  <2> DEFINE chosen == Alternative(specs, security[j], Active(setup.credentials))
  <2>1. chosen # None
    BY <1>2, <1>4
  <2>2. /\ chosen.scheme \in DOMAIN specs /\ DOMAIN security[j] = {chosen.scheme}
        /\ security[j][chosen.scheme] \in {{}, chosen.scopes}
    BY <1>5, <2>1, ServedScopes
  <2> HIDE DEF chosen
  <2>3. selection = chosen
    BY <1>4 DEF chosen
  <2>4. QED
    BY <1>5, <2>2, <2>3
<1> DEFINE naming == {i \in DOMAIN security : DOMAIN security[i] = {name}}
           first == CHOOSE i \in naming : \A h \in naming : i <= h
<1>7. j \in naming /\ naming \subseteq Nat
  BY <1>1, <1>6
<1>8. first \in naming /\ \A h \in naming : first <= h
  <2>1. \E i \in naming : \A h \in naming : i <= h
    BY <1>7, Smallest
  <2>2. QED
    BY <2>1
<1>9. security[first][name] \notin {{}, selection.scopes}
  BY <1>3 DEF ScopesChanged, profile
<1> HIDE DEF first
<1>10. first < j /\ security[first][name] \notin {{}, security[j][name]}
  BY <1>6, <1>7, <1>8, <1>9
<1>11. QED
  BY <1>6, <1>8, <1>10 DEF SameSchemeTwice

\* Of what compilation fails for, want of a server and other scopes are parts of admission's
\* judgement.
LEMMA CompileFailureIsExcused ==
  ASSUME setup \in Project, Judged,
         CompileFailure(setup.doc, setup.routing, setup.excluded, AdmittedProfiles, AdmittedNames) # None
  PROVE  LET reason == CompileFailure(setup.doc, setup.routing, setup.excluded, AdmittedProfiles, AdmittedNames)
         IN  /\ reason # "credentials"
             /\ reason = "routing" => StaleRouting \/ RepeatsRoots
             /\ reason = "scopes" => SameSchemeTwice
<1> DEFINE reason == CompileFailure(setup.doc, setup.routing, setup.excluded, AdmittedProfiles, AdmittedNames)
<1>1. DOMAIN AdmittedProfiles = Executable(setup.doc, setup.excluded)
  BY DEF AdmittedProfiles, Profiles
<1>2. reason \in {"exclusions", "scopes", "names", "routing", "operation"}
  BY DEF CompileFailure
<1>3. reason = "routing" =>
        \E k \in Executable(setup.doc, setup.excluded) : Selected(setup.doc, setup.routing, k) = None
  BY <1>1, NoneAssumption DEF CompileFailure
<1>4. reason = "routing" => \E k \in Keys(setup.doc) : Selected(setup.doc, setup.routing, k) = None
  BY <1>3 DEF Executable
<1>5. reason = "routing" => StaleRouting \/ RepeatsRoots
  BY <1>4, DiscoveredIsSelected DEF Judged
<1>6. reason = "scopes" =>
        \E k \in Executable(setup.doc, setup.excluded) :
           AdmittedProfiles[k] # None /\ ScopesChanged(setup.doc.operations[k], AdmittedProfiles[k])
  BY <1>1, NoneAssumption DEF CompileFailure
<1>7. reason = "scopes" => SameSchemeTwice
  BY <1>6, ScopesDiffer
<1>8. QED
  BY <1>2, <1>5, <1>7

\* The soundness of admission is about the setup and the failure.
LEMMA SoundnessKept ==
  ASSUME AdmittedSound, UNCHANGED <<setup, failure>>
  PROVE  AdmittedSound'
<1>1. /\ StaleRouting' = StaleRouting
      /\ RepeatsRoots' = RepeatsRoots
      /\ SameSchemeTwice' = SameSchemeTwice
  BY DEF StaleRouting, RepeatsRoots, SameSchemeTwice
<1>2. QED
  BY <1>1 DEF AdmittedSound

\* A build that was just requested satisfies the invariant.
LEMMA CInvInit == ContractInit => CInv
  BY NoneAssumption DEF ContractInit, CInv, AdmittedSound

\* BuildService.create: what is admitted was judged.
LEMMA AdmitKeeps == CInv /\ Admit => CInv'
<1> SUFFICES ASSUME CInv, Admit PROVE CInv'
  OBVIOUS
<1>1. /\ stage = "requested" /\ failure' = failure /\ UNCHANGED <<setup, manifest, call, reply>>
      /\ stage' = "refused" \/ (stage' = "admitted" /\ Judged)
  BY DEF Admit, Advance, Judged
<1>2. AdmittedSound' /\ Judged' = Judged
  BY <1>1, SoundnessKept DEF CInv, Judged
<1>3. QED
  BY <1>1, <1>2 DEF CInv

\* Canonicalization: settings it refuses although discovery found them complete are stale, or
\* an operation repeats servers of the document.
LEMMA ParseKeeps == CInv /\ Parse => CInv'
<1> SUFFICES ASSUME CInv, Parse PROVE CInv'
  OBVIOUS
<1>1. stage = "admitted" /\ UNCHANGED <<setup, manifest, call, reply>> /\ Judged /\ setup \in Project
  BY DEF Parse, CInv
<1>2. /\ Judged' = Judged /\ StaleRouting' = StaleRouting
      /\ RepeatsRoots' = RepeatsRoots /\ SameSchemeTwice' = SameSchemeTwice
  BY <1>1 DEF Judged, StaleRouting, RepeatsRoots, SameSchemeTwice
<1>3. CASE RoutingRefused(setup.doc, setup.routing)
  <2>1. stage' = "failed" /\ failure' = "routing"
    BY <1>3 DEF Parse, Fail
  <2>2. StaleRouting \/ RepeatsRoots
    BY <1>1, <1>3, DiscoveredIsRouted DEF Judged
  <2>3. QED
    BY <1>1, <1>2, <2>1, <2>2 DEF CInv, AdmittedSound
<1>4. CASE ~RoutingRefused(setup.doc, setup.routing)
  <2>1. stage' = "parsed" /\ failure' = failure
    BY <1>4 DEF Parse, Advance
  <2>2. QED
    BY <1>1, <1>2, <1>4, <2>1 DEF CInv, AdmittedSound
<1>5. QED
  BY <1>3, <1>4

\* Compilation: it finds a credential for every operation, and the manifest is its own.
LEMMA CompileKeeps == CInv /\ Compile => CInv'
<1> SUFFICES ASSUME CInv, Compile PROVE CInv'
  OBVIOUS
<1> DEFINE reason == CompileFailure(setup.doc, setup.routing, setup.excluded, AdmittedProfiles, AdmittedNames)
<1>1. /\ stage = "parsed" /\ UNCHANGED <<setup, call, reply>> /\ Judged /\ setup \in Project
      /\ ~RoutingRefused(setup.doc, setup.routing)
  BY DEF Compile, CInv
<1>2. /\ StaleRouting' = StaleRouting /\ AdmittedProfiles' = AdmittedProfiles /\ AdmittedNames' = AdmittedNames
      /\ RepeatsRoots' = RepeatsRoots /\ SameSchemeTwice' = SameSchemeTwice
  BY <1>1 DEF StaleRouting, RepeatsRoots, SameSchemeTwice, AdmittedProfiles, AdmittedNames
<1>3. Unserved(setup.doc, Active(setup.credentials), setup.excluded) = {}
  BY <1>1, ReadyIsServed DEF Judged
<1>4. IF reason # None THEN Fail(reason) /\ UNCHANGED manifest
      ELSE Advance("compiled") /\ manifest' = Manifest(setup.doc, setup.routing, AdmittedProfiles, AdmittedNames)
  BY <1>3 DEF Compile, AdmittedProfiles, AdmittedNames
<1>5. CASE reason # None
  <2>1. stage' = "failed" /\ failure' = reason /\ UNCHANGED manifest
    BY <1>4, <1>5 DEF Fail
  <2>2. /\ reason # "credentials" /\ (reason = "routing" => StaleRouting \/ RepeatsRoots)
        /\ reason = "scopes" => SameSchemeTwice
    BY <1>1, <1>5, CompileFailureIsExcused
  <2>3. QED
    BY <1>1, <1>2, <2>1, <2>2 DEF CInv, AdmittedSound
<1>6. CASE reason = None
  <2>1. /\ stage' = "compiled" /\ failure' = failure
        /\ manifest' = Manifest(setup.doc, setup.routing, AdmittedProfiles, AdmittedNames)
    BY <1>4, <1>6 DEF Advance
  <2>2. Compiled'
    BY <1>1, <1>2, <1>6, <2>1 DEF Compiled
  <2>3. AdmittedSound'
    BY <1>2, <2>1 DEF CInv, AdmittedSound
  <2>4. QED
    BY <1>1, <2>1, <2>2, <2>3 DEF CInv
<1>7. QED
  BY <1>5, <1>6

\* ValidationService.validate: what is READY has been probed.
LEMMA ValidateBuildKeeps == CInv /\ ValidateBuild => CInv'
<1> SUFFICES ASSUME CInv, ValidateBuild PROVE CInv'
  OBVIOUS
<1>1. /\ stage = "compiled" /\ UNCHANGED <<setup, manifest, call, reply>> /\ Compiled
      /\ \/ stage' = "ready" /\ failure' = failure /\ Probed(manifest)
         \/ stage' = "failed" /\ failure' = "validation"
  BY DEF ValidateBuild, CInv, Advance, Fail
<1>2. Compiled' /\ Probed(manifest)' = Probed(manifest)
  BY <1>1 DEF Compiled, AdmittedProfiles, AdmittedNames
<1>3. CASE failure' = failure
  BY <1>1, <1>2, <1>3, SoundnessKept DEF CInv
<1>4. CASE failure' = "validation"
  <2>1. AdmittedSound'
    BY <1>4 DEF AdmittedSound
  <2>2. QED
    BY <1>1, <1>2, <1>4, <2>1 DEF CInv
<1>5. QED
  BY <1>1, <1>3, <1>4

-----------------------------------------------------------------------------
(* Calls *)

\* A call of a tool: the request in progress is the one that was built.
LEMMA CallKeeps ==
  ASSUME CInv, NEW t \in manifest.tools, NEW args, Call(t, args)
  PROVE  CInv'
<1>1. /\ stage = "ready" /\ call = None /\ reply = None /\ UNCHANGED <<setup, stage, failure, manifest>>
      /\ InputValid(t, args)
      /\ \/ reply' = [kind |-> "refused", data |-> None] /\ call' = None
         \/ /\ BuildRequest(t, args) # None /\ reply' = None
            /\ call' = [tool |-> t, args |-> args, request |-> BuildRequest(t, args)]
  BY DEF Call
<1>2. Compiled' /\ Probed(manifest)' = Probed(manifest) /\ AdmittedSound'
  BY <1>1, SoundnessKept DEF CInv, Compiled, AdmittedProfiles, AdmittedNames
<1>3. call' # None => CallBuilt'
  BY <1>1 DEF CallBuilt
<1>4. QED
  BY <1>1, <1>2, <1>3 DEF CInv

\* A response: a result was accepted by the tool that was called.
LEMMA RespondKeeps ==
  ASSUME CInv, NEW q \in Response, Respond(q)
  PROVE  CInv'
<1>1. /\ stage = "ready" /\ call # None /\ UNCHANGED <<setup, stage, failure, manifest, call>>
      /\ reply'.kind = "result" =>
            /\ q.status # "404" /\ reply'.data = Decoded(q)
            /\ Accepts(call.tool.responses, q.status, q.media, Decoded(q))
  BY DEF Respond, CInv
<1>2. Compiled' /\ Probed(manifest)' = Probed(manifest) /\ AdmittedSound'
  BY <1>1, SoundnessKept DEF CInv, Compiled, AdmittedProfiles, AdmittedNames
<1>3. CallBuilt' = CallBuilt /\ (reply'.kind = "result" => ResultAccepted')
  BY <1>1 DEF CallBuilt, ResultAccepted
<1>4. QED
  BY <1>1, <1>2, <1>3 DEF CInv

\* A result that is delivered takes its call with it.
LEMMA ReturnKeeps == CInv /\ (Return \/ UNCHANGED contractVars) => CInv'
<1> SUFFICES ASSUME CInv, Return \/ UNCHANGED contractVars PROVE CInv'
  OBVIOUS
<1>1. /\ UNCHANGED <<setup, stage, failure, manifest>>
      /\ (call' = None /\ reply' = None) \/ UNCHANGED <<call, reply>>
  BY DEF Return, contractVars
<1>2. /\ Compiled' = Compiled /\ Judged' = Judged /\ AdmittedSound'
      /\ Probed(manifest)' = Probed(manifest)
  BY <1>1, SoundnessKept DEF CInv, Compiled, Judged, AdmittedProfiles, AdmittedNames
<1>3. UNCHANGED <<call, reply>> => CallBuilt' = CallBuilt /\ ResultAccepted' = ResultAccepted
  BY <1>1 DEF CallBuilt, ResultAccepted
<1>4. QED
  BY <1>1, <1>2, <1>3 DEF CInv

\* Every step keeps the invariant.
LEMMA CInvNext == CInv /\ [ContractNext]_contractVars => CInv'
  BY AdmitKeeps, ParseKeeps, CompileKeeps, ValidateBuildKeeps, CallKeeps, RespondKeeps, ReturnKeeps
  DEF ContractNext

\* So it always holds.
LEMMA CInvAlways == ContractSpec => []CInv
<1>1. ContractInit => CInv
  BY CInvInit
<1>2. CInv /\ [ContractNext]_contractVars => CInv'
  BY CInvNext
<1>3. QED
  BY <1>1, <1>2, PTL DEF ContractSpec

\* A build that admission lets through never fails for want of a credential, for want of a
\* server only with stale routing settings or an operation that repeats servers of the document,
\* and because of scopes only with two alternatives of one scheme.
THEOREM AdmissionIsSound == ContractSpec => []AdmittedSound
<1>1. CInv => AdmittedSound
  BY DEF CInv
<1>2. QED
  BY <1>1, CInvAlways, PTL

-----------------------------------------------------------------------------
(* What a tool of the manifest is. *)

\* Every tool was made from its operation, which the compiler did not refuse.
LEMMA ToolsAreCompiled ==
  ASSUME Compiled, NEW t \in manifest.tools
  PROVE  LET doc == setup.doc
             op == doc.operations[t.key]
         IN  /\ t.key \in Executable(doc, setup.excluded) /\ t.key \in Keys(doc)
             /\ t.name = AdmittedNames[t.key]
             /\ t = Tool(doc, setup.routing, t.key, t.profile, t.name, t.mappings)
             /\ t.mappings = Mappings(op, t.profile)
             /\ ~OperationRefused(op, t.profile)
             /\ t.server # None
<1> DEFINE doc == setup.doc
           MadeFor(k) == Tool(doc, setup.routing, k, AdmittedProfiles[k], AdmittedNames[k],
                              Mappings(doc.operations[k], AdmittedProfiles[k]))
<1>1. DOMAIN AdmittedProfiles = Executable(doc, setup.excluded)
  BY DEF AdmittedProfiles, Profiles
<1>2. PICK k \in Executable(doc, setup.excluded) : t = MadeFor(k)
  BY <1>1 DEF Compiled, Manifest, Listed
<1>3. /\ ~OperationRefused(doc.operations[k], AdmittedProfiles[k])
      /\ Selected(doc, setup.routing, k) # None
  BY <1>1, NoneAssumption DEF Compiled, CompileFailure
<1>4. /\ t.key = k /\ t.name = AdmittedNames[k] /\ t.profile = AdmittedProfiles[k]
      /\ t.mappings = Mappings(doc.operations[k], AdmittedProfiles[k])
      /\ t.server = Selected(doc, setup.routing, k)
  BY <1>2 DEF Tool
<1>5. k \in Keys(doc)
  BY DEF Executable
<1>6. t = Tool(doc, setup.routing, t.key, t.profile, t.name, t.mappings)
  BY <1>2, <1>4
<1>7. QED
  BY <1>3, <1>4, <1>5, <1>6

\* The fields of a tool that come from the operation.
LEMMA ToolFields ==
  ASSUME Compiled, NEW t \in manifest.tools
  PROVE  LET op == setup.doc.operations[t.key]
         IN  /\ t.server = Selected(setup.doc, setup.routing, t.key)
             /\ t.body = BodyOf(op, t.mappings)
             /\ t.inputs = InputSchema(t.mappings, t.body)
             /\ t.responses = op.responses /\ t.output = Envelope(op)
<1> DEFINE mappings == t.mappings
           name == t.name
           profile == t.profile
           key == t.key
<1>1. t = Tool(setup.doc, setup.routing, key, profile, name, mappings)
  BY ToolsAreCompiled
<1> HIDE DEF mappings, name, profile, key
<1>2. LET op == setup.doc.operations[key]
      IN  /\ t.server = Selected(setup.doc, setup.routing, key)
          /\ t.body = BodyOf(op, mappings)
          /\ t.inputs = InputSchema(mappings, BodyOf(op, mappings))
          /\ t.responses = op.responses /\ t.output = Envelope(op)
  BY <1>1 DEF Tool
<1>3. QED
  BY <1>2 DEF mappings, key

\* Every parameter the caller may set has one mapping.
LEMMA MappingsAreParameters ==
  ASSUME NEW op, NEW profile
  PROVE  /\ \A m \in Mappings(op, profile) : m.param \in Mapped(op, profile)
         /\ \A p \in Mapped(op, profile) : \E m \in Mappings(op, profile) : m.param = p
         /\ \A m, n \in Mappings(op, profile) : m.param = n.param => m = n
<1> DEFINE field == FieldNames(op, profile)
<1> HIDE DEF field
<1> DEFINE For(p) == [field |-> field[p], param |-> p]
<1>1. Mappings(op, profile) = {For(p) : p \in Mapped(op, profile)}
  BY DEF Mappings, field
<1>2. \A p : For(p).param = p
  OBVIOUS
<1> HIDE DEF For
<1>3. QED
  BY <1>1, <1>2

\* A body that is not refused has a media type the runtime can send.
LEMMA MediaIsSent ==
  ASSUME NEW op, NEW profile, ~OperationRefused(op, profile), op.body # None
  PROVE  RequestMedia(op) \in {Json, Form, Multipart} /\ RequestMedia(op) \in DOMAIN op.body.content
<1>1. RequestMedia(op) # None
  BY DEF OperationRefused
<1>2. QED
  BY <1>1 DEF RequestMedia

\* The input schema of every field is about values.
LEMMA InputsAreValues ==
  ASSUME setup \in Project, Compiled, NEW t \in manifest.tools, NEW f \in DOMAIN t.inputs
  PROVE  t.inputs[f] \subseteq Value
<1> DEFINE op == setup.doc.operations[t.key]
<1>1. /\ t.key \in Keys(setup.doc) /\ ~OperationRefused(op, t.profile)
      /\ t.mappings = Mappings(op, t.profile)
  BY ToolsAreCompiled
<1>2. t.body = BodyOf(op, t.mappings) /\ t.inputs = InputSchema(t.mappings, t.body)
  BY ToolFields
<1>3. /\ \A q \in Parameters(op) : q.schema = Unsupported \/ q.schema \subseteq Value
      /\ op.body # None => \A m \in DOMAIN op.body.content : op.body.content[m] \subseteq Value
      /\ Texts \subseteq Value
  BY <1>1, ValuesAssumption
<1> HIDE DEF op
<1>4. CASE f \in BodyField(t.body)
  <2>1. t.inputs[f] = t.body.schema
    BY <1>2, <1>4 DEF InputSchema
  <2>2. t.body # None
    BY <1>4 DEF BodyField
  <2>3. op.body # None /\ t.body.schema = op.body.content[RequestMedia(op)]
    BY <1>2, <2>2 DEF BodyOf, RequestBody
  <2>4. QED
    BY <1>1, <1>3, <2>1, <2>3, MediaIsSent
<1>5. CASE f \notin BodyField(t.body)
  <2>1. f \in Fields(t.mappings) /\ t.inputs[f] = FieldSchema(ParamOf(t.mappings, f))
    BY <1>2, <1>5 DEF InputSchema
  <2>2. \E m \in t.mappings : m.field = f
    BY <2>1 DEF Fields
  <2>3. (CHOOSE m \in t.mappings : m.field = f) \in t.mappings
    BY <2>2
  <2>4. ParamOf(t.mappings, f) \in Parameters(op)
    BY <1>1, <2>3, MappingsAreParameters DEF ParamOf, Mapped
  <2>5. ParamOf(t.mappings, f).schema \subseteq Value
    BY <1>1, <1>3, <2>4 DEF OperationRefused
  <2>6. QED
    BY <1>3, <2>1, <2>5 DEF FieldSchema
<1>6. QED
  BY <1>4, <1>5

-----------------------------------------------------------------------------
(* Every tool of a READY build can be called. *)

\* The harness draws its samples from the values.
LEMMA SampleIsValue ==
  ASSUME NEW schema, schema \subseteq Value, schema # {}
  PROVE  Sample(schema) \in Value
<1>1. (CHOOSE v \in schema : TRUE) \in schema
  OBVIOUS
<1>2. QED
  BY <1>1, ValuesAssumption DEF Sample

\* So a caller could send the arguments that the harness makes up.
LEMMA SampleIsArguments ==
  ASSUME setup \in Project, Compiled, NEW t \in manifest.tools, InputValid(t, SampleArguments(t))
  PROVE  SampleArguments(t) \in Arguments(t)
<1> DEFINE args == SampleArguments(t)
           fields == DOMAIN args
<1>1. args = [f \in fields |-> args[f]]
  BY DEF SampleArguments
<1>2. fields \in {x \in SUBSET DOMAIN t.inputs : t.required \subseteq x} /\ \A f \in fields : args[f] \in t.inputs[f]
  BY DEF InputValid
<1> HIDE DEF args, fields
<1>3. args \in [fields -> UNION {t.inputs[f] : f \in fields}]
  BY <1>1, <1>2
<1>4. args \in Arguments(t)
  BY <1>2, <1>3 DEF Arguments
<1>5. QED
  BY <1>4 DEF args

\* And a server could send the response it makes up.
LEMMA MadeUpIsAnswered ==
  ASSUME setup \in Project, Compiled, NEW t \in manifest.tools, Representative(t)
  PROVE  \E q \in Response : /\ q.status # "404" /\ Decoded(q) # None
                             /\ Accepts(t.responses, q.status, q.media, Decoded(q))
<1> DEFINE op == setup.doc.operations[t.key]
<1>1. t.key \in Keys(setup.doc) /\ ~OperationRefused(op, t.profile) /\ t.responses = op.responses
  BY ToolsAreCompiled, ToolFields
<1>2. PICK r \in ToSet(op.responses) :
        Presentable(r) /\ Accepts(t.responses, MadeUp(r).status, MadeUp(r).media, MadeUp(r).data)
  BY <1>1 DEF Representative
<1>3. r.media # None => SupportedMedia(r.media)
  BY <1>1, <1>2 DEF OperationRefused, Presentable
<1>4. PICK q \in Response : /\ q.status = MadeUp(r).status /\ q.media = MadeUp(r).media
                           /\ Decoded(q) = MadeUp(r).data
  BY <1>1, <1>2, <1>3, ResponsesAssumption
<1>5. MadeUp(r).status \in {"200", "201"}
  BY <1>2 DEF MadeUp, Presentable, Success
<1>6. r.schema \subseteq Value
  BY <1>1, ValuesAssumption
<1>7. MadeUp(r).data \in Value
  <2>1. CASE r.media = None
    BY <2>1, ValuesAssumption DEF MadeUp
  <2>2. CASE r.media # None
    BY <1>2, <1>6, <2>2, SampleIsValue DEF MadeUp, Presentable
  <2>3. QED
    BY <2>1, <2>2
<1>8. Decoded(q) # None
  BY <1>4, <1>7, ValuesAssumption
<1>9. QED
  BY <1>2, <1>4, <1>5, <1>8

\* The compiler refuses manifests in which two tools share a name.
LEMMA NamesAreDistinct ==
  ASSUME Compiled, NEW t \in manifest.tools, NEW u \in manifest.tools, t.name = u.name
  PROVE  t = u
<1> DEFINE doc == setup.doc
           MadeFor(k) == Tool(doc, setup.routing, k, AdmittedProfiles[k], AdmittedNames[k],
                              Mappings(doc.operations[k], AdmittedProfiles[k]))
<1>1. DOMAIN AdmittedProfiles = Executable(doc, setup.excluded)
  BY DEF AdmittedProfiles, Profiles
<1>2. manifest.tools = {MadeFor(k) : k \in Executable(doc, setup.excluded)}
  BY <1>1 DEF Compiled, Manifest, Listed
<1>3. \A j, k \in Executable(doc, setup.excluded) : AdmittedNames[j] = AdmittedNames[k] => j = k
  BY <1>1, NoneAssumption DEF Compiled, CompileFailure
<1>4. \A k : MadeFor(k).name = AdmittedNames[k]
  BY DEF Tool
<1> HIDE DEF MadeFor
<1>5. QED
  BY <1>2, <1>3, <1>4

\* Every operation that was not excluded has a tool.
LEMMA KeysAreExecutable ==
  ASSUME Compiled
  PROVE  {t.key : t \in manifest.tools} = Executable(setup.doc, setup.excluded)
<1> DEFINE doc == setup.doc
           MadeFor(k) == Tool(doc, setup.routing, k, AdmittedProfiles[k], AdmittedNames[k],
                              Mappings(doc.operations[k], AdmittedProfiles[k]))
<1>1. DOMAIN AdmittedProfiles = Executable(doc, setup.excluded)
  BY DEF AdmittedProfiles, Profiles
<1>2. manifest.tools = {MadeFor(k) : k \in Executable(doc, setup.excluded)}
  BY <1>1 DEF Compiled, Manifest, Listed
<1>3. \A k : MadeFor(k).key = k
  BY DEF Tool
<1> HIDE DEF MadeFor
<1>4. QED
  BY <1>2, <1>3

\* Every tool of a READY build can be called, whatever the project.
THEOREM ReadyIsCallable == ContractSpec => []ReadyCallable
<1>1. CInv => ReadyCallable
  <2> SUFFICES ASSUME CInv, stage = "ready" PROVE ReadyCallable
    BY DEF ReadyCallable
  <2>1. setup \in Project /\ Compiled /\ Probed(manifest)
    BY DEF CInv
  <2>2. \A t \in manifest.tools : \E args \in Arguments(t) : InputValid(t, args) /\ BuildRequest(t, args) # None
    BY <2>1, SampleIsArguments DEF Probed
  <2>3. \A t \in manifest.tools :
          \E r \in Response : /\ r.status # "404" /\ Decoded(r) # None
                              /\ Accepts(t.responses, r.status, r.media, Decoded(r))
    BY <2>1, MadeUpIsAnswered DEF Probed
  <2>4. QED
    BY <2>1, <2>2, <2>3, NamesAreDistinct, KeysAreExecutable DEF ReadyCallable
<1>2. QED
  BY <1>1, CInvAlways, PTL

-----------------------------------------------------------------------------
(* A result fits the output schema. *)

\* The declarations that decide about a success are declarations of successes.
LEMMA DeclaredAreSuccesses ==
  ASSUME NEW responses, NEW status \in {"200", "201"}, NEW r \in DeclaredFor(responses, status)
  PROVE  r \in ToSet(responses) /\ Success(r.status)
  BY DEF DeclaredFor, Success

\* The chosen declaration has no body, and neither has the response, or a fitting media type.
LEMMA ChosenFits ==
  ASSUME NEW declared, NEW actual, NEW data, NEW r \in SelectMedia(declared, actual, data)
  PROVE  /\ r \in declared
         /\ \/ r.media = None /\ data = Null
            \/ r.media # None /\ Specificity(r.media, actual) >= 0
  BY DEF SelectMedia

\* Only a text is held against the declaration of a text.
LEMMA TextFitsText ==
  ASSUME NEW expected, NEW actual, Specificity(expected, actual) >= 0, expected[1] = "text"
  PROVE  actual[1] = "text"
  BY DEF Specificity

\* What the API client makes of a text is a text, or null if there is none.
LEMMA TextIsDecoded ==
  ASSUME NEW q \in Response, q.media[1] = "text"
  PROVE  Decoded(q) \in Texts \cup {Null}
<1>1. q.media # Json /\ q.media \notin JsonSuffixed
  BY DEF Json, JsonSuffixed
<1>2. q.body \in Texts \cup {Empty}
  BY ResponsesAssumption
<1>3. QED
  BY <1>1, <1>2 DEF Decoded

\* The body of every successful declaration is part of the envelope.
LEMMA EnvelopeHolds ==
  ASSUME setup \in Project, NEW k \in Keys(setup.doc),
         NEW r \in ToSet(setup.doc.operations[k].responses), Success(r.status)
  PROVE  BodySchema(r) \subseteq OrElse(Envelope(setup.doc.operations[k]), {})
<1> DEFINE op == setup.doc.operations[k]
           schemas == {BodySchema(x) : x \in {y \in ToSet(op.responses) : Success(y.status)}}
<1>1. \A x \in ToSet(op.responses) : x.schema \subseteq Value
  BY ValuesAssumption
<1>2. \A x \in ToSet(op.responses) : BodySchema(x) \subseteq Value
  BY <1>1, ValuesAssumption DEF BodySchema
<1>3. BodySchema(r) \in schemas
  OBVIOUS
<1>4. UNION schemas \in SUBSET Value
  BY <1>2
<1>5. UNION schemas # None
  BY <1>4, NoneAssumption
<1>6. Envelope(op) = IF schemas = {} THEN None ELSE UNION schemas
  BY DEF Envelope
<1> HIDE DEF schemas
<1>7. QED
  BY <1>3, <1>5, <1>6 DEF OrElse

\* Dispatch never accepts what the output schema excludes.
THEOREM EnvelopeIsSound == ContractSpec => []EnvelopeSound
<1>1. CInv => EnvelopeSound
  <2> SUFFICES ASSUME CInv, reply # None, reply.kind = "result" PROVE EnvelopeSound
    BY DEF EnvelopeSound
  <2> DEFINE t == call.tool
             op == setup.doc.operations[t.key]
  <2>1. setup \in Project /\ Compiled /\ t \in manifest.tools /\ ResultAccepted
    BY DEF CInv, CallBuilt, ResultAccepted
  <2>2. PICK q \in Response : /\ q.status # "404" /\ reply.data = Decoded(q)
                             /\ Accepts(t.responses, q.status, q.media, reply.data)
    BY <2>1 DEF ResultAccepted
  <2>3. q.status \in {"200", "201"}
    BY <2>2, ResponsesAssumption
  <2>4. t.key \in Keys(setup.doc) /\ t.responses = op.responses /\ t.output = Envelope(op)
    BY <2>1, ToolsAreCompiled, ToolFields
  <2>5. PICK r \in SelectMedia(DeclaredFor(t.responses, q.status), q.media, reply.data) :
          r.media = None \/ reply.data \in r.schema
    BY <2>2 DEF Accepts
  <2>6. /\ r \in DeclaredFor(t.responses, q.status)
        /\ \/ r.media = None /\ reply.data = Null
           \/ r.media # None /\ Specificity(r.media, q.media) >= 0
    BY <2>5, ChosenFits
  <2>7. r \in ToSet(t.responses) /\ Success(r.status)
    BY <2>3, <2>6, DeclaredAreSuccesses
  <2>8. BodySchema(r) \subseteq OrElse(t.output, {})
    BY <2>1, <2>4, <2>7, EnvelopeHolds
  <2>9. CASE r.media = None
    BY <2>6, <2>8, <2>9 DEF BodySchema, EnvelopeSound
  <2>10. CASE r.media # None /\ ~(r.schema = Anything /\ r.media[1] = "text")
    BY <2>5, <2>8, <2>10 DEF BodySchema, EnvelopeSound
  <2>11. CASE r.media # None /\ r.schema = Anything /\ r.media[1] = "text"
    <3>1. reply.data \in Texts \cup {Null}
      BY <2>2, <2>6, <2>11, TextFitsText, TextIsDecoded
    <3>2. BodySchema(r) = Texts
      BY <2>11 DEF BodySchema
    <3>3. QED
      BY <2>7, <2>8, <2>11, <3>1, <3>2 DEF EnvelopeSound
  <2>12. QED
    BY <2>9, <2>10, <2>11
<1>2. QED
  BY <1>1, CInvAlways, PTL

-----------------------------------------------------------------------------
(* What leaves the runtime is what the caller and the description say. *)

\* In a query, the entries are those that the style prescribes.
LEMMA QueryIsPrescribed ==
  ASSUME NEW p, NEW v, p.location = "query", QueryValues(p, v) # None,
         v.kind \in {"scalar", "array", "object"}
  PROVE  ToSet(QueryValues(p, v)) = Prescribed(p, v)
<1> DEFINE style == OrElse(p.style, "form")
           spread == style = "form" /\ OrElse(p.explode, TRUE)
<1>1. Flat(v)
  BY DEF QueryValues
<1>2. \A part : Scalar(part) = JsonText(part)
  BY DEF Scalar, JsonText
<1>3. CASE v.kind = "scalar"
  <2>1. QueryValues(p, v) = <<Entry(p.name, Scalar(v.items[1]))>>
    BY <1>1, <1>3 DEF QueryValues
  <2>2. Prescribed(p, v) = {Entry(p.name, JsonText(v.items[1]))}
    BY <1>3 DEF Prescribed
  <2>3. QED
    BY <1>2, <2>1, <2>2 DEF ToSet
<1>4. CASE v.kind = "array" /\ spread
  <2>1. QueryValues(p, v) = [i \in DOMAIN v.items |-> Entry(p.name, Scalar(v.items[i]))]
    BY <1>1, <1>4 DEF QueryValues
  <2>2. Prescribed(p, v) = {Entry(p.name, JsonText(part)) : part \in ToSet(v.items)}
    BY <1>4 DEF Prescribed, OrElse
  <2>3. QED
    BY <1>2, <2>1, <2>2 DEF ToSet
<1>5. CASE v.kind = "object" /\ spread
  <2>1. QueryValues(p, v) = [i \in DOMAIN v.items |-> Entry(v.items[i].key, Scalar(v.items[i]))]
    BY <1>1, <1>5 DEF QueryValues
  <2>2. Prescribed(p, v) = {Entry(part.key, JsonText(part)) : part \in ToSet(v.items)}
    BY <1>5 DEF Prescribed, OrElse
  <2>3. QED
    BY <1>2, <2>1, <2>2 DEF ToSet
<1>6. CASE v.kind = "object" /\ style = "deepObject"
  <2>1. QueryValues(p, v) =
          [i \in DOMAIN v.items |-> Entry(p.name \o <<"[">> \o v.items[i].key, Scalar(v.items[i]))]
    BY <1>1, <1>6 DEF QueryValues, Delimited
  <2>2. Prescribed(p, v) = {Entry(p.name \o <<"[">> \o part.key, JsonText(part)) : part \in ToSet(v.items)}
    BY <1>6 DEF Prescribed
  <2>3. QED
    BY <1>2, <2>1, <2>2 DEF ToSet
<1>7. CASE v.kind # "scalar" /\ ~spread /\ ~(v.kind = "object" /\ style = "deepObject")
  <2> DEFINE delimiter == Delimiter(style)
             Cells(part) == IF v.kind = "object" THEN <<part.key, JsonText(part)>> ELSE <<JsonText(part)>>
  <2>1. style \in Delimited
    BY <1>1, <1>7 DEF QueryValues
  <2>2. QueryValues(p, v) = <<Entry(p.name, JoinedRows(delimiter, delimiter, Rows(v, Scalars(v))))>>
    BY <1>1, <1>7, <2>1 DEF QueryValues
  <2>3. Rows(v, Scalars(v)) = [i \in DOMAIN v.items |-> Cells(v.items[i])]
    BY <1>2 DEF Rows, Scalars
  <2>4. JoinedRows(delimiter, delimiter, Rows(v, Scalars(v)))
          = JoinedOrEmpty(delimiter, [i \in DOMAIN v.items |-> Joined(delimiter, Cells(v.items[i]))])
    BY <2>3 DEF JoinedRows
  <2>5. style \in {"form", "spaceDelimited", "pipeDelimited"}
    BY <2>1 DEF Delimited
  <2>6. delimiter = IF style \in {"simple", "form"} THEN ","
                    ELSE IF style = "pipeDelimited" THEN "|" ELSE " "
    BY <2>5 DEF Delimiter
  <2>7. Prescribed(p, v) = {Entry(p.name, JoinedOrEmpty(delimiter,
                                [i \in DOMAIN v.items |-> Joined(delimiter, Cells(v.items[i]))]))}
    BY <1>7, <2>5, <2>6 DEF Prescribed, OrElse
  <2>8. QED
    BY <2>2, <2>4, <2>7 DEF ToSet
<1>8. QED
  BY <1>3, <1>4, <1>5, <1>6, <1>7

\* At the other places there is one entry, of the items joined by commas.
LEMMA SimpleIsPrescribed ==
  ASSUME NEW p, NEW v, p.location \in {"path", "header"}, OrElse(p.style, "simple") = "simple",
         v.kind \in {"scalar", "array", "object"}, v.kind = "scalar" => 1 \in DOMAIN v.items,
         NEW rows,
         LET Coded(text) == IF p.location = "path" THEN Encoded(text) ELSE text
         IN  rows = [i \in DOMAIN v.items |->
                IF v.kind = "object" THEN <<Coded(v.items[i].key), Coded(JsonText(v.items[i]))>>
                ELSE <<Coded(JsonText(v.items[i]))>>]
  PROVE  {Entry(p.name, Simple(p, v, rows))} = Prescribed(p, v)
<1> DEFINE Coded(text) == IF p.location = "path" THEN Encoded(text) ELSE text
           Cells(part) == IF v.kind = "object" THEN <<Coded(part.key), Coded(JsonText(part))>>
                          ELSE <<Coded(JsonText(part))>>
           inner == IF OrElse(p.explode, FALSE) THEN "=" ELSE ","
<1>1. rows = [i \in DOMAIN v.items |-> Cells(v.items[i])]
  OBVIOUS
<1>2. CASE v.kind = "scalar"
  <2>1. rows[1][1] = Coded(JsonText(v.items[1]))
    BY <1>1, <1>2
  <2>2. QED
    BY <1>2, <2>1 DEF Simple, Prescribed
<1>3. CASE v.kind # "scalar"
  <2>1. [i \in DOMAIN rows |-> Joined(inner, rows[i])] = [i \in DOMAIN v.items |-> Joined(inner, Cells(v.items[i]))]
    BY <1>1
  <2>2. Simple(p, v, rows) = JoinedOrEmpty(",", [i \in DOMAIN v.items |-> Joined(inner, Cells(v.items[i]))])
    BY <1>3, <2>1 DEF Simple, JoinedRows
  <2>3. Prescribed(p, v) = {Entry(p.name, JoinedOrEmpty(",", [i \in DOMAIN v.items |-> Joined(inner, Cells(v.items[i]))]))}
    <3>1. OrElse(p.style, IF p.location = "query" THEN "form" ELSE "simple") = "simple"
      BY DEF OrElse
    <3>2. OrElse(p.explode, "simple" = "form") = OrElse(p.explode, FALSE)
      BY DEF OrElse
    <3>3. QED
      BY <1>3, <3>1, <3>2 DEF Prescribed
  <2>4. QED
    BY <2>2, <2>3
<1>4. QED
  BY <1>2, <1>3

\* What is due for a value, as the property names it.
DueEntries(p, v) == IF PythonSpelled(p, v) THEN ToSet(Entries(p, v)) ELSE Prescribed(p, v)

\* So the entries that are not refused are the ones due.
LEMMA EntriesAreDue ==
  ASSUME NEW p, NEW v, p.location \in {"path", "header", "query"}, Entries(p, v) # None,
         v.kind \in {"scalar", "array", "object"}, v.kind = "scalar" => 1 \in DOMAIN v.items
  PROVE  ToSet(Entries(p, v)) = DueEntries(p, v)
<1> SUFFICES ASSUME ~PythonSpelled(p, v) PROVE ToSet(Entries(p, v)) = Prescribed(p, v)
  BY DEF DueEntries
<1>1. \A part : Scalar(part) = JsonText(part)
  BY DEF Scalar, JsonText
<1>2. CASE p.location = "query"
  BY <1>2, QueryIsPrescribed DEF Entries
<1>3. CASE p.location = "path"
  <2> DEFINE python == [i \in DOMAIN v.items |-> PythonText(v.items[i])]
             texts == IF v.kind = "array" THEN python ELSE Scalars(v)
             rows == EncodedRows(Rows(v, texts))
  <2>1. \A i \in DOMAIN v.items : texts[i] = JsonText(v.items[i])
    BY <1>1, <1>3 DEF PythonSpelled, PythonText, JsonText, ToSet, Scalars
  <2>2. rows = [i \in DOMAIN v.items |->
                  IF v.kind = "object" THEN <<Encoded(v.items[i].key), Encoded(JsonText(v.items[i]))>>
                  ELSE <<Encoded(JsonText(v.items[i]))>>]
    <3>1. Rows(v, texts) = [i \in DOMAIN v.items |->
             IF v.kind = "object" THEN <<v.items[i].key, JsonText(v.items[i])>> ELSE <<JsonText(v.items[i])>>]
      BY <2>1 DEF Rows
    <3>2. ASSUME NEW x PROVE [j \in DOMAIN <<x>> |-> Encoded(<<x>>[j])] = <<Encoded(x)>>
      OBVIOUS
    <3>3. ASSUME NEW x, NEW y
          PROVE  [j \in DOMAIN <<x, y>> |-> Encoded(<<x, y>>[j])] = <<Encoded(x), Encoded(y)>>
      OBVIOUS
    <3> QED
      BY <3>1, <3>2, <3>3 DEF EncodedRows
  <2>3. PathValue(p, v) # None /\ Entries(p, v) = <<Entry(p.name, PathValue(p, v))>>
    BY <1>3 DEF Entries, OneEntry
  <2>4. OrElse(p.style, "simple") = "simple" /\ PathValue(p, v) = Simple(p, v, rows)
    BY <2>3 DEF PathValue
  <2> HIDE DEF rows
  <2>5. {Entry(p.name, Simple(p, v, rows))} = Prescribed(p, v)
    BY <1>3, <2>2, <2>4, SimpleIsPrescribed
  <2>6. QED
    BY <2>3, <2>4, <2>5 DEF ToSet
<1>4. CASE p.location = "header"
  <2> DEFINE rows == Rows(v, Scalars(v))
  <2>1. rows = [i \in DOMAIN v.items |->
                  IF v.kind = "object" THEN <<v.items[i].key, JsonText(v.items[i])>> ELSE <<JsonText(v.items[i])>>]
    BY <1>1 DEF Rows, Scalars
  <2>2. HeaderValue(p, v) # None /\ Entries(p, v) = <<Entry(p.name, HeaderValue(p, v))>>
    BY <1>4 DEF Entries, OneEntry
  <2>3. OrElse(p.style, "simple") = "simple" /\ HeaderValue(p, v) = Simple(p, v, rows)
    BY <2>2 DEF HeaderValue
  <2> HIDE DEF rows
  <2>4. {Entry(p.name, Simple(p, v, rows))} = Prescribed(p, v)
    BY <1>4, <2>1, <2>3, SimpleIsPrescribed
  <2>5. QED
    BY <2>2, <2>3, <2>4 DEF ToSet
<1>5. QED
  BY <1>2, <1>3, <1>4

\* The entries of a parameter, as the property names them.
GivenEntries(t, args, p) ==
    LET m == CHOOSE x \in t.mappings : x.param = p
    IN  IF m.field \in DOMAIN args THEN DueEntries(p, args[m.field]) ELSE {}

\* They are those of the parameter's one mapping.
LEMMA GivenIsMapped ==
  ASSUME NEW t, NEW args, NEW m \in t.mappings,
         \A n \in t.mappings : n.param = m.param => n = m
  PROVE  GivenEntries(t, args, m.param) = IF m \in Used(t, args) THEN DueEntries(m.param, args[m.field]) ELSE {}
<1>1. (CHOOSE x \in t.mappings : x.param = m.param) = m
  OBVIOUS
<1>2. QED
  BY <1>1 DEF GivenEntries, Used

\* So what is sent at a place is what is given for the parameters of that place.
LEMMA SentIsGiven ==
  ASSUME NEW t, NEW args, NEW location,
         \A m, n \in t.mappings : n.param = m.param => n = m,
         \A m \in Used(t, args) : ToSet(Entries(m.param, args[m.field])) = DueEntries(m.param, args[m.field])
  PROVE  AllEntries(t, args, location)
           = UNION {GivenEntries(t, args, m.param) : m \in {x \in t.mappings : x.param.location = location}}
<1> DEFINE Of(m) == DueEntries(m.param, args[m.field])
<1>1. AllEntries(t, args, location)
        = UNION {Of(m) : m \in {x \in Used(t, args) : x.param.location = location}}
  BY DEF AllEntries
<1>2. \A m \in t.mappings : GivenEntries(t, args, m.param) = IF m \in Used(t, args) THEN Of(m) ELSE {}
  BY GivenIsMapped
<1>3. Used(t, args) \subseteq t.mappings
  BY DEF Used
<1> HIDE DEF Of
<1>4. QED
  BY <1>1, <1>2, <1>3

\* The kinds of values.
LEMMA ValueShape ==
  ASSUME NEW v \in Value
  PROVE  /\ v.kind \in {"scalar", "array", "object"}
         /\ v.kind = "scalar" => 1 \in DOMAIN v.items
  BY ValuesAssumption

\* Every argument that a parameter is given is a value, and is not refused.
LEMMA UsedAreDue ==
  ASSUME setup \in Project, Compiled, NEW t \in manifest.tools, NEW args, InputValid(t, args),
         BuildRequest(t, args) # None, NEW m \in Used(t, args)
  PROVE  ToSet(Entries(m.param, args[m.field])) = DueEntries(m.param, args[m.field])
<1> DEFINE p == m.param
           v == args[m.field]
           op == setup.doc.operations[t.key]
<1>1. t.key \in Keys(setup.doc) /\ ~OperationRefused(op, t.profile) /\ t.mappings = Mappings(op, t.profile)
  BY ToolsAreCompiled
<1>2. m \in t.mappings /\ m.field \in DOMAIN args
  BY DEF Used
<1>3. p \in Parameters(op) /\ p.location \in DOMAIN LocationRank
  BY <1>1, <1>2, MappingsAreParameters, ValuesAssumption DEF Mapped
<1>4. p.location \in {"path", "header", "query"}
  BY <1>1, <1>3 DEF LocationRank, OperationRefused
<1>5. v \in Value
  BY <1>2, InputsAreValues DEF InputValid
<1>6. /\ v.kind \in {"scalar", "array", "object"}
      /\ v.kind = "scalar" => 1 \in DOMAIN v.items
  BY <1>5, ValueShape
<1>7. Entries(p, v) # None
  BY DEF BuildRequest
<1> HIDE DEF p, v
<1>8. ToSet(Entries(p, v)) = DueEntries(p, v)
  BY <1>4, <1>6, <1>7, EntriesAreDue
<1>9. QED
  BY <1>8 DEF p, v

\* A body that is not refused is the one that was given.
LEMMA BodyIsGiven ==
  ASSUME Compiled, NEW t \in manifest.tools, NEW v, t.body # None, Body(t.body, v) # None
  PROVE  BodyFaithful(setup.doc.operations[t.key], t.body.media, v, Body(t.body, v))
<1> DEFINE op == setup.doc.operations[t.key]
           media == t.body.media
           sent == Body(t.body, v)
           parts == ToSet(v.items)
           files == IF media = Multipart THEN Files(t.body, v) ELSE {}
           others == parts \ files
<1>1. t.body = BodyOf(op, t.mappings)
  BY ToolFields
<1>2. t.body.files = IF media = Multipart THEN op.body.files ELSE <<>>
  BY <1>1 DEF BodyOf, RequestBody, MultipartFiles
<1>3. Json # Multipart
  BY DEF Json, Multipart
<1>4. CASE media = Json
  <2>1. sent = Content(v, {}, {})
    BY <1>4 DEF Body
  <2>2. QED
    BY <1>4, <2>1 DEF BodyFaithful, Content
<1>5. CASE media # Json
  <2>1. /\ sent = Content(None, FormFields(others), {Entry(part.key, Base64[part.text]) : part \in files})
        /\ media = Multipart => ~FilesRefused(t.body, files)
        /\ \A part \in others : \A leaf \in FormValues(part) : ~Nested(leaf)
    BY <1>5 DEF Body
  <2>2. /\ sent.fields = FormFields(others)
        /\ sent.files = {Entry(part.key, Base64[part.text]) : part \in files}
    BY <2>1 DEF Content
  <2>3. \A part \in parts :
          part \in files <=> media = Multipart /\ part.key \in DOMAIN op.body.files /\ part.kind # "null"
    BY <1>2 DEF Files
  <2>4. files \subseteq parts
    BY DEF Files
  <2>5. \A part : Scalar(part) = JsonText(part)
    BY DEF Scalar, JsonText
  <2>6. \A e : e \in sent.fields <=>
          \E part \in others : \E leaf \in FormValues(part) : e = Entry(part.key, JsonText(leaf))
    BY <2>2, <2>5 DEF FormFields
  <2>7. media = Multipart => \A f \in DOMAIN op.body.files :
          op.body.files[f] => \E part \in files : part.key = f
    BY <1>2, <2>1 DEF FilesRefused
  <2> HIDE DEF op, media, sent, files, parts
  <2>8. \A name, text : Entry(name, text).name = name /\ Entry(name, text).text = text
    BY DEF Entry
  <2>9. \A part \in parts \ files : \A leaf \in FormValues(part) : Entry(part.key, JsonText(leaf)) \in sent.fields
    BY <2>6
  <2>10. \A part \in files : Entry(part.key, Base64[part.text]) \in sent.files
    BY <2>2
  <2>11. \A e \in sent.fields : \E part \in parts :
           /\ part \notin files /\ part.key = e.name
           /\ \E leaf \in FormValues(part) : ~Nested(leaf) /\ e.text = JsonText(leaf)
    <3>1. SUFFICES ASSUME NEW e \in sent.fields
                   PROVE  \E part \in parts :
                            /\ part \notin files /\ part.key = e.name
                            /\ \E leaf \in FormValues(part) : ~Nested(leaf) /\ e.text = JsonText(leaf)
      OBVIOUS
    <3>2. PICK part \in others : \E leaf \in FormValues(part) : e = Entry(part.key, JsonText(leaf))
      BY <2>6
    <3>3. PICK leaf \in FormValues(part) : e = Entry(part.key, JsonText(leaf))
      BY <3>2
    <3>4. ~Nested(leaf) /\ e.name = part.key /\ e.text = JsonText(leaf)
      BY <2>1, <2>8, <3>3
    <3>5. QED
      BY <3>4
  <2>12. \A e \in sent.files : \E part \in parts : part \in files /\ part.key = e.name
    BY <2>2, <2>4, <2>8
  <2>13. media = Multipart => \A f \in DOMAIN op.body.files :
           op.body.files[f] => \E e \in sent.files : e.name = f
    BY <2>2, <2>7, <2>8
  <2> DEFINE isFile == [part \in ToSet(v.items) |->
                          media = Multipart /\ part.key \in DOMAIN op.body.files /\ part.kind # "null"]
  <2>14. \A part \in parts : isFile[part] <=> part \in files
    BY <2>3 DEF parts
  <2>15. BodyFaithful(op, media, v, sent)
    BY <1>5, <2>9, <2>10, <2>11, <2>12, <2>13, <2>14 DEF BodyFaithful, FormValues, parts
  <2>16. QED
    BY <2>15 DEF op, media, sent
<1>6. QED
  BY <1>4, <1>5

\* A credential is at most one entry of a place, and no entry the runtime writes itself.
LEMMA InjectionIsSecret ==
  ASSUME NEW profile
  PROVE  LET auth == InjectionFor(profile)
         IN  /\ \A e, f \in auth.query : e = f
             /\ \A e, f \in auth.headers : e = f
             /\ \A e \in auth.headers : e.text = <<"secret">>
  BY DEF InjectionFor, Entry

\* What was not refused is the union, and no name of a credential is taken.
LEMMA AppliedAuth ==
  ASSUME NEW headers, NEW query, NEW auth, ApplyAuth(headers, query, auth) # None
  PROVE  /\ ApplyAuth(headers, query, auth) = [headers |-> headers \cup auth.headers, query |-> query \cup auth.query]
         /\ \A e \in headers, f \in auth.headers : Fold(e.name) # Fold(f.name)
         /\ \A e \in query, f \in auth.query : e.name # f.name
  BY DEF ApplyAuth

\* The header lines the runtime writes itself.
OwnLines(t, args) ==
    {Entry(<<"Accept">>, Json)}
    \cup (IF t.body # None /\ t.body.field \in DOMAIN args /\ t.body.media # Multipart
          THEN {Entry(<<"Content-Type">>, t.body.media)} ELSE {})

\* A request that was not refused, place by place.
LEMMA RequestBuilt ==
  ASSUME NEW t, NEW args, BuildRequest(t, args) # None
  PROVE  LET r == BuildRequest(t, args)
             auth == InjectionFor(t.profile)
             lines == AllEntries(t, args, "header") \cup OwnLines(t, args)
         IN  /\ r.server = t.server
             /\ r.path = AllEntries(t, args, "path")
             /\ r.query = AllEntries(t, args, "query") \cup auth.query
             /\ r.headers = lines \cup auth.headers
             /\ IF t.body # None /\ t.body.field \in DOMAIN args
                THEN r.body = Body(t.body, args[t.body.field]) /\ r.body # None ELSE r.body = None
             /\ \A e \in lines, f \in auth.headers : Fold(e.name) # Fold(f.name)
             /\ \A e \in AllEntries(t, args, "query"), f \in auth.query : e.name # f.name
<1> DEFINE r == BuildRequest(t, args)
           auth == InjectionFor(t.profile)
           headers == {Entry(<<"Accept">>, Json)} \cup AllEntries(t, args, "header")
                        \cup (IF t.body # None /\ t.body.field \in DOMAIN args /\ t.body.media # Multipart
                              THEN {Entry(<<"Content-Type">>, t.body.media)} ELSE {})
           query == AllEntries(t, args, "query")
           applied == ApplyAuth(headers, query, auth)
<1>1. /\ applied # None
      /\ r.server = t.server /\ r.path = AllEntries(t, args, "path")
      /\ r.headers = applied.headers /\ r.query = applied.query
      /\ IF t.body # None /\ t.body.field \in DOMAIN args
         THEN r.body = Body(t.body, args[t.body.field]) /\ r.body # None ELSE r.body = None
  BY DEF BuildRequest
<1>2. headers = AllEntries(t, args, "header") \cup OwnLines(t, args)
  BY DEF OwnLines
<1> HIDE DEF headers, query, auth
<1>3. /\ applied = [headers |-> headers \cup auth.headers, query |-> query \cup auth.query]
      /\ \A e \in headers, f \in auth.headers : Fold(e.name) # Fold(f.name)
      /\ \A e \in query, f \in auth.query : e.name # f.name
  BY <1>1, AppliedAuth
<1>4. r.headers = headers \cup auth.headers /\ r.query = query \cup auth.query
  BY <1>1, <1>3
<1>5. QED
  BY <1>1, <1>2, <1>3, <1>4 DEF query, auth

\* The header lines that are neither arguments nor a credential.
WrittenLines == {Entry(<<"Accept">>, Json), Entry(<<"Content-Type">>, Json), Entry(<<"Content-Type">>, Form)}

\* They are what the request builder always writes: Accept, and the type of a JSON or form body.
LEMMA OwnLinesAreWritten ==
  ASSUME Compiled, NEW t \in manifest.tools, NEW args
  PROVE  OwnLines(t, args) \subseteq WrittenLines
<1> DEFINE op == setup.doc.operations[t.key]
<1>1. t.body = BodyOf(op, t.mappings) /\ ~OperationRefused(op, t.profile)
  BY ToolsAreCompiled, ToolFields
<1>2. t.body # None => t.body.media \in {Json, Form, Multipart}
  BY <1>1, MediaIsSent DEF BodyOf, RequestBody
<1>3. QED
  BY <1>2 DEF OwnLines, WrittenLines

\* No credential looks like one of them.
LEMMA SecretsAreNotWritten ==
  ASSUME NEW profile
  PROVE  InjectionFor(profile).headers \cap WrittenLines = {}
<1>1. \A e \in WrittenLines : e.text \in {Json, Form}
  BY DEF WrittenLines, Entry
<1>2. <<"secret">> \notin {Json, Form}
  BY DEF Json, Form
<1>3. QED
  BY <1>1, <1>2, InjectionIsSecret

\* The server is one that the operation may be sent to.
LEMMA ServerIsCandidate ==
  ASSUME Compiled, NEW t \in manifest.tools
  PROVE  t.server \in ToSet(Candidates(setup.doc, setup.routing, t.key))
<1>1. t.key \in Keys(setup.doc) /\ t.server # None /\ t.server = Selected(setup.doc, setup.routing, t.key)
  BY ToolsAreCompiled, ToolFields
<1>2. ~RoutingRefused(setup.doc, setup.routing)
  BY DEF Compiled
<1>3. QED
  BY <1>1, <1>2 DEF RoutingRefused, NoServer, ActiveUnknown, NotApplicable, UnknownMapping

\* Every parameter that the credential does not supply is at one of the three places.
LEMMA ParametersArePlaced ==
  ASSUME setup \in Project, Compiled, NEW t \in manifest.tools,
         NEW p \in Parameters(setup.doc.operations[t.key]), ~Supplied(p, t.profile)
  PROVE  p.location \in {"header", "path", "query"} /\ \E m \in t.mappings : m.param = p
<1> DEFINE op == setup.doc.operations[t.key]
<1>1. t.key \in Keys(setup.doc) /\ ~OperationRefused(op, t.profile) /\ t.mappings = Mappings(op, t.profile)
  BY ToolsAreCompiled
<1>2. p.location \in DOMAIN LocationRank
  BY <1>1, ValuesAssumption
<1>3. p.location \in {"header", "path", "query"}
  BY <1>1, <1>2 DEF LocationRank, OperationRefused
<1>4. p \in Mapped(op, t.profile)
  BY DEF Mapped
<1>5. QED
  BY <1>1, <1>3, <1>4, MappingsAreParameters

\* Every request that leaves the runtime is faithful, whatever the project and the arguments.
THEOREM RequestsAreFaithful == ContractSpec => []RequestFaithful
<1>1. CInv => RequestFaithful
  <2> SUFFICES ASSUME CInv, call # None PROVE RequestFaithful
    BY DEF RequestFaithful
  <2> DEFINE t == call.tool
             args == call.args
             r == call.request
             op == setup.doc.operations[t.key]
             auth == InjectionFor(t.profile)
             Place(l) == [header |-> r.headers, query |-> r.query, path |-> r.path][l]
             Sent(l) == UNION {GivenEntries(t, args, m.param) : m \in {x \in t.mappings : x.param.location = l}}
  <2>1. /\ setup \in Project /\ Compiled /\ t \in manifest.tools
        /\ r = BuildRequest(t, args) /\ BuildRequest(t, args) # None
        /\ InputValid(t, args)
    BY DEF CInv, CallBuilt
  <2>2. \A m, n \in t.mappings : n.param = m.param => n = m
    BY <2>1, ToolsAreCompiled, MappingsAreParameters
  <2>3. \A l : AllEntries(t, args, l) = Sent(l)
    <3>1. \A m \in Used(t, args) : ToSet(Entries(m.param, args[m.field])) = DueEntries(m.param, args[m.field])
      BY <2>1, UsedAreDue
    <3>2. QED
      BY <2>2, <3>1, SentIsGiven
  <2>4. /\ r.server = t.server
        /\ r.path = AllEntries(t, args, "path")
        /\ r.query = AllEntries(t, args, "query") \cup auth.query
        /\ r.headers = AllEntries(t, args, "header") \cup OwnLines(t, args) \cup auth.headers
        /\ \A e \in AllEntries(t, args, "header") \cup OwnLines(t, args), f \in auth.headers :
              Fold(e.name) # Fold(f.name)
        /\ \A e \in AllEntries(t, args, "query"), f \in auth.query : e.name # f.name
        /\ IF t.body # None /\ t.body.field \in DOMAIN args
           THEN r.body = Body(t.body, args[t.body.field]) /\ r.body # None ELSE r.body = None
    BY <2>1, RequestBuilt
  <2>5. r.server \in ToSet(Candidates(setup.doc, setup.routing, t.key))
    BY <2>1, <2>4, ServerIsCandidate
  <2>6. OwnLines(t, args) \subseteq WrittenLines /\ auth.headers \cap WrittenLines = {}
    BY <2>1, OwnLinesAreWritten, SecretsAreNotWritten
  <2>7. \A p \in Parameters(op) : Supplied(p, t.profile) \/ GivenEntries(t, args, p) \subseteq Place(p.location)
    <3> SUFFICES ASSUME NEW p \in Parameters(op), ~Supplied(p, t.profile)
                 PROVE  GivenEntries(t, args, p) \subseteq Place(p.location)
      OBVIOUS
    <3>1. p.location \in {"header", "path", "query"} /\ \E m \in t.mappings : m.param = p
      BY <2>1, ParametersArePlaced
    <3>2. GivenEntries(t, args, p) \subseteq Sent(p.location)
      BY <3>1
    <3>3. GivenEntries(t, args, p) \subseteq AllEntries(t, args, p.location)
      BY <2>3, <3>2
    <3> HIDE DEF t, args, r, auth
    <3>4. AllEntries(t, args, p.location) \subseteq Place(p.location)
      BY <2>4, <3>1
    <3>5. QED
      BY <3>3, <3>4
  <2>12. IF t.body # None /\ t.body.field \in DOMAIN args
         THEN BodyFaithful(op, t.body.media, args[t.body.field], r.body) ELSE r.body = None
    BY <2>1, <2>4, BodyIsGiven
  <2> HIDE DEF t, args, r, auth, op, Sent
  <2>8. r.path = Sent("path") /\ r.query = Sent("query") \cup auth.query
    BY <2>3, <2>4
  <2>9. r.headers \ WrittenLines = (Sent("header") \ WrittenLines) \cup auth.headers
    BY <2>3, <2>4, <2>6
  <2>10. \A e \in auth.query : {x \in r.query : x.name = e.name} = {e}
    <3>1. \A e, f \in auth.query : e = f
      BY InjectionIsSecret DEF auth
    <3>2. QED
      BY <2>4, <3>1
  <2>11. \A e \in auth.headers : {x \in r.headers : Fold(x.name) = Fold(e.name)} = {e}
    <3>1. \A e, f \in auth.headers : e = f
      BY InjectionIsSecret DEF auth
    <3>2. QED
      BY <2>4, <3>1
  <2>13. QED
    BY <2>5, <2>7, <2>8, <2>9, <2>10, <2>11, <2>12
    DEF RequestFaithful, GivenEntries, DueEntries, WrittenLines, t, args, r, auth, op, Sent
<1>2. QED
  BY <1>1, CInvAlways, PTL

=============================================================================
