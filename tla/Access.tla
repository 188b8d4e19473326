------------------------------- MODULE Access -------------------------------
(***************************************************************************)
(* Who may call a project's runtimes and with which secret they call the   *)
(* API behind them, on top of the deployments of module Deployment.        *)
(*                                                                         *)
(*   services/mcp_access.py, repositories/mcp_access.py   tokens and modes *)
(*   services/credentials.py, repositories/credentials.py the API's secret *)
(*   services/deployment/preflight.py                     what may run     *)
(*   services/deployment/secret_materializer.py           a runtime's view *)
(*   services/deployment/effect_state.py                  what users see   *)
(*   clients/runtime_files.py                             the mounted files*)
(*                                                                         *)
(* A runtime knows what was in its files when its container was created.   *)
(* An operation that takes access back commits together with the commands  *)
(* that replace or stop the runtimes that know it, and is shown as         *)
(* effective when those commands have succeeded.  A step of the deployment *)
(* module is taken as it is and given its effect on the files.             *)
(*                                                                         *)
(* One credential, which the deployed build needs, stands for all; the     *)
(* operations lock the project's row before they commit and are atomic.    *)
(***************************************************************************)
EXTENDS Deployment, FiniteSets

CONSTANTS
    Token,            \* access tokens
    Production,       \* the environment: no unauthenticated access
    MaxRequests,      \* the deployments that are not replacements come first
    MaxOps,           \* operations on access in a behaviour
    Budget            \* deployments and failing steps of the runner in a behaviour

ASSUME AccessAssumption ==
    /\ Token \cap {"config", "credential"} = {}
    /\ Production \in BOOLEAN
    /\ MaxRequests \in Nat
    /\ MaxOps \in Nat
    /\ Budget \in Nat

VARIABLES
    mode, rev,                   \* mcp_auth_configs: the mode and how often it was set
    token, replacedBy,           \* mcp_access_tokens; history: <<old, new>> of every rotation
    secret, revoked,             \* the credential: its version, revoked_at
    snap,                        \* the runner's preflight_result
    files, loaded,               \* the mounted files, and what containers were created with
    latest,                      \* per subject: its last transition's commands, not yet effective
    withdrawn, shown,            \* history: what was taken back for whom, what was acknowledged
    revived,                     \* history: deployments given back after they were STOPPED
    ops, faults

accessRows == <<mode, rev, token, replacedBy, secret, revoked>>
runtimes == <<snap, files, loaded>>
accessVars == <<accessRows, runtimes, latest, withdrawn, shown, revived, ops, faults>>
allVars == <<vars, accessVars>>

Subject == Token \cup {"config", "credential"}

\* upsert_config and rotate overwrite a row; here they make a new revision of it.
Revision == 0 .. MaxOps + 1
Version == 1 .. MaxOps + 1

\* The two kinds of verifiers: without an end, and with the end of a rotation.
Bundle == [rev : Revision, plain : SUBSET Token, until : SUBSET Token, secret : {0} \cup Version]
NoBundle == [rev |-> 0, plain |-> {}, until |-> {}, secret |-> 0]

Item == ({"config"} \X Revision) \cup ({"token"} \X Token) \cup ({"secret"} \X Version)

AccessTypeOK ==
    /\ mode \in {"none", "static", "oidc", "dev"}
    /\ rev \in Revision
    /\ token \in [Token -> {"absent", "active", "expiring", "expired", "revoked", "over"}]
    /\ replacedBy \subseteq Token \X Token
    /\ secret \in Version
    /\ revoked \in BOOLEAN
    /\ snap \in Bundle
    /\ files \in [Deployment -> Bundle]
    /\ loaded \in [Deployment -> Bundle]
    /\ latest \in [Subject -> SUBSET (Deployment \X (Deployment \cup {Alone}))]
    /\ withdrawn \subseteq Item \X Subject
    /\ shown \subseteq Item
    /\ revived \subseteq Deployment
    /\ ops \in 0 .. MaxOps
    /\ faults \in Nat

\* A project whose access is configured or not, before its first deployment.
AccessInit ==
    /\ Init
    /\ \E T \in SUBSET Token :
           /\ token = [t \in Token |-> IF t \in T THEN "active" ELSE "absent"]
           /\ mode = IF T = {} THEN "none" ELSE "static"
    /\ rev = IF mode = "none" THEN 0 ELSE 1
    /\ replacedBy = {}
    /\ secret = 1
    /\ revoked = FALSE
    /\ snap = NoBundle
    /\ files = [d \in Deployment |-> NoBundle]
    /\ loaded = [d \in Deployment |-> NoBundle]
    /\ latest = [s \in Subject |-> {}]
    /\ withdrawn = {}
    /\ shown = {}
    /\ revived = {}
    /\ ops = 0
    /\ faults = 0

-----------------------------------------------------------------------------
(* What may be served. *)

\* active_verifiers, by the database's clock
ActiveVerifiers(tok) == {t \in Token : tok[t] \in {"active", "expiring"}}

\* materialize_inbound_auth for a configuration and its verifiers.
Materializable(m, tok) ==
    \/ m = "static" /\ ActiveVerifiers(tok) # {}
    \/ m = "oidc"
    \/ m = "dev" /\ ~Production

\* _validate_auth_configuration
ValidConfiguration(m) == m = "dev" => ~Production

\* _validate_credential: a build's credential is there and not revoked.
CredentialUsable == ~revoked

\* DeploymentPreflight.validate, as far as it depends on access.
Validate(m, tok) == Materializable(m, tok) /\ CredentialUsable

Deployable == Validate(mode, token)

\* The verifiers that the preflight leaves to the runner.
Overlay ==
    [rev |-> rev,
     plain |-> IF mode = "static" THEN {t \in Token : token[t] = "active"} ELSE {},
     until |-> IF mode = "static" THEN {t \in Token : token[t] = "expiring"} ELSE {},
     secret |-> 0]

\* decrypt_many_for_execution reads the row again, after the preflight.
Decryptable == ~revoked

\* build_bundle: the preflight's verifiers, and the secret as it is decrypted now.
BuildBundle == [snap EXCEPT !.secret = secret]

-----------------------------------------------------------------------------
(* What is shown: the effect state of a subject. *)

\* The end of a command of the deployment module: mark_effective.
Took(c) ==
    IF c[1] = c[2]
      THEN deployCmd'[c[1]] = "effective"
      ELSE c \in stopDue \ stopDue' /\ status'[c[1]] \in {"STOPPED", "FAILED"}

\* Faulty variant: only the transition's last command counts.
RuntimeEffect_Last(commandsOf) ==
    {i \in {p[1] : p \in withdrawn'} :
        \E s \in Subject :
            /\ <<i, s>> \in withdrawn'
            /\ \A c \in commandsOf[s] : c[1] # c[2]}

\* runtime_effect_update: effective when no command of the subject's last
\* transition is pending or failed, or there never was one.
RuntimeEffect(commandsOf) ==
    {i \in {p[1] : p \in withdrawn'} :
        \E s \in Subject : <<i, s>> \in withdrawn' /\ commandsOf[s] = {}}

\* latest_for_subject and list_transition: the commands of the last transition
\* that created any for the subject.
Record(items, s, created) ==
    /\ withdrawn' = withdrawn \cup (items \X {s})
    /\ latest' = IF created = {} THEN latest ELSE [latest EXCEPT ![s] = created]
    /\ shown' = shown \cup RuntimeEffect(latest')

\* _token_with_runtime_state: the tokens that their list shows as gone and EFFECTIVE,
\* by the last transition whose subject is the token itself.
ListedGone ==
    {<<"token", t>> :
        t \in {x \in Token : token[x] \in {"revoked", "expired", "over"} /\ latest[x] = {}}}

-----------------------------------------------------------------------------
(* Scheduling the runtime's side of an operation, in its transaction. *)

Operation == ops < MaxOps /\ ops' = ops + 1 /\ UNCHANGED <<runtimes, revived, faults>>

LiveRows == {d \in Deployment : Live(d)}

\* schedule_stop_project
EffectByStop(items, s) ==
    /\ StopProject
    /\ Record(items, s, LiveRows \X {Alone})

\* The rows that a redeployment stops itself.
Superseded(first) == {d \in LiveRows : first \/ status[d] \in InProgress}

\* There is something to deploy, nothing else is on its way, and the preflight
\* accepts the rows as the operation leaves them.
Replaceable(first) ==
    /\ enabled
    /\ active # NoDeployment \/ hasBuild \/ LiveRows # {}
    /\ ~Conflict(Superseded(first))
    /\ Validate(mode', token')

\* schedule_redeploy_active: a replacement, or fallback_to_stop
EffectByRedeploy(items, s, first) ==
    IF Replaceable(first)
      THEN \E n \in Deployment :
             /\ RedeployActive(n, first)
             /\ Record(items, s, (Superseded(first) \X {n}) \cup {<<n, n>>})
      ELSE EffectByStop(items, s)

\* _schedule_security_effect, on the rows as the operation leaves them.
ScheduleSecurityEffect(items, s) ==
    IF Materializable(mode', token')
      THEN EffectByRedeploy(items, s, FALSE)
      ELSE EffectByStop(items, s)

-----------------------------------------------------------------------------
(* MCPAccessService *)

RequireStaticMode == mode \in {"none", "static"}

\* upsert_config
Configure(m) ==
    /\ Operation
    /\ ValidConfiguration(m)
    /\ mode' = m
    /\ rev' = rev + 1
    /\ UNCHANGED <<token, replacedBy, secret, revoked>>
    /\ ScheduleSecurityEffect({<<"config", r>> : r \in {rev} \ {0}}, "config")

\* _issue_token: a row with a name of its own.
IssueToken(n, tok) == token' = [tok EXCEPT ![n] = "active"]

CreateToken(n) ==
    /\ Operation
    /\ RequireStaticMode
    /\ token[n] = "absent"
    /\ IssueToken(n, token)
    /\ UNCHANGED <<mode, rev, replacedBy, secret, revoked>>
    /\ ScheduleSecurityEffect({}, n)

\* expire_for_rotation
ExpireForRotation(t, overlap) ==
    [token EXCEPT ![t] = IF overlap THEN "expiring" ELSE "revoked"]

\* rotate_token: the commands belong to the new token, which is what the caller is
\* given; what takes the old one back waits for them under the new one's name.  The old
\* token's own row waits for nothing, and its list shows it as EFFECTIVE at once (ListedGone).
\* With an overlap the old one is taken back when its time is over (Expire).
RotateToken(t, n, overlap) ==
    /\ Operation
    /\ RequireStaticMode
    /\ token[t] \in {"active", "expiring"}
    /\ token[n] = "absent"
    /\ IssueToken(n, ExpireForRotation(t, overlap))
    /\ replacedBy' = replacedBy \cup {<<t, n>>}
    /\ UNCHANGED <<mode, rev, secret, revoked>>
    /\ ScheduleSecurityEffect({<<"token", x>> : x \in {y \in {t} : ~overlap}}, n)

\* revoke_token, in any mode; a token that is revoked already is left alone.
RevokeToken(t) ==
    /\ Operation
    /\ token[t] \in {"active", "expiring", "expired"}
    /\ token' = [token EXCEPT ![t] = IF @ = "expired" THEN "over" ELSE "revoked"]
    /\ UNCHANGED <<mode, rev, replacedBy, secret, revoked>>
    /\ ScheduleSecurityEffect({<<"token", t>>}, t)

\* The end of an overlap: the database and the runtimes that were given it
\* refuse the token from now on.
Expire(t) ==
    /\ token[t] = "expiring"
    /\ token' = [token EXCEPT ![t] = "expired"]
    /\ withdrawn' = withdrawn \cup {<<<<"token", t>>, p[2]>> : p \in {q \in replacedBy : q[1] = t}}
    /\ shown' = shown \cup RuntimeEffect(latest)
    /\ UNCHANGED <<vars, mode, rev, replacedBy, secret, revoked, runtimes, latest,
                   revived, ops, faults>>

-----------------------------------------------------------------------------
(* CredentialService *)

\* rotate: the row is read, the new secret encrypted, and the row locked, which
\* must be as it was read (rotated_at, key_version, metadata, not revoked); every
\* live runtime is stopped before its replacement starts.
RotateSecret ==
    /\ Operation
    /\ ~revoked
    /\ secret' = secret + 1
    /\ UNCHANGED <<mode, rev, token, replacedBy, revoked>>
    /\ EffectByRedeploy({<<"secret", secret>>}, "credential", TRUE)

RevokeCredential ==
    /\ Operation
    /\ ~revoked
    /\ revoked' = TRUE
    /\ EffectByStop({<<"secret", secret>>}, "credential")
    /\ UNCHANGED <<mode, rev, token, replacedBy, secret>>

-----------------------------------------------------------------------------
(* The steps of module Deployment, with their effect on what runtimes know. *)

\* A container knows the files it was created with; the preflight's result is a
\* local variable of the runner, used by the next step.
Containers ==
    /\ loaded' = [d \in Deployment |-> IF container'[d] = "none" THEN NoBundle
                                       ELSE IF container[d] = "none" THEN files[d]
                                       ELSE loaded[d]]
    /\ snap' = IF pc' # "prepare" THEN NoBundle ELSE IF pc = "prepare" THEN snap ELSE Overlay

\* Commands that have succeeded are no longer waited for.
Acknowledge ==
    /\ latest' = [s \in Subject |-> {c \in latest[s] : ~Took(c)}]
    /\ UNCHANGED withdrawn
    /\ shown' = shown \cup RuntimeEffect(latest')

\* What every step of a deployment does besides.
Aside ==
    /\ Containers
    /\ Acknowledge
    /\ revived' = revived \cup
         {d \in Deployment : status[d] = "STOPPED" /\ status'[d] = "RUNNING"}
    /\ UNCHANGED <<accessRows, ops>>

\* A request is refused unless the preflight accepts it.  None asks for the old runtime
\* to be stopped first: that order is left to the runs of Deployment.
Requests ==
    /\ Deployable
    /\ \E n \in Deployment : \/ n <= MaxRequests /\ Request(n, FALSE)
                             \/ \E t \in Deployment : Rollback(n, t)
    /\ Aside
    /\ UNCHANGED <<files, faults>>

\* run: the preflight once more, and what it found is kept.
Begins ==
    /\ Deployable
    /\ \E d \in Deployment : DeployBegins(d)
    /\ Aside
    /\ UNCHANGED <<files, faults>>

\* _write_exact: files that are there are never replaced by others.
Writable(d, b) == files[d] \in {NoBundle, b}

\* RuntimeFilesClient.materialize; a revoked credential is not decrypted.
Materializes ==
    /\ Prepare
    /\ Decryptable
    /\ Writable(run, BuildBundle)
    /\ files' = [files EXCEPT ![run] = BuildBundle]
    /\ Aside
    /\ UNCHANGED faults

\* _assert_existing_container: the hash of the secret file is in its environment.
Reusable(d) == container[d] = "none" \/ loaded[d] = files[d]

Provisions ==
    /\ Provision
    /\ Reusable(run)
    /\ Aside
    /\ UNCHANGED <<files, faults>>

\* RuntimeFilesClient.remove, after the container's removal.
Removes(d) ==
    /\ files' = [files EXCEPT ![d] = NoBundle]
    /\ Aside
    /\ UNCHANGED faults

Removals ==
    \/ StopRuntime /\ Removes(run)
    \/ RemovePrevious /\ Removes(previous[run])
    \/ \E d \in Deployment : SweepStop(d) /\ Removes(d)
    \/ Cleanup(TRUE) /\ Removes(run)

\* The steps that leave the files and the containers' knowledge alone.
Others ==
    /\ \/ \E d \in Deployment : DeployIsOver(d) \/ DeployResumes(d) \/ DeployRefused(d)
       \/ \E d \in Deployment, t \in Deployment \cup {Alone} : StopStarts(d, t)
       \/ StopTakesEffect(TRUE)
       \/ Start \/ StartRefused \/ BeginActivation \/ ActivationRefused
       \/ Retire \/ RetireRefused \/ StopPrevious \/ Complete
       \/ Sweep \/ SweepRow \/ Verify \/ Recheck
       \/ StopCandidate \/ RestorePrevious \/ RestoreRow
       \/ SettleForRetry \/ SettleAsFailed
    /\ Aside
    /\ UNCHANGED <<files, faults>>

\* The step fails because of what it finds, not because of a fault.
Bound ==
    \/ Forced
    \/ pc = "prepare" /\ ~(Decryptable /\ Writable(run, BuildBundle))
    \/ pc = "provision" /\ ~Reusable(run)

\* A failed clean-up of a container goes on to the files (_cleanup_failed_without_masking).
Faults ==
    /\ Failing
    /\ IF Bound THEN UNCHANGED faults ELSE faults' = faults + 1
    /\ files' = IF pc = "cleanup" /\ pc' = "settle" THEN [files EXCEPT ![run] = NoBundle] ELSE files
    /\ Aside

-----------------------------------------------------------------------------

\* The bound on what a behaviour may do.
Within == Cardinality({d \in Deployment : status[d] # "ABSENT"}) + faults <= Budget

AccessNext ==
    /\ \/ \E m \in {"static", "oidc", "dev"} : Configure(m)
       \/ \E n \in Token : CreateToken(n)
       \/ \E t, n \in Token, overlap \in BOOLEAN : RotateToken(t, n, overlap)
       \/ \E t \in Token : RevokeToken(t) \/ Expire(t)
       \/ RotateSecret \/ RevokeCredential
       \/ Requests \/ Begins \/ Materializes \/ Provisions \/ Removals \/ Others \/ Faults
    /\ Within'

AccessSpec == AccessInit /\ [][AccessNext]_allVars

-----------------------------------------------------------------------------
(* Properties. *)

\* The deployments that the project counts as its runtimes.  A runtime that
\* Docker refused to stop when its deployment failed is not among them: nothing
\* but its FAILED or UNHEALTHY row remembers it.  A replacement passes such a row
\* over; that a later stop of the project finds it again does not make it one.
Counts(d) ==
    /\ container[d] = "up"
    /\ status[d] \in InProgress \cup {"RUNNING", "STOPPING"}
    /\ phase[d] # "failed"

\* StaticBearerTokenVerifier.verify_token, upstream credentials, and the mode.
Honours(d, i) ==
    CASE i[1] = "config" -> loaded[d].rev = i[2]
      [] i[1] = "token" -> \/ i[2] \in loaded[d].plain
                           \/ i[2] \in loaded[d].until /\ token[i[2]] \notin {"expired", "over"}
      [] i[1] = "secret" -> loaded[d].secret = i[2]

Honoured == {i \in Item : \E d \in Deployment \ revived : Counts(d) /\ Honours(d, i)}

\* The token was replaced by a rotation and never revoked by itself.
OnlyRotated(t) ==
    /\ \E p \in replacedBy : p[1] = t
    /\ <<<<"token", t>>, t>> \notin withdrawn

\* What an operator has been told is effective: the operation, by the subject of its
\* commands, and the token list, but for the rows that a rotation replaced.
Acknowledged == shown \cup {i \in ListedGone : ~OnlyRotated(i[2])}

Promised == INSTANCE Revocation WITH
    withdrawn <- {p[1] : p \in withdrawn},
    acknowledged <- Acknowledged,
    honoured <- Honoured

\* Access that was taken back is refused from the moment the operation, or the list of
\* tokens, shows it as effective, whatever was cut off, retried, restored or requested
\* meanwhile: the operations on access and the deployments together implement Revocation.
\* Of a token that was only rotated it is the new token's row that says so: the old one's
\* own row says it too early (TokenListIsHonest).
AccessRefines == Promised!Spec

\* A token that the list shows as gone and EFFECTIVE is accepted by no runtime, the tokens
\* that a rotation replaced included (_token_with_runtime_state, rotate_token).
TokenListIsHonest == ListedGone \cap Honoured = {}

\* What was shown is refused by every deployment that serves, the ones that were given
\* back after they had been stopped included: what is shown as revoked is accepted nowhere.
WithdrawalIsFinal ==
    \A d \in Deployment : Counts(d) => \A i \in shown : ~Honours(d, i)
=============================================================================
