--------------------------- MODULE PlatformProofs ---------------------------
(***************************************************************************)
(* Proofs about the components that run beside a build.                    *)
(*                                                                         *)
(* The accounts of the platform, for any users, sessions, settings and     *)
(* requests at the same time; and the two caches of a runtime, of the      *)
(* access tokens it presents and of the keys it checks tokens with, for    *)
(* any number of calls and verifications at the same time, any lifetimes   *)
(* and any timeouts.                                                       *)
(*                                                                         *)
(* The knowledge of a build, for any number of executions, chunks,         *)
(* embedding models and operations.  A step writes the variables of one    *)
(* job, and rows only under the name of that job's execution; so the       *)
(* argument is about a single job, about the rows that come and go under a *)
(* name, and about the model calls, of which one that succeeded is never   *)
(* written again.                                                          *)
(***************************************************************************)
EXTENDS Knowledge, Accounts, RuntimeCaches, FiniteSetTheorems, TLAPS

-----------------------------------------------------------------------------
(* The accounts. *)

USE AccountsAssumption

\* What a request carries at each of its places.
LEMMA CallerKinds ==
  ASSUME AccountsTypeOK, NEW q \in Caller
  PROVE  /\ caller[q].at = "login" => caller[q].user \in User
         /\ caller[q].at = "refresh" => caller[q].of \in Session /\ caller[q].token \in Nat
         /\ caller[q].at \in {"update", "write"} => caller[q] \in [at : {"update", "write"}, user : User, change : Change]
         /\ caller[q].at = "settings" => /\ caller[q].field \in Setting /\ caller[q].value \in 1 .. MaxChanges
                                         /\ caller[q].seen \in Settings
<1> DEFINE c == caller[q]
<1>1. \/ c = Idle
      \/ c \in [at : {"login"}, user : User]
      \/ c \in [at : {"refresh"}, of : Session, token : Nat]
      \/ c \in [at : {"update", "write"}, user : User, change : Change]
      \/ c \in [at : {"settings"}, field : Setting, value : 1 .. MaxChanges, seen : Settings]
  BY DEF AccountsTypeOK
<1>2. QED
  BY <1>1 DEF Idle

\* A session that was opened has all its fields.
LEMMA SessionKinds ==
  ASSUME AccountsTypeOK, NEW s \in Session, session[s].state = "live"
  PROVE  session[s] \in [state : {"live", "over"}, user : User, token : Nat, used : Nat, opened : Nat]
  BY DEF AccountsTypeOK, NoSession

\* What a caller moves on to is of the right kind.
LEMMA ContinuesType ==
  ASSUME AccountsTypeOK, NEW q \in Caller, NEW c, Continues(q, c),
         \/ c = Idle
         \/ c \in [at : {"login"}, user : User]
         \/ c \in [at : {"refresh"}, of : Session, token : Nat]
         \/ c \in [at : {"update", "write"}, user : User, change : Change]
         \/ c \in [at : {"settings"}, field : Setting, value : 1 .. MaxChanges, seen : Settings]
  PROVE  caller' \in [Caller -> {Idle}
           \cup [at : {"login"}, user : User]
           \cup [at : {"refresh"}, of : Session, token : Nat]
           \cup [at : {"update", "write"}, user : User, change : Change]
           \cup [at : {"settings"}, field : Setting, value : 1 .. MaxChanges, seen : Settings]]
  BY DEF AccountsTypeOK, Continues

\* A lock that is given back is free or another's.
LEMMA GivesType ==
  ASSUME AccountsTypeOK, NEW q \in Caller, Gives(q)
  PROVE  /\ lock' \in [{"admin", "settings"} -> Caller \cup {Free}]
         /\ \A r \in Caller \ {q}, l \in {"admin", "settings"} : lock[l] = r => lock'[l] = r
  BY DEF AccountsTypeOK, Gives

\* A changed row is a row.
LEMMA UpdatedType ==
  ASSUME NEW row \in Account, NEW change \in Change
  PROVE  /\ Updated(row, change) \in Account
         /\ Updated(row, change).there = row.there
         /\ change \notin {"demote", "disable"} /\ IsAdmin(row) => IsAdmin(Updated(row, change))
  BY DEF Updated, Account, Change, IsAdmin

\* No request leaves the types.
LEMMA AccountsTypeStep == AccountsTypeOK /\ [AccountsNext]_accountVars => AccountsTypeOK'
<1> SUFFICES ASSUME AccountsTypeOK, [AccountsNext]_accountVars PROVE AccountsTypeOK'
  OBVIOUS
<1>1. ASSUME NEW q \in Caller, NEW u \in User, LoginReads(q, u) PROVE AccountsTypeOK'
  <2>1. [at |-> "login", user |-> u] \in [at : {"login"}, user : User]
    OBVIOUS
  <2>2. QED
    BY <1>1, <2>1, ContinuesType DEF LoginReads, AccountsTypeOK
<1>2. ASSUME NEW q \in Caller, LoginCommits(q) PROVE AccountsTypeOK'
  <2>1. caller[q].user \in User
    BY <1>2, CallerKinds DEF LoginCommits
  <2>2. PICK s \in Session : session' = [session EXCEPT ![s] =
            [state |-> "live", user |-> caller[q].user, token |-> 0, used |-> 0, opened |-> epoch[caller[q].user]]]
    BY <1>2 DEF LoginCommits
  <2>3. session' \in [Session -> {NoSession} \cup
           [state : {"live", "over"}, user : User, token : Nat, used : Nat, opened : Nat]]
    BY <2>1, <2>2 DEF AccountsTypeOK
  <2>4. QED
    BY <1>2, <2>3, ContinuesType DEF LoginCommits, Returns, AccountsTypeOK
<1>3. ASSUME NEW q \in Caller, NEW s \in Session, RefreshReads(q, s) PROVE AccountsTypeOK'
  <2>1. session[s].token \in Nat
    BY <1>3, SessionKinds DEF RefreshReads, Authenticated
  <2>2. [at |-> "refresh", of |-> s, token |-> session[s].token] \in [at : {"refresh"}, of : Session, token : Nat]
    BY <2>1
  <2>3. QED
    BY <1>3, <2>2, ContinuesType DEF RefreshReads, AccountsTypeOK
<1>4. ASSUME NEW q \in Caller, RefreshCommits(q) PROVE AccountsTypeOK'
  <2>1. caller[q].of \in Session /\ caller[q].token \in Nat
    BY <1>4, CallerKinds DEF RefreshCommits
  <2>2. session' \in [Session -> {NoSession} \cup
           [state : {"live", "over"}, user : User, token : Nat, used : Nat, opened : Nat]]
    <3>1. CASE Rotatable(q, caller[q].of)
      <4>1. session[caller[q].of] \in [state : {"live", "over"}, user : User, token : Nat, used : Nat, opened : Nat]
        BY <2>1, <3>1, SessionKinds DEF Rotatable
      <4>2. QED
        BY <1>4, <2>1, <3>1, <4>1 DEF RefreshCommits, AccountsTypeOK
    <3>2. QED
      BY <1>4, <3>1 DEF RefreshCommits, AccountsTypeOK
  <2>3. QED
    BY <1>4, <2>2, ContinuesType DEF RefreshCommits, Returns, AccountsTypeOK
<1>5. ASSUME NEW s \in Session, Ends(s) PROVE AccountsTypeOK'
  <2>1. session[s] \in [state : {"live", "over"}, user : User, token : Nat, used : Nat, opened : Nat]
    BY <1>5, SessionKinds DEF Ends
  <2>2. QED
    BY <1>5, <2>1 DEF Ends, AccountsTypeOK
<1>6. ASSUME NEW u \in User, NEW admin \in BOOLEAN, Created(u, admin) PROVE AccountsTypeOK'
  BY <1>6 DEF Created, AccountsTypeOK, Account
<1>7. ASSUME NEW q \in Caller, NEW u \in User, NEW change \in Change, UpdateRequested(q, u, change)
      PROVE  AccountsTypeOK'
  <2>1. [at |-> "update", user |-> u, change |-> change] \in [at : {"update", "write"}, user : User, change : Change]
    OBVIOUS
  <2>2. QED
    BY <1>7, <2>1, ContinuesType DEF UpdateRequested, AccountsTypeOK
<1>8. ASSUME NEW q \in Caller, UpdateReads(q) PROVE AccountsTypeOK'
  <2>1. caller[q] \in [at : {"update", "write"}, user : User, change : Change]
    BY <1>8, CallerKinds DEF UpdateReads
  <2>2. [caller[q] EXCEPT !.at = "write"] \in [at : {"update", "write"}, user : User, change : Change]
    BY <2>1
  <2>3. lock' \in [{"admin", "settings"} -> Caller \cup {Free}]
    BY <1>8 DEF UpdateReads, Takes, AccountsTypeOK
  <2>4. QED
    BY <1>8, <2>2, <2>3, ContinuesType DEF UpdateReads, Returns, AccountsTypeOK
<1>9. ASSUME NEW q \in Caller, UpdateWrites(q) PROVE AccountsTypeOK'
  <2>1. caller[q].user \in User /\ caller[q].change \in Change
    BY <1>9, CallerKinds DEF UpdateWrites
  <2>2. account' \in [User -> Account] /\ epoch' \in [User -> Nat]
    <3>1. Updated(account[caller[q].user], caller[q].change) \in Account
      BY <2>1, UpdatedType DEF AccountsTypeOK
    <3>2. account' \in [User -> Account]
      BY <1>9, <3>1 DEF UpdateWrites, AccountsTypeOK
    <3>3. epoch' = epoch \/ epoch' = [epoch EXCEPT ![caller[q].user] = @ + 1]
      BY <1>9 DEF UpdateWrites
    <3>4. QED
      BY <3>2, <3>3 DEF AccountsTypeOK
  <2>3. session' \in [Session -> {NoSession} \cup
           [state : {"live", "over"}, user : User, token : Nat, used : Nat, opened : Nat]]
    <3>1. \A s \in Session : Revokes(q, s) => [session[s] EXCEPT !.state = "over"] \in
             [state : {"live", "over"}, user : User, token : Nat, used : Nat, opened : Nat]
      <4>1. SUFFICES ASSUME NEW s \in Session, Revokes(q, s)
                     PROVE  [session[s] EXCEPT !.state = "over"] \in
                       [state : {"live", "over"}, user : User, token : Nat, used : Nat, opened : Nat]
        OBVIOUS
      <4>2. session[s] \in [state : {"live", "over"}, user : User, token : Nat, used : Nat, opened : Nat]
        BY <4>1, SessionKinds DEF Revokes
      <4>3. QED
        BY <4>2
    <3>2. \/ session' = session
          \/ session' = [s \in Session |-> IF Revokes(q, s) THEN [session[s] EXCEPT !.state = "over"]
                                                            ELSE session[s]]
      BY <1>9 DEF UpdateWrites
    <3> DEFINE Opened == [state : {"live", "over"}, user : User, token : Nat, used : Nat, opened : Nat]
    <3>3. session \in [Session -> {NoSession} \cup Opened]
      BY DEF AccountsTypeOK
    <3> HIDE DEF Opened
    <3>4. \A s \in Session : session[s] \in {NoSession} \cup Opened
      BY <3>3
    <3>5. \A s \in Session : Revokes(q, s) => [session[s] EXCEPT !.state = "over"] \in Opened
      BY <3>1 DEF Opened
    <3>6. session' \in [Session -> {NoSession} \cup Opened]
      BY <3>2, <3>3, <3>4, <3>5
    <3>7. QED
      BY <3>6 DEF Opened
  <2>4. QED
    BY <1>9, <2>2, <2>3, ContinuesType, GivesType DEF UpdateWrites, Returns, AccountsTypeOK
<1>10. ASSUME NEW q \in Caller, NEW f \in Setting, SettingsRead(q, f) PROVE AccountsTypeOK'
  <2>1. [at |-> "settings", field |-> f, value |-> changes + 1, seen |-> settings] \in
          [at : {"settings"}, field : Setting, value : 1 .. MaxChanges, seen : Settings]
    BY <1>10 DEF SettingsRead, AccountsTypeOK
  <2>2. QED
    BY <1>10, <2>1, ContinuesType DEF SettingsRead, Takes, AccountsTypeOK
<1>11. ASSUME NEW q \in Caller, SettingsWritten(q) PROVE AccountsTypeOK'
  <2>1. /\ caller[q].field \in Setting /\ caller[q].value \in 1 .. MaxChanges
        /\ caller[q].seen \in Settings
    BY <1>11, CallerKinds DEF SettingsWritten
  <2>2. settings' \in Settings /\ written' \in Settings
    BY <1>11, <2>1 DEF SettingsWritten, Settings, AccountsTypeOK
  <2>3. QED
    BY <1>11, <2>2, ContinuesType, GivesType DEF SettingsWritten, Returns, AccountsTypeOK
<1>12. CASE UNCHANGED accountVars
  BY <1>12 DEF accountVars, AccountsTypeOK
<1>13. QED
  BY <1>1, <1>2, <1>3, <1>4, <1>5, <1>6, <1>7, <1>8, <1>9, <1>10, <1>11, <1>12
     DEF AccountsNext, Bootstrap, CreateUser

-----------------------------------------------------------------------------
(* Sessions. *)

\* Four kinds of step write sessions or epochs.
LEMMA SessionWriters ==
  ASSUME [AccountsNext]_accountVars
  PROVE  \/ UNCHANGED <<session, epoch>>
         \/ \E q \in Caller : LoginCommits(q) \/ RefreshCommits(q) \/ UpdateWrites(q)
         \/ \E s \in Session : Ends(s)
  BY DEF AccountsNext, accountVars, LoginReads, RefreshReads, UpdateRequested, UpdateReads, SettingsRead,
         SettingsWritten, Bootstrap, CreateUser, Created

\* No step leaves a session of before its user's last change, or counts an exchange
\* of a refresh token twice (SessionsRevoked).
LEMMA SessionsStep ==
  ASSUME AccountsTypeOK, SessionsRevoked, [AccountsNext]_accountVars
  PROVE  SessionsRevoked'
<1> SUFFICES ASSUME NEW s \in Session, session'[s].state = "live"
             PROVE  /\ session'[s].opened = epoch'[session'[s].user]
                    /\ session'[s].used = session'[s].token
  BY DEF SessionsRevoked
<1> DEFINE Goal == /\ session'[s].opened = epoch'[session'[s].user]
                   /\ session'[s].used = session'[s].token
<1>1. CASE UNCHANGED <<session, epoch>>
  BY <1>1 DEF SessionsRevoked
<1>2. ASSUME NEW q \in Caller, LoginCommits(q) PROVE Goal
  <2>1. PICK r \in Session : session' = [session EXCEPT ![r] =
            [state |-> "live", user |-> caller[q].user, token |-> 0, used |-> 0, opened |-> epoch[caller[q].user]]]
    BY <1>2 DEF LoginCommits
  <2>2. epoch' = epoch
    BY <1>2 DEF LoginCommits
  <2>3. QED
    BY <2>1, <2>2 DEF SessionsRevoked, AccountsTypeOK
<1>3. ASSUME NEW q \in Caller, RefreshCommits(q) PROVE Goal
  <2>1. caller[q].of \in Session /\ caller[q].token \in Nat /\ epoch' = epoch
    BY <1>3, CallerKinds DEF RefreshCommits
  <2>2. CASE Rotatable(q, caller[q].of) /\ s = caller[q].of
    <3>1. /\ session[s] \in [state : {"live", "over"}, user : User, token : Nat, used : Nat, opened : Nat]
          /\ session[s].state = "live" /\ session[s].token = caller[q].token
      BY <2>2, SessionKinds DEF Rotatable
    <3>2. session'[s] = [session[s] EXCEPT !.token = caller[q].token + 1, !.used = @ + 1]
      BY <1>3, <2>2 DEF RefreshCommits, AccountsTypeOK
    <3>3. session[s].opened = epoch[session[s].user] /\ session[s].used = session[s].token
      BY <3>1 DEF SessionsRevoked
    <3>4. QED
      BY <2>1, <3>1, <3>2, <3>3
  <2>3. CASE ~Rotatable(q, caller[q].of) \/ s # caller[q].of
    <3>1. session'[s] = session[s]
      BY <1>3, <2>3 DEF RefreshCommits, AccountsTypeOK
    <3>2. QED
      BY <2>1, <3>1 DEF SessionsRevoked
  <2>4. QED
    BY <2>2, <2>3
<1>4. ASSUME NEW q \in Caller, UpdateWrites(q) PROVE Goal
  <2>1. CASE caller[q].change = "enable"
    BY <1>1, <1>4, <2>1 DEF UpdateWrites
  <2>2. CASE caller[q].change # "enable"
    <3>1. /\ session'[s] = IF Revokes(q, s) THEN [session[s] EXCEPT !.state = "over"] ELSE session[s]
          /\ epoch' = [epoch EXCEPT ![caller[q].user] = @ + 1]
      BY <1>4, <2>2 DEF UpdateWrites
    <3>2. ~Revokes(q, s)
      <4>1. ASSUME Revokes(q, s) PROVE FALSE
        <5>1. session'[s] = [session[s] EXCEPT !.state = "over"] /\ session[s].state = "live"
          BY <3>1, <4>1 DEF Revokes
        <5>2. session[s] \in [state : {"live", "over"}, user : User, token : Nat, used : Nat, opened : Nat]
          BY <5>1, SessionKinds
        <5>3. QED
          BY <5>1, <5>2
      <4>2. QED
        BY <4>1
    <3>3. session'[s] = session[s] /\ session[s].user # caller[q].user
      BY <3>1, <3>2 DEF Revokes
    <3>4. session[s].user \in User
      BY <3>3, SessionKinds
    <3>5. epoch'[session[s].user] = epoch[session[s].user]
      BY <3>1, <3>3, <3>4 DEF AccountsTypeOK
    <3>6. QED
      BY <3>3, <3>5 DEF SessionsRevoked
  <2>3. QED
    BY <2>1, <2>2
<1>5. ASSUME NEW r \in Session, Ends(r) PROVE Goal
  <2>1. session[r] \in [state : {"live", "over"}, user : User, token : Nat, used : Nat, opened : Nat]
    BY <1>5, SessionKinds DEF Ends
  <2>2. s # r
    BY <1>5, <2>1 DEF Ends, AccountsTypeOK
  <2>3. session'[s] = session[s] /\ epoch' = epoch
    BY <1>5, <2>2 DEF Ends, AccountsTypeOK
  <2>4. QED
    BY <2>3 DEF SessionsRevoked
<1>6. QED
  BY SessionWriters, <1>1, <1>2, <1>3, <1>4, <1>5

-----------------------------------------------------------------------------
(* Administrators and settings. *)

\* Beside one administrator of several there is another.
LEMMA AnotherAdmin ==
  ASSUME NEW u \in User, IsAdmin(account[u]), ~(Cardinality(ActiveAdmins) <= 1)
  PROVE  \E v \in User \ {u} : IsAdmin(account[v])
<1> SUFFICES ASSUME ~\E v \in User \ {u} : IsAdmin(account[v]) PROVE FALSE
  OBVIOUS
<1>1. ActiveAdmins = {u}
  BY DEF ActiveAdmins
<1>2. Cardinality({u}) = 1
  BY FS_Singleton
<1>3. QED
  BY <1>1, <1>2

\* Accounts change by a creation or by the write of an update.
LEMMA AccountWriters ==
  ASSUME [AccountsNext]_accountVars
  PROVE  \/ UNCHANGED account
         \/ \E u \in User : Bootstrap(u) \/ \E admin \in BOOLEAN : CreateUser(u, admin)
         \/ \E q \in Caller : UpdateWrites(q)
  BY DEF AccountsNext, accountVars, LoginReads, LoginCommits, RefreshReads, RefreshCommits,
         UpdateRequested, UpdateReads, SettingsRead, SettingsWritten, Ends

\* An administrator stays one unless a write removes him.
LEMMA AdminsStay ==
  ASSUME AccountsTypeOK, [AccountsNext]_accountVars, NEW v \in User, IsAdmin(account[v])
  PROVE  \/ IsAdmin(account'[v])
         \/ \E q \in Caller : /\ UpdateWrites(q) /\ caller[q].user = v
                              /\ caller[q].change \in {"demote", "disable"}
<1>1. CASE UNCHANGED account
  BY <1>1
<1>2. ASSUME NEW u \in User, NEW admin \in BOOLEAN, Created(u, admin) PROVE IsAdmin(account'[v])
  BY <1>2 DEF Created, IsAdmin, AccountsTypeOK
<1>3. ASSUME NEW q \in Caller, UpdateWrites(q),
             caller[q].user # v \/ caller[q].change \notin {"demote", "disable"}
      PROVE  IsAdmin(account'[v])
  <2>1. caller[q].user \in User /\ caller[q].change \in Change
    BY <1>3, CallerKinds DEF UpdateWrites
  <2>2. account' = [account EXCEPT ![caller[q].user] = Updated(@, caller[q].change)]
    BY <1>3 DEF UpdateWrites
  <2>3. CASE caller[q].user # v
    BY <2>1, <2>2, <2>3 DEF AccountsTypeOK
  <2>4. CASE caller[q].user = v
    <3>1. account'[v] = Updated(account[v], caller[q].change)
      BY <2>2, <2>4 DEF AccountsTypeOK
    <3>2. account[v] \in Account
      BY DEF AccountsTypeOK
    <3>3. QED
      BY <1>3, <2>1, <2>4, <3>1, <3>2, UpdatedType
  <2>5. QED
    BY <2>3, <2>4
<1>4. QED
  BY AccountWriters, <1>1, <1>2, <1>3 DEF Bootstrap, CreateUser

\* A row that becomes an administrator's does so under the lock of the administrators.
LEMMA AdminsUnderLock ==
  ASSUME AccountsTypeOK, ReadsHold, [AccountsNext]_accountVars, NEW v \in User,
         ~IsAdmin(account[v]), IsAdmin(account'[v])
  PROVE  \/ lock["admin"] = Free
         \/ \E q \in Caller : UpdateWrites(q) /\ lock["admin"] = q
<1>1. ASSUME NEW u \in User, Bootstrap(u) PROVE lock["admin"] = Free
  BY <1>1 DEF Bootstrap, Available
<1>2. ASSUME NEW u \in User, NEW admin \in BOOLEAN, CreateUser(u, admin) PROVE lock["admin"] = Free
  <2>1. admin
    BY <1>2 DEF CreateUser, Created, IsAdmin, AccountsTypeOK
  <2>2. QED
    BY <1>2, <2>1 DEF CreateUser, Available
<1>3. ASSUME NEW q \in Caller, UpdateWrites(q) PROVE lock["admin"] = q
  <2>1. caller[q].user \in User /\ caller[q].at = "write"
    BY <1>3, CallerKinds DEF UpdateWrites
  <2>2. caller[q].change # "password"
    BY <1>3, <2>1 DEF UpdateWrites, Updated, AccountsTypeOK
  <2>3. QED
    BY <2>1, <2>2 DEF ReadsHold
<1>4. QED
  BY AccountWriters, <1>1, <1>2, <1>3

\* A user is there only if he was, or has just been created.
LEMMA UsersThere ==
  ASSUME AccountsTypeOK, [AccountsNext]_accountVars, NEW v \in User, account'[v].there, ~account[v].there
  PROVE  Bootstrap(v) \/ \E admin \in BOOLEAN : CreateUser(v, admin)
<1>1. ASSUME NEW u \in User, NEW admin \in BOOLEAN, Created(u, admin) PROVE u = v
  BY <1>1 DEF Created, AccountsTypeOK
<1>2. ASSUME NEW q \in Caller, UpdateWrites(q) PROVE FALSE
  <2>1. caller[q].user \in User /\ caller[q].change \in Change
    BY <1>2, CallerKinds DEF UpdateWrites
  <2>2. account[v] \in Account
    BY DEF AccountsTypeOK
  <2>3. account'[v] = account[v] \/ account'[v] = Updated(account[v], caller[q].change)
    BY <1>2, <2>1 DEF UpdateWrites, AccountsTypeOK
  <2>4. QED
    BY <2>1, <2>2, <2>3, UpdatedType
<1>3. QED
  BY AccountWriters, <1>1, <1>2 DEF Bootstrap, CreateUser

\* No step removes the last administrator.
LEMMA AdminRemains ==
  ASSUME AccountsTypeOK, ChangesSerialized, ReadsHold, [AccountsNext]_accountVars,
         \E u \in User : account'[u].there
  PROVE  \E v \in User : IsAdmin(account'[v])
<1>1. PICK u \in User : account'[u].there
  OBVIOUS
<1>2. CASE Bootstrap(u)
  BY <1>2 DEF Bootstrap, Created, IsAdmin, AccountsTypeOK
<1>3. CASE ~Bootstrap(u)
  <2>1. \E v \in User : IsAdmin(account[v])
    <3>1. CASE account[u].there
      BY <3>1 DEF ChangesSerialized, ActiveAdmins
    <3>2. CASE \E admin \in BOOLEAN : CreateUser(u, admin)
      BY <3>2, SessionKinds DEF CreateUser, RequireAdmin, Authenticated
    <3>3. QED
      BY <1>1, <1>3, <3>1, <3>2, UsersThere
  <2>2. PICK v \in User : IsAdmin(account[v])
    BY <2>1
  <2>3. ASSUME NEW q \in Caller, UpdateWrites(q), caller[q].user = v, caller[q].change \in {"demote", "disable"}
        PROVE  \E x \in User : IsAdmin(account'[x])
    <3>1. PICK x \in User \ {v} : IsAdmin(account[x])
      BY <2>2, <2>3 DEF ReadsHold, RemovesAdmin, UpdateWrites
    <3>2. account'[x] = account[x]
      BY <2>3, <3>1 DEF UpdateWrites, AccountsTypeOK
    <3>3. QED
      BY <3>1, <3>2
  <2>4. QED
    BY <2>2, <2>3, AdminsStay
<1>4. QED
  BY <1>2, <1>3

\* Settings are written by one kind of step, under their lock.
LEMMA SettingsStep ==
  ASSUME AccountsTypeOK, ReadsHold, [AccountsNext]_accountVars
  PROVE  \/ UNCHANGED <<settings, written>>
         \/ \E q \in Caller : /\ SettingsWritten(q) /\ lock["settings"] = q
                              /\ caller[q].seen = settings
  BY DEF AccountsNext, accountVars, LoginReads, LoginCommits, RefreshReads, RefreshCommits, UpdateRequested,
         UpdateReads, UpdateWrites, SettingsRead, SettingsWritten, Ends, Bootstrap, CreateUser, Created, ReadsHold

\* Every setting keeps the value of its last committed change, and an administrator
\* remains (ChangesSerialized).
LEMMA SerializedStep ==
  ASSUME AccountsTypeOK, ChangesSerialized, ReadsHold, [AccountsNext]_accountVars
  PROVE  ChangesSerialized'
<1>1. settings' = written'
  <2>1. ASSUME NEW q \in Caller, SettingsWritten(q), caller[q].seen = settings PROVE settings' = written'
    BY <2>1 DEF SettingsWritten, ChangesSerialized
  <2>2. QED
    BY <2>1, SettingsStep DEF ChangesSerialized
<1>2. QED
  BY <1>1, AdminRemains DEF ChangesSerialized, ActiveAdmins

\* What a request does to another one's locals and locks: nothing, or it takes a lock
\* that was free.
LEMMA OthersAlone ==
  ASSUME AccountsTypeOK, [AccountsNext]_accountVars, NEW r \in Caller
  PROVE  \/ /\ caller'[r] = caller[r]
            /\ \A l \in {"admin", "settings"} : lock[l] = r => lock'[l] = r
         \/ \E u \in User : LoginReads(r, u)
         \/ LoginCommits(r) \/ RefreshCommits(r)
         \/ \E s \in Session : RefreshReads(r, s)
         \/ \E u \in User, change \in Change : UpdateRequested(r, u, change)
         \/ UpdateReads(r) \/ UpdateWrites(r)
         \/ \E f \in Setting : SettingsRead(r, f)
         \/ SettingsWritten(r)
<1> DEFINE Alone == /\ caller'[r] = caller[r]
                    /\ \A l \in {"admin", "settings"} : lock[l] = r => lock'[l] = r
<1>1. ASSUME NEW q \in Caller \ {r}, NEW c, Continues(q, c), lock' = lock PROVE Alone
  BY <1>1 DEF Continues, AccountsTypeOK
<1>2. ASSUME NEW q \in Caller \ {r}, NEW c, NEW l \in {"admin", "settings"}, Continues(q, c), Takes(q, l)
      PROVE  Alone
  BY <1>2 DEF Continues, Takes, Available, AccountsTypeOK
<1>3. ASSUME NEW q \in Caller \ {r}, NEW c, Continues(q, c), Gives(q) PROVE Alone
  BY <1>3, GivesType DEF Continues, AccountsTypeOK
<1>4. ASSUME NEW q \in Caller \ {r},
             \/ \E u \in User : LoginReads(q, u)
             \/ LoginCommits(q) \/ RefreshCommits(q)
             \/ \E s \in Session : RefreshReads(q, s)
             \/ \E u \in User, change \in Change : UpdateRequested(q, u, change)
      PROVE  Alone
  BY <1>1, <1>4 DEF LoginReads, LoginCommits, RefreshCommits, RefreshReads, UpdateRequested, Returns
<1>5. ASSUME NEW q \in Caller \ {r}, UpdateReads(q) PROVE Alone
  BY <1>1, <1>2, <1>5 DEF UpdateReads, Returns
<1>6. ASSUME NEW q \in Caller \ {r}, UpdateWrites(q) \/ SettingsWritten(q) PROVE Alone
  BY <1>3, <1>6 DEF UpdateWrites, SettingsWritten, Returns
<1>7. ASSUME NEW q \in Caller \ {r}, NEW f \in Setting, SettingsRead(q, f) PROVE Alone
  BY <1>2, <1>7 DEF SettingsRead
<1>8. CASE \/ \E s \in Session : Ends(s)
           \/ \E u \in User : Bootstrap(u) \/ \E admin \in BOOLEAN : CreateUser(u, admin)
           \/ UNCHANGED accountVars
  BY <1>8 DEF Ends, Bootstrap, CreateUser, Created, accountVars
<1>9. QED
  BY <1>4, <1>5, <1>6, <1>7, <1>8 DEF AccountsNext

\* What a request read under its lock stays so until it writes (ReadsHold).
LEMMA ReadsStep ==
  ASSUME AccountsTypeOK, ReadsHold, [AccountsNext]_accountVars
  PROVE  ReadsHold'
<1> SUFFICES ASSUME NEW r \in Caller
             PROVE  /\ caller'[r].at = "settings" => lock'["settings"] = r /\ caller'[r].seen = settings'
                    /\ caller'[r].at = "write" /\ caller'[r].change # "password" =>
                          /\ lock'["admin"] = r
                          /\ RemovesAdmin(account'[caller'[r].user], caller'[r].change) =>
                                \E v \in User \ {caller'[r].user} : IsAdmin(account'[v])
  BY DEF ReadsHold
<1> DEFINE Goal == /\ caller'[r].at = "settings" => lock'["settings"] = r /\ caller'[r].seen = settings'
                   /\ caller'[r].at = "write" /\ caller'[r].change # "password" =>
                         /\ lock'["admin"] = r
                         /\ RemovesAdmin(account'[caller'[r].user], caller'[r].change) =>
                               \E v \in User \ {caller'[r].user} : IsAdmin(account'[v])
<1>1. ASSUME NEW c, Continues(r, c), c.at \notin {"settings", "write"} PROVE Goal
  BY <1>1 DEF Continues, AccountsTypeOK
<1>2. CASE \/ \E u \in User : LoginReads(r, u)
           \/ LoginCommits(r) \/ RefreshCommits(r)
           \/ \E s \in Session : RefreshReads(r, s)
           \/ \E u \in User, change \in Change : UpdateRequested(r, u, change)
           \/ UpdateWrites(r) \/ SettingsWritten(r)
  BY <1>1, <1>2 DEF LoginReads, LoginCommits, RefreshCommits, RefreshReads, UpdateRequested, UpdateWrites,
                    SettingsWritten, Returns, Idle
<1>3. ASSUME NEW f \in Setting, SettingsRead(r, f) PROVE Goal
  BY <1>3 DEF SettingsRead, Continues, Takes, AccountsTypeOK
<1>4. CASE UpdateReads(r)
  <2>1. caller[r] \in [at : {"update", "write"}, user : User, change : Change]
    BY <1>4, CallerKinds DEF UpdateReads
  <2>2. CASE Refused(account[caller[r].user], caller[r].change)
    BY <1>1, <1>4, <2>2 DEF UpdateReads, Returns, Idle
  <2>3. CASE ~Refused(account[caller[r].user], caller[r].change)
    <3>1. /\ caller'[r] = [caller[r] EXCEPT !.at = "write"] /\ account' = account
          /\ caller[r].change # "password" => lock'["admin"] = r
      BY <1>4, <2>3 DEF UpdateReads, Continues, Takes, AccountsTypeOK
    <3>2. RemovesAdmin(account[caller[r].user], caller[r].change) =>
             \E v \in User \ {caller[r].user} : IsAdmin(account[v])
      BY <2>1, <2>3, AnotherAdmin DEF Refused, RemovesAdmin
    <3>3. QED
      BY <2>1, <3>1, <3>2
  <2>4. QED
    BY <2>2, <2>3
<1>5. CASE /\ caller'[r] = caller[r]
           /\ \A l \in {"admin", "settings"} : lock[l] = r => lock'[l] = r
           /\ ~UpdateWrites(r) /\ ~SettingsWritten(r)
  <2>1. ASSUME caller'[r].at = "settings" PROVE lock'["settings"] = r /\ caller'[r].seen = settings'
    <3>1. lock["settings"] = r /\ caller[r].seen = settings
      BY <1>5, <2>1 DEF ReadsHold
    <3>2. settings' = settings
      BY <1>5, <3>1, SettingsStep
    <3>3. QED
      BY <1>5, <3>1, <3>2
  <2>2. ASSUME caller'[r].at = "write", caller'[r].change # "password"
        PROVE  /\ lock'["admin"] = r
               /\ RemovesAdmin(account'[caller'[r].user], caller'[r].change) =>
                     \E v \in User \ {caller'[r].user} : IsAdmin(account'[v])
    <3>1. caller[r].user \in User /\ caller[r].at = "write" /\ lock["admin"] = r
      BY <1>5, <2>2, CallerKinds DEF ReadsHold
    <3>2. \A v \in User : IsAdmin(account'[v]) => IsAdmin(account[v])
      BY <1>5, <3>1, AdminsUnderLock
    <3>3. \A q \in Caller : UpdateWrites(q) => caller[q].change = "password"
      <4>1. ASSUME NEW q \in Caller, UpdateWrites(q) PROVE caller[q].change = "password"
        <5>1. caller[q].at = "write" /\ q # r
          BY <1>5, <4>1 DEF UpdateWrites
        <5>2. QED
          BY <3>1, <5>1 DEF ReadsHold
      <4>2. QED
        BY <4>1
    <3>4. \A v \in User : IsAdmin(account[v]) => IsAdmin(account'[v])
      BY <3>3, AdminsStay
    <3>5. RemovesAdmin(account[caller[r].user], caller[r].change) =>
                     \E v \in User \ {caller[r].user} : IsAdmin(account[v])
      BY <1>5, <2>2 DEF ReadsHold
    <3>6. QED
      BY <1>5, <3>1, <3>2, <3>4, <3>5 DEF RemovesAdmin
  <2>3. QED
    BY <2>1, <2>2
<1>6. QED
  BY OthersAlone, <1>2, <1>3, <1>4, <1>5

-----------------------------------------------------------------------------

\* A new installation, or one with users, satisfies the inductive invariant.
LEMMA AccountsInitial == AccountsInit => AccountsIInv
<1> SUFFICES ASSUME AccountsInit PROVE AccountsIInv
  OBVIOUS
<1>1. AccountsTypeOK
  <2>1. account \in [User -> Account]
    BY DEF AccountsInit
  <2>2. settings \in Settings /\ written \in Settings /\ changes \in 0 .. MaxChanges
    BY DEF AccountsInit, Settings
  <2>3. QED
    BY <2>1, <2>2 DEF AccountsInit, AccountsTypeOK
<1>2. SessionsRevoked
  BY DEF AccountsInit, SessionsRevoked, NoSession
<1>3. ChangesSerialized
  BY DEF AccountsInit, ChangesSerialized, ActiveAdmins
<1>4. ReadsHold
  BY DEF AccountsInit, ReadsHold, Idle
<1>5. QED
  BY <1>1, <1>2, <1>3, <1>4 DEF AccountsIInv

\* The inductive invariant holds in every state.
LEMMA AccountsInvariance == AccountsSpec => []AccountsIInv
<1>1. AccountsIInv /\ [AccountsNext]_accountVars => AccountsIInv'
  BY AccountsTypeStep, SessionsStep, SerializedStep, ReadsStep DEF AccountsIInv
<1>2. QED
  BY AccountsInitial, <1>1, PTL DEF AccountsSpec

\* A session that is still accepted was opened after its user's last change of password,
\* role or activity, and no refresh token was exchanged twice, however many logins,
\* refreshes and updates run side by side (services/auth.py, services/users.py).
THEOREM RevocationIsComplete == AccountsSpec => []SessionsRevoked
<1>1. AccountsIInv => SessionsRevoked
  BY DEF AccountsIInv
<1>2. QED
  BY AccountsInvariance, <1>1, PTL

\* While there are users one of them is an active administrator, and every setting holds
\* its last committed change, for any number of requests at once (services/users.py,
\* services/settings.py).
THEOREM ChangesDoNotCollide == AccountsSpec => []ChangesSerialized
<1>1. AccountsIInv => ChangesSerialized
  BY DEF AccountsIInv
<1>2. QED
  BY AccountsInvariance, <1>1, PTL

HIDE AccountsAssumption

USE TokensAssumption, KeysAssumption

-----------------------------------------------------------------------------
(* The access tokens. *)

\* What a call carries at each of its places.
LEMMA CallKinds ==
  ASSUME TokensTypeOK, NEW c \in Borrower
  PROVE  /\ toolCall[c].at = "asking" => toolCall[c] \in [at : {"asking"}, left : 0 .. Timeout]
         /\ toolCall[c].at = "answered" =>
              toolCall[c] \in [at : {"answered"}, left : 0 .. Timeout, life : Lifetime, age : Nat]
         /\ toolCall[c].at = "presents" => toolCall[c] \in [at : {"presents"}, over : BOOLEAN, slow : BOOLEAN]
<1>1. \/ toolCall[c] \in {Resting, [at |-> "waiting"]}
      \/ toolCall[c] \in [at : {"asking"}, left : 0 .. Timeout]
      \/ toolCall[c] \in [at : {"answered"}, left : 0 .. Timeout, life : Lifetime, age : Nat]
      \/ toolCall[c] \in [at : {"presents"}, over : BOOLEAN, slow : BOOLEAN]
  BY DEF TokensTypeOK
<1>2. QED
  BY <1>1 DEF Resting

\* What a call moves on to is of the right kind.
LEMMA ProceedType ==
  ASSUME TokensTypeOK, NEW c \in Borrower, NEW l, Proceed(c, l),
         \/ l \in {Resting, [at |-> "waiting"]}
         \/ l \in [at : {"asking"}, left : 0 .. Timeout]
         \/ l \in [at : {"answered"}, left : 0 .. Timeout, life : Lifetime, age : Nat]
         \/ l \in [at : {"presents"}, over : BOOLEAN, slow : BOOLEAN]
  PROVE  toolCall' \in [Borrower -> {Resting, [at |-> "waiting"]}
           \cup [at : {"asking"}, left : 0 .. Timeout]
           \cup [at : {"answered"}, left : 0 .. Timeout, life : Lifetime, age : Nat]
           \cup [at : {"presents"}, over : BOOLEAN, slow : BOOLEAN]]
  BY DEF TokensTypeOK, Proceed

\* The runtime keeps a token for some time.
LEMMA KeptType == ASSUME NEW life \in Nat PROVE Kept(life) \in Nat
<1>1. Smaller(MaxMargin, Larger(1, life \div 10)) \in Nat
  <2>1. life \div 10 \in Nat
    OBVIOUS
  <2>2. QED
    BY <2>1 DEF Smaller, Larger
<1>2. QED
  BY <1>1 DEF Kept

\* Presenting a token that is over only if its reply was slow keeps the calls honest.
LEMMA PresentsHonest ==
  ASSUME TokensTypeOK, TokensHonest, NEW c \in Borrower,
         NEW token \in [kept : Nat, life : Nat, slow : BOOLEAN], token.life = 0 => token.slow, Presents(c, token)
  PROVE  /\ toolCall' \in [Borrower -> {Resting, [at |-> "waiting"]}
              \cup [at : {"asking"}, left : 0 .. Timeout]
              \cup [at : {"answered"}, left : 0 .. Timeout, life : Lifetime, age : Nat]
              \cup [at : {"presents"}, over : BOOLEAN, slow : BOOLEAN]]
         /\ \A b \in Borrower : toolCall'[b].at = "presents" => (toolCall'[b].over => toolCall'[b].slow)
<1> DEFINE l == [at |-> "presents", over |-> token.life = 0, slow |-> token.slow]
<1>1. l \in [at : {"presents"}, over : BOOLEAN, slow : BOOLEAN]
  OBVIOUS
<1>2. toolCall' = [toolCall EXCEPT ![c] = l]
  BY DEF Presents, Proceed
<1>3. l.over => l.slow
  OBVIOUS
<1> HIDE DEF l
<1>4. QED
  BY <1>1, <1>2, <1>3, ProceedType DEF Proceed, TokensHonest, TokensTypeOK

\* A call that moves on, but does not present a token, keeps the calls honest.
LEMMA ProceedHonest ==
  ASSUME TokensTypeOK, TokensHonest, NEW c \in Borrower, NEW l, l.at # "presents", Proceed(c, l)
  PROVE  \A b \in Borrower : toolCall'[b].at = "presents" => (toolCall'[b].over => toolCall'[b].slow)
  BY DEF Proceed, TokensHonest, TokensTypeOK

\* No step of a call, nor the time that passes, leaves the invariant.
LEMMA TokensStep == TokensIInv /\ [TokensNext]_tokenVars => TokensIInv'
<1> SUFFICES ASSUME TokensIInv, [TokensNext]_tokenVars PROVE TokensIInv'
  OBVIOUS
<1>t. TokensTypeOK /\ TokensHonest /\ MarginKept
  BY DEF TokensIInv
<1>c. Good => (cachedToken.life = 0 => cachedToken.slow)
  BY <1>t DEF Good, MarginKept, TokensTypeOK
<1>k. cachedToken \in [kept : Nat, life : Nat, slow : BOOLEAN]
  BY <1>t DEF TokensTypeOK
<1>1. ASSUME NEW c \in Borrower, AskToken(c) PROVE TokensIInv'
  <2>1. CASE Good
    <3>1. Presents(c, cachedToken)
      BY <1>1, <2>1 DEF AskToken
    <3>2. QED
      BY <1>1, <1>t, <1>c, <1>k, <2>1, <3>1, PresentsHonest
      DEF AskToken, TokensIInv, TokensTypeOK, TokensHonest, MarginKept
  <2>2. CASE ~Good
    <3>1. Proceed(c, [at |-> "waiting"])
      BY <1>1, <2>2 DEF AskToken
    <3>2. QED
      BY <1>1, <1>t, <3>1, ProceedHonest, ProceedType
      DEF AskToken, TokensIInv, TokensTypeOK, TokensHonest, MarginKept
  <2>3. QED
    BY <2>1, <2>2
<1>2. ASSUME NEW c \in Borrower, Enter(c) PROVE TokensIInv'
  <2>1. CASE Good
    <3>1. Presents(c, cachedToken)
      BY <1>2, <2>1 DEF Enter, Suffices
    <3>2. QED
      BY <1>2, <1>t, <1>c, <1>k, <2>1, <3>1, PresentsHonest
      DEF Enter, Suffices, TokensIInv, TokensTypeOK, TokensHonest, MarginKept
  <2>2. CASE ~Good
    <3>1. Proceed(c, [at |-> "asking", left |-> Timeout])
      BY <1>2, <2>2 DEF Enter, Suffices
    <3>2. [at |-> "asking", left |-> Timeout] \in [at : {"asking"}, left : 0 .. Timeout]
      OBVIOUS
    <3>3. wasted' = wasted /\ wasted = FALSE
      BY <1>2, <1>t, <2>2 DEF Enter, Suffices, TokensHonest, TokensTypeOK
    <3>4. QED
      BY <1>2, <1>t, <2>2, <3>1, <3>2, <3>3, ProceedHonest, ProceedType
      DEF Enter, Suffices, TokensIInv, TokensTypeOK, TokensHonest, MarginKept
  <2>3. QED
    BY <2>1, <2>2
<1>3. ASSUME NEW c \in Borrower, StoreToken(c) PROVE TokensIInv'
  <2> DEFINE t == toolCall[c]
             token == [kept |-> Kept(t.life), life |-> Larger(t.life, t.age) - t.age,
                       slow |-> t.age >= t.life - Kept(t.life)]
  <2>1. t.life \in Nat /\ t.age \in Nat
    BY <1>3, <1>t, CallKinds DEF StoreToken
  <2>2. Kept(t.life) \in Nat
    BY <2>1, KeptType
  <2>3. /\ Larger(t.life, t.age) - t.age \in Nat
        /\ (t.age >= t.life - Kept(t.life)) \in BOOLEAN
        /\ Larger(t.life, t.age) - t.age = 0 => t.age >= t.life - Kept(t.life)
        /\ ~(t.age >= t.life - Kept(t.life)) => Larger(t.life, t.age) - t.age >= Kept(t.life)
    BY <2>1, <2>2 DEF Larger
  <2>4. /\ token \in [kept : Nat, life : Nat, slow : BOOLEAN]
        /\ token.life = 0 => token.slow
        /\ token.slow \/ token.life >= token.kept
    BY <2>2, <2>3
  <2>5. cachedToken' = token /\ Presents(c, token) /\ turn' = Nobody /\ wasted' = wasted
    BY <1>3 DEF StoreToken
  <2> HIDE DEF token
  <2>6. QED
    BY <1>t, <2>4, <2>5, PresentsHonest DEF TokensIInv, TokensTypeOK, TokensHonest, MarginKept
<1>4. ASSUME NEW c \in Borrower, FetchFails(c) PROVE TokensIInv'
  <2>1. Proceed(c, Resting) /\ Resting.at # "presents"
    BY <1>4 DEF FetchFails, Resting
  <2>2. QED
    BY <1>4, <1>t, <2>1, ProceedHonest, ProceedType
    DEF FetchFails, TokensIInv, TokensTypeOK, TokensHonest, MarginKept
<1>5. ASSUME NEW c \in Borrower, CallDone(c) PROVE TokensIInv'
  <2>1. Proceed(c, Resting) /\ Resting.at # "presents"
    BY <1>5 DEF CallDone, Resting
  <2>2. QED
    BY <1>5, <1>t, <2>1, ProceedHonest, ProceedType
    DEF CallDone, TokensIInv, TokensTypeOK, TokensHonest, MarginKept
<1>6. ASSUME NEW c \in Borrower, NEW life \in Lifetime, IssueAccessToken(c, life) PROVE TokensIInv'
  <2> DEFINE l == [at |-> "answered", left |-> toolCall[c].left, life |-> life, age |-> 0]
  <2>1. l \in [at : {"answered"}, left : 0 .. Timeout, life : Lifetime, age : Nat] /\ l.at # "presents"
    BY <1>6, <1>t, CallKinds DEF IssueAccessToken
  <2>2. Proceed(c, l)
    BY <1>6 DEF IssueAccessToken
  <2> HIDE DEF l
  <2>3. QED
    BY <1>6, <1>t, <2>1, <2>2, ProceedHonest, ProceedType
    DEF IssueAccessToken, TokensIInv, TokensTypeOK, TokensHonest, MarginKept
<1>7. ASSUME TimePasses PROVE TokensIInv'
  <2>1. cachedToken' \in [kept : Nat, life : Nat, slow : BOOLEAN] /\ MarginKept'
    <3>1. cachedToken' = [kept |-> Passed(cachedToken.kept), life |-> Passed(cachedToken.life), slow |-> cachedToken.slow]
      BY <1>7, <1>k DEF TimePasses
    <3>2. /\ Passed(cachedToken.kept) \in Nat /\ Passed(cachedToken.life) \in Nat
          /\ cachedToken.life >= cachedToken.kept => Passed(cachedToken.life) >= Passed(cachedToken.kept)
      BY <1>k DEF Passed
    <3>3. QED
      BY <1>t, <1>k, <3>1, <3>2 DEF MarginKept
  <2>2. ASSUME NEW c \in Borrower
        PROVE  /\ toolCall'[c] \in {Resting, [at |-> "waiting"]}
                    \cup [at : {"asking"}, left : 0 .. Timeout]
                    \cup [at : {"answered"}, left : 0 .. Timeout, life : Lifetime, age : Nat]
                    \cup [at : {"presents"}, over : BOOLEAN, slow : BOOLEAN]
               /\ toolCall'[c].at = "presents" => (toolCall'[c].over => toolCall'[c].slow)
    <3>1. CASE toolCall[c].at = "asking"
      <4>1. toolCall[c] \in [at : {"asking"}, left : 0 .. Timeout] /\ toolCall[c].left > 0
        BY <1>7, <1>t, <3>1, CallKinds DEF TimePasses
      <4>2. toolCall'[c] = [toolCall[c] EXCEPT !.left = @ - 1]
        BY <1>7, <3>1 DEF TimePasses
      <4>3. toolCall'[c] \in [at : {"asking"}, left : 0 .. Timeout]
        BY <4>1, <4>2
      <4>4. QED
        BY <4>3
    <3>2. CASE toolCall[c].at = "answered"
      <4>1. /\ toolCall[c] \in [at : {"answered"}, left : 0 .. Timeout, life : Lifetime, age : Nat]
            /\ toolCall[c].left > 0
        BY <1>7, <1>t, <3>2, CallKinds DEF TimePasses
      <4>2. toolCall'[c] = [toolCall[c] EXCEPT !.left = @ - 1, !.age = @ + 1]
        BY <1>7, <3>2 DEF TimePasses
      <4>3. toolCall'[c] = [at |-> "answered", left |-> toolCall[c].left - 1,
                            life |-> toolCall[c].life, age |-> toolCall[c].age + 1]
        BY <4>1, <4>2
      <4>4. /\ toolCall[c].left - 1 \in 0 .. Timeout
            /\ toolCall[c].life \in Lifetime
            /\ toolCall[c].age + 1 \in Nat
        BY <4>1
      <4>5. toolCall'[c] \in [at : {"answered"}, left : 0 .. Timeout, life : Lifetime, age : Nat]
        BY <4>3, <4>4
      <4>6. QED
        BY <4>5
    <3>3. CASE toolCall[c].at \notin {"asking", "answered"}
      <4>1. toolCall'[c] = toolCall[c]
        BY <1>7, <3>3 DEF TimePasses
      <4>2. toolCall'[c].at = "presents" => (toolCall'[c].over => toolCall'[c].slow)
        BY <1>t, <4>1 DEF TokensHonest
      <4>3. QED
        BY <1>t, <4>1, <4>2 DEF TokensTypeOK
    <3>4. QED
      BY <3>1, <3>2, <3>3
  <2>3. toolCall' = [c \in Borrower |-> toolCall'[c]]
    BY <1>7 DEF TimePasses
  <2>4. TokensTypeOK' /\ TokensHonest'
    BY <1>7, <1>t, <2>1, <2>2, <2>3 DEF TimePasses, TokensTypeOK, TokensHonest
  <2>5. QED
    BY <2>1, <2>4 DEF TokensIInv
<1>8. CASE UNCHANGED tokenVars
  BY <1>t, <1>8 DEF tokenVars, TokensIInv, TokensTypeOK, TokensHonest, MarginKept
<1>9. QED
  BY <1>1, <1>2, <1>3, <1>4, <1>5, <1>6, <1>7, <1>8, Zenon DEF TokensNext

\* The token cache keeps its invariant.
LEMMA TokensInvariant == TokensSpec => []TokensIInv
<1>1. ASSUME TokensInit PROVE TokensIInv
  <2>1. TokensTypeOK
    BY <1>1 DEF TokensInit, TokensTypeOK, NoToken
  <2>2. TokensHonest
    BY <1>1 DEF TokensInit, TokensHonest, Resting
  <2>3. MarginKept
    BY <1>1 DEF TokensInit, MarginKept, NoToken
  <2>4. QED
    BY <2>1, <2>2, <2>3 DEF TokensIInv
<1>2. QED
  BY <1>1, TokensStep, PTL DEF TokensSpec

-----------------------------------------------------------------------------
(* The signing keys. *)

\* The longest time a key set is kept, or the pause if that is longer.
LEMMA LongestFacts ==
  /\ Longest \in Nat
  /\ Pause <= Longest
  /\ \A a \in MaxAge : a <= Longest
<1>1. Longest \in MaxAge \cup {Pause} /\ \A b \in MaxAge \cup {Pause} : b <= Longest
  BY DEF Longest
<1>2. QED
  BY <1>1

\* What a verification carries at each of its places.
LEMMA CheckerKinds ==
  ASSUME KeysTypeOK, NEW v \in Checker
  PROVE  /\ checker[v].at \in {"look", "lock"} => checker[v] \in [at : {"look", "lock"}, key : Key, forced : BOOLEAN]
         /\ checker[v].at = "fetch" =>
              checker[v] \in [at : {"fetch"}, key : Key, forced : BOOLEAN, left : 0 .. Deadline]
         /\ checker[v].at = "reply" =>
              checker[v] \in [at : {"reply"}, key : Key, forced : BOOLEAN, left : 0 .. Deadline, keys : SUBSET Key]
<1>1. \/ checker[v] = AtRest
      \/ checker[v] \in [at : {"look", "lock"}, key : Key, forced : BOOLEAN]
      \/ checker[v] \in [at : {"fetch"}, key : Key, forced : BOOLEAN, left : 0 .. Deadline]
      \/ checker[v] \in [at : {"reply"}, key : Key, forced : BOOLEAN, left : 0 .. Deadline, keys : SUBSET Key]
      \/ checker[v] \in [at : {"accepts", "refuses"}, on : BOOLEAN, recent : BOOLEAN, kept : BOOLEAN]
  BY DEF KeysTypeOK
<1>2. QED
  BY <1>1 DEF AtRest

\* The places of a verification, in one set.
Checking ==
    {AtRest}
      \cup [at : {"look", "lock"}, key : Key, forced : BOOLEAN]
      \cup [at : {"fetch"}, key : Key, forced : BOOLEAN, left : 0 .. Deadline]
      \cup [at : {"reply"}, key : Key, forced : BOOLEAN, left : 0 .. Deadline, keys : SUBSET Key]
      \cup [at : {"accepts", "refuses"}, on : BOOLEAN, recent : BOOLEAN, kept : BOOLEAN]

\* What KeysHonest says of one verification.
HonestAt(c) ==
    /\ c.at = "accepts" => c.on \/ c.recent
    /\ c.at = "refuses" /\ c.kept => ~c.on \/ c.recent

\* What ReplyRecent says of one verification.
RecentAt(c) ==
    \A k \in Key :
        c.at = "reply" /\ (k \in c.keys) # published[k].on => published[k].age + c.left <= Deadline

\* A verification that moves on to what is honest and recent keeps all of them so, if
\* the provider's key set is as it was.
LEMMA ProceedsKeeps ==
  ASSUME KeysTypeOK, KeysHonest, ReplyRecent, NEW v \in Checker, NEW l \in Checking,
         Proceeds(v, l), UNCHANGED published, HonestAt(l), RecentAt(l)
  PROVE  checker' \in [Checker -> Checking] /\ KeysHonest' /\ ReplyRecent'
<1>1. checker \in [Checker -> Checking] /\ checker' = [checker EXCEPT ![v] = l]
  BY DEF KeysTypeOK, Checking, Proceeds
<1>2. checker' \in [Checker -> Checking]
  BY <1>1
<1>3. KeysHonest'
  BY <1>1 DEF KeysHonest, HonestAt
<1>4. ReplyRecent'
  BY <1>1 DEF ReplyRecent, RecentAt
<1>5. QED
  BY <1>2, <1>3, <1>4

\* A verdict is a verdict.
LEMMA VerdictType ==
  ASSUME KeysTypeOK, NEW v \in Checker, NEW answer \in {"accepts", "refuses"}, NEW within,
         checker[v].key \in Key
  PROVE  KeyVerdict(v, answer, within) \in
            [at : {"accepts", "refuses"}, on : BOOLEAN, recent : BOOLEAN, kept : BOOLEAN]
<1>1. published[checker[v].key].on \in BOOLEAN
  BY DEF KeysTypeOK
<1>2. (published[checker[v].key].age <= within) \in BOOLEAN /\ (keySet # NoKeys) \in BOOLEAN
  OBVIOUS
<1>3. QED
  BY <1>1, <1>2 DEF KeyVerdict

\* A verification judged by a key set keeps the verifications honest, if what the set and
\* the provider disagree about has changed lately.
LEMMA JudgesKeeps ==
  ASSUME KeysTypeOK, KeysHonest, ReplyRecent, NEW v \in Checker, NEW keys,
         checker[v].key \in Key, checker[v].forced \in BOOLEAN,
         Judges(v, keys), UNCHANGED published,
         checker[v].key \in keys =>
            published[checker[v].key].on \/ published[checker[v].key].age <= Lag,
         checker[v].key \notin keys /\ checker[v].forced /\ keySet # NoKeys =>
            ~published[checker[v].key].on \/ published[checker[v].key].age <= Pause + Deadline
  PROVE  checker' \in [Checker -> Checking] /\ KeysHonest' /\ ReplyRecent'
<1> DEFINE yes == KeyVerdict(v, "accepts", Lag)
           no == KeyVerdict(v, "refuses", Pause + Deadline)
           again == [at |-> "look", key |-> checker[v].key, forced |-> TRUE]
<1>1. CASE checker[v].key \in keys
  <2>1. yes \in Checking
    BY VerdictType DEF Checking
  <2>2. HonestAt(yes) /\ RecentAt(yes)
    BY <1>1 DEF KeyVerdict, HonestAt, RecentAt
  <2>3. Proceeds(v, yes)
    BY <1>1 DEF Judges
  <2>4. QED
    BY <2>1, <2>2, <2>3, ProceedsKeeps
<1>2. CASE checker[v].key \notin keys /\ checker[v].forced
  <2>1. no \in Checking
    BY VerdictType DEF Checking
  <2>2. HonestAt(no) /\ RecentAt(no)
    BY <1>2 DEF KeyVerdict, HonestAt, RecentAt
  <2>3. Proceeds(v, no)
    BY <1>2 DEF Judges
  <2>4. QED
    BY <2>1, <2>2, <2>3, ProceedsKeeps
<1>3. CASE checker[v].key \notin keys /\ ~checker[v].forced
  <2>1. again \in Checking
    BY DEF Checking
  <2>2. HonestAt(again) /\ RecentAt(again)
    BY DEF HonestAt, RecentAt
  <2>3. Proceeds(v, again)
    BY <1>3 DEF Judges
  <2>4. QED
    BY <2>1, <2>2, <2>3, ProceedsKeeps
<1>4. QED
  BY <1>1, <1>2, <1>3

\* A verification judged by the cache, current or within the pause.
LEMMA CacheJudges ==
  ASSUME KeysIInv, NEW v \in Checker, checker[v].key \in Key, checker[v].forced \in BOOLEAN,
         (Current /\ ~checker[v].forced) \/ Paused(v), Judges(v, keySet.keys), UNCHANGED published
  PROVE  checker' \in [Checker -> Checking] /\ KeysHonest' /\ ReplyRecent'
<1> DEFINE k == checker[v].key
<1>1. /\ published[k].on \in BOOLEAN /\ published[k].age \in Nat
      /\ keySet.left \in Nat /\ keySet.keys \subseteq Key /\ pausing \in Nat
  BY LongestFacts DEF KeysIInv, KeysTypeOK, Age, Lag
<1>2. k \in keySet.keys => published[k].on \/ published[k].age <= Lag
  <2>1. SUFFICES ASSUME k \in keySet.keys, ~published[k].on PROVE published[k].age <= Lag
    BY <1>1
  <2>2. CASE Current
    BY <1>1, <2>1, <2>2, LongestFacts DEF KeysIInv, CacheRecent, Lag
  <2>3. CASE pausing > 0
    BY <1>1, <2>1, <2>3, LongestFacts DEF KeysIInv, CacheRecent, Lag
  <2>4. QED
    BY <2>2, <2>3 DEF Paused
<1>3. k \notin keySet.keys /\ checker[v].forced /\ keySet # NoKeys =>
         ~published[k].on \/ published[k].age <= Pause + Deadline
  BY <1>1 DEF KeysIInv, CacheRecent, Paused
<1>4. QED
  BY <1>2, <1>3, JudgesKeeps DEF KeysIInv

\* Judged or sent for the keys, a verification leaves the cache as it is.
LEMMA CheckerStep ==
  ASSUME KeysIInv, checker' \in [Checker -> Checking], KeysHonest', ReplyRecent',
         UNCHANGED <<published, keySet, pausing>>, keyLock' \in Checker \cup {Unlocked}
  PROVE  KeysIInv'
<1>1. KeysTypeOK'
  BY DEF KeysIInv, KeysTypeOK, Checking
<1>2. CacheRecent'
  BY DEF KeysIInv, CacheRecent, Current
<1>3. QED
  BY <1>1, <1>2 DEF KeysIInv

\* A reply that is stored is as recent as the cache has to be.
LEMMA StoreStep ==
  ASSUME KeysIInv, NEW v \in Checker, NEW age \in MaxAge, StoreKeys(v, age)
  PROVE  KeysIInv'
<1>t. KeysTypeOK /\ KeysHonest /\ CacheRecent /\ ReplyRecent
  BY DEF KeysIInv
<1>1. checker[v] \in [at : {"reply"}, key : Key, forced : BOOLEAN, left : 0 .. Deadline, keys : SUBSET Key]
  BY <1>t, CheckerKinds DEF StoreKeys
<1>2. \A k \in Key : (k \in checker[v].keys) # published[k].on => published[k].age <= Deadline
  BY <1>t, <1>1 DEF ReplyRecent, KeysTypeOK, Age
<1>3. \A k \in Key : published[k].on \in BOOLEAN /\ published[k].age \in Nat
  BY <1>t, LongestFacts DEF KeysTypeOK, Age, Lag
<1>4. checker' \in [Checker -> Checking] /\ KeysHonest' /\ ReplyRecent'
  <2>1. checker[v].key \in checker[v].keys =>
           published[checker[v].key].on \/ published[checker[v].key].age <= Lag
    BY <1>1, <1>2, <1>3, LongestFacts DEF Lag
  <2>2. checker[v].key \notin checker[v].keys =>
           ~published[checker[v].key].on \/ published[checker[v].key].age <= Pause + Deadline
    BY <1>1, <1>2, <1>3
  <2>3. QED
    BY <1>t, <1>1, <2>1, <2>2, JudgesKeeps DEF StoreKeys
<1>5. keySet' \in [keys : SUBSET Key, left : 0 .. Longest]
  <2>1. CASE age > 0
    <3>1. keySet' = [keys |-> checker[v].keys, left |-> age]
      BY <2>1 DEF StoreKeys
    <3>2. age \in Nat /\ age <= Longest /\ Longest \in Nat
      BY LongestFacts
    <3>3. age \in 0 .. Longest /\ checker[v].keys \in SUBSET Key
      BY <1>1, <3>2
    <3>4. QED
      BY <3>1, <3>3
  <2>2. CASE ~(age > 0)
    BY <2>2, LongestFacts DEF StoreKeys, NoKeys
  <2>3. QED
    BY <2>1, <2>2
<1>6. KeysTypeOK'
  BY <1>t, <1>4, <1>5 DEF StoreKeys, KeysTypeOK, Checking
<1>7. CacheRecent'
  <2>1. SUFFICES ASSUME NEW k \in Key
                 PROVE  /\ k \in keySet'.keys /\ ~published[k].on =>
                              /\ keySet'.left > 0 => published[k].age + keySet'.left <= Lag
                              /\ Pause > 0 => published[k].age + Pause <= Pause + Deadline
                        /\ k \notin keySet'.keys /\ published[k].on /\ keySet' # NoKeys /\ Pause > 0 =>
                              published[k].age + Pause <= Pause + Deadline
    BY DEF StoreKeys, CacheRecent, Current
  <2>2. CASE age > 0
    <3>1. keySet'.keys = checker[v].keys /\ keySet'.left = age
      BY <2>2 DEF StoreKeys
    <3>2. age \in Nat /\ age <= Longest
      BY LongestFacts
    <3>3. (k \in checker[v].keys) # published[k].on => published[k].age <= Deadline
      BY <1>2
    <3>4. published[k].on \in BOOLEAN /\ published[k].age \in Nat
      BY <1>3
    <3>5. published[k].age <= Deadline => /\ published[k].age + age <= Longest + Deadline
                                          /\ published[k].age + Pause <= Pause + Deadline
      BY <3>2, <3>4, LongestFacts
    <3>6. QED
      BY <3>1, <3>3, <3>4, <3>5 DEF Lag
  <2>3. CASE ~(age > 0)
    BY <2>3 DEF StoreKeys, NoKeys
  <2>4. QED
    BY <2>2, <2>3
<1>8. QED
  BY <1>4, <1>6, <1>7 DEF KeysIInv

\* A key that has just changed is recent.
LEMMA RotateStep ==
  ASSUME KeysIInv, NEW k \in Key, RotateKeys(k)
  PROVE  KeysIInv'
<1>t. KeysTypeOK /\ KeysHonest /\ CacheRecent /\ ReplyRecent
  BY DEF KeysIInv
<1>1. Lag \in Nat
  BY LongestFacts DEF Lag
<1>2. published' \in [Key -> [on : BOOLEAN, age : Age]]
  <2>1. [on |-> ~published[k].on, age |-> 0] \in [on : BOOLEAN, age : Age]
    BY <1>1 DEF Age
  <2>2. QED
    BY <1>t, <2>1 DEF RotateKeys, KeysTypeOK
<1>3. KeysTypeOK'
  BY <1>t, <1>2 DEF RotateKeys, KeysTypeOK
<1>4. KeysHonest'
  BY <1>t DEF RotateKeys, KeysHonest
<1>5. published'[k].age = 0 /\ \A j \in Key \ {k} : published'[j] = published[j]
  BY <1>t DEF RotateKeys, KeysTypeOK
<1>6. CacheRecent'
  BY <1>t, <1>5, LongestFacts DEF RotateKeys, CacheRecent, Current, KeysTypeOK, Lag
<1>7. ReplyRecent'
  <2>1. SUFFICES ASSUME NEW v \in Checker, NEW j \in Key, checker[v].at = "reply",
                        (j \in checker[v].keys) # published'[j].on
                 PROVE  published'[j].age + checker[v].left <= Deadline
    BY DEF RotateKeys, ReplyRecent
  <2>2. checker[v].left \in 0 .. Deadline
    BY <1>t, <2>1, CheckerKinds
  <2>3. CASE j = k
    BY <1>5, <2>2, <2>3
  <2>4. CASE j # k
    BY <1>t, <1>5, <2>1, <2>4 DEF ReplyRecent
  <2>5. QED
    BY <2>3, <2>4
<1>8. QED
  BY <1>3, <1>4, <1>6, <1>7 DEF KeysIInv

\* Time takes from what is left as much as it adds to a key's age.
LEMMA TickStep ==
  ASSUME KeysIInv, ClockTicks
  PROVE  KeysIInv'
<1>t. KeysTypeOK /\ KeysHonest /\ CacheRecent /\ ReplyRecent
  BY DEF KeysIInv
<1>1. Lag \in Nat
  BY LongestFacts DEF Lag
<1>2. ASSUME NEW k \in Key
      PROVE  /\ published'[k] \in [on : BOOLEAN, age : Age]
             /\ published'[k].on = published[k].on
             /\ published'[k].age <= published[k].age + 1
             /\ published[k].age \in Nat /\ published'[k].age \in Nat
  <2> DEFINE a == IF published[k].age + 1 \in Age THEN published[k].age + 1 ELSE published[k].age
  <2>1. published[k] \in [on : BOOLEAN, age : Age]
    BY <1>t DEF KeysTypeOK
  <2>2. published'[k] = [on |-> published[k].on, age |-> a]
    BY <2>1 DEF ClockTicks
  <2>3. a \in Age /\ a <= published[k].age + 1 /\ published[k].age \in Nat /\ a \in Nat
    BY <1>1, <2>1 DEF Age
  <2> HIDE DEF a
  <2>4. QED
    BY <2>1, <2>2, <2>3
<1>3. keySet' = [keys |-> keySet.keys, left |-> IF keySet.left = 0 THEN 0 ELSE keySet.left - 1]
  BY <1>t DEF ClockTicks, KeysTypeOK
<1>4. /\ keySet.left \in 0 .. Longest /\ keySet'.left \in 0 .. Longest
      /\ keySet'.left > 0 => keySet'.left = keySet.left - 1 /\ keySet.left > 0
      /\ keySet'.keys = keySet.keys /\ keySet.keys \in SUBSET Key
  BY <1>t, <1>3, LongestFacts DEF KeysTypeOK
<1>5. /\ pausing' \in 0 .. Pause /\ pausing \in 0 .. Pause
      /\ pausing' > 0 => pausing' = pausing - 1 /\ pausing > 0
  <2>1. pausing \in 0 .. Pause
    BY <1>t DEF KeysTypeOK
  <2>2. pausing' = IF pausing = 0 THEN 0 ELSE pausing - 1
    BY DEF ClockTicks
  <2>3. QED
    BY <2>1, <2>2
<1>6. ASSUME NEW v \in Checker
      PROVE  /\ checker'[v] \in Checking
             /\ HonestAt(checker'[v])
             /\ checker'[v].at = "reply" => /\ checker[v].at = "reply" /\ checker'[v].keys = checker[v].keys
                                            /\ checker[v].left \in Nat /\ checker'[v].left = checker[v].left - 1
  <2>1. CASE checker[v].at = "fetch"
    <3>1. /\ checker[v] \in [at : {"fetch"}, key : Key, forced : BOOLEAN, left : 0 .. Deadline]
          /\ checker[v].left > 0
      BY <1>t, <2>1, CheckerKinds DEF ClockTicks
    <3>2. checker'[v] = [checker[v] EXCEPT !.left = @ - 1]
      BY <2>1 DEF ClockTicks
    <3>3. checker'[v] \in [at : {"fetch"}, key : Key, forced : BOOLEAN, left : 0 .. Deadline]
      BY <3>1, <3>2
    <3>4. QED
      BY <3>3 DEF Checking, HonestAt
  <2>2. CASE checker[v].at = "reply"
    <3>1. /\ checker[v] \in [at : {"reply"}, key : Key, forced : BOOLEAN, left : 0 .. Deadline, keys : SUBSET Key]
          /\ checker[v].left > 0
      BY <1>t, <2>2, CheckerKinds DEF ClockTicks
    <3>2. checker'[v] = [checker[v] EXCEPT !.left = @ - 1]
      BY <2>2 DEF ClockTicks
    <3>3. /\ checker'[v] \in [at : {"reply"}, key : Key, forced : BOOLEAN, left : 0 .. Deadline, keys : SUBSET Key]
          /\ checker'[v].keys = checker[v].keys /\ checker'[v].left = checker[v].left - 1
      BY <3>1, <3>2
    <3>4. QED
      BY <2>2, <3>1, <3>3 DEF Checking, HonestAt
  <2>3. CASE checker[v].at \notin {"fetch", "reply"}
    <3>1. checker'[v] = checker[v]
      BY <2>3 DEF ClockTicks
    <3>2. checker[v] \in Checking /\ HonestAt(checker[v])
      BY <1>t DEF KeysTypeOK, Checking, KeysHonest, HonestAt
    <3>3. QED
      BY <2>3, <3>1, <3>2
  <2>4. QED
    BY <2>1, <2>2, <2>3
<1>7. checker' = [v \in Checker |-> checker'[v]] /\ published' = [k \in Key |-> published'[k]]
  BY DEF ClockTicks
<1>8. KeysTypeOK'
  <2>1. checker' \in [Checker -> Checking]
    BY <1>6, <1>7
  <2>2. published' \in [Key -> [on : BOOLEAN, age : Age]]
    BY <1>2, <1>7
  <2>3. keySet' \in [keys : SUBSET Key, left : 0 .. Longest]
    BY <1>3, <1>4
  <2>4. QED
    BY <1>t, <1>5, <2>1, <2>2, <2>3 DEF ClockTicks, KeysTypeOK, Checking
<1>9. KeysHonest'
  BY <1>6 DEF KeysHonest, HonestAt
<1>10. CacheRecent'
  <2>1. SUFFICES ASSUME NEW k \in Key
                 PROVE  /\ k \in keySet'.keys /\ ~published'[k].on =>
                              /\ keySet'.left > 0 => published'[k].age + keySet'.left <= Lag
                              /\ pausing' > 0 => published'[k].age + pausing' <= Pause + Deadline
                        /\ k \notin keySet'.keys /\ published'[k].on /\ keySet' # NoKeys /\ pausing' > 0 =>
                              published'[k].age + pausing' <= Pause + Deadline
    BY DEF CacheRecent, Current
  <2>2. keySet' # NoKeys => keySet # NoKeys
    BY <1>3 DEF NoKeys
  <2>3. /\ k \in keySet.keys /\ ~published[k].on =>
              /\ keySet.left > 0 => published[k].age + keySet.left <= Lag
              /\ pausing > 0 => published[k].age + pausing <= Pause + Deadline
        /\ k \notin keySet.keys /\ published[k].on /\ keySet # NoKeys /\ pausing > 0 =>
              published[k].age + pausing <= Pause + Deadline
    BY <1>t DEF CacheRecent, Current
  <2>4. QED
    BY <1>1, <1>2, <1>4, <1>5, <2>2, <2>3
<1>11. ReplyRecent'
  <2>1. SUFFICES ASSUME NEW v \in Checker, NEW k \in Key, checker'[v].at = "reply",
                        (k \in checker'[v].keys) # published'[k].on
                 PROVE  published'[k].age + checker'[v].left <= Deadline
    BY DEF ReplyRecent
  <2>2. checker[v].at = "reply" /\ (k \in checker[v].keys) # published[k].on
    BY <1>2, <1>6, <2>1
  <2>3. published[k].age + checker[v].left <= Deadline
    BY <1>t, <2>2 DEF ReplyRecent
  <2>4. QED
    BY <1>2, <1>6, <2>1, <2>3
<1>12. QED
  BY <1>8, <1>9, <1>10, <1>11 DEF KeysIInv

\* No step of a verification, of the provider or of the clock leaves the invariant.
LEMMA KeysStep == KeysIInv /\ [KeysNext]_keyVars => KeysIInv'
<1> SUFFICES ASSUME KeysIInv, [KeysNext]_keyVars PROVE KeysIInv'
  OBVIOUS
<1>t. KeysTypeOK /\ KeysHonest /\ CacheRecent /\ ReplyRecent
  BY DEF KeysIInv
<1>l. keyLock \in Checker \cup {Unlocked}
  BY <1>t DEF KeysTypeOK
<1>1. ASSUME NEW v \in Checker, NEW k \in Key, VerifyToken(v, k) PROVE KeysIInv'
  <2> DEFINE l == [at |-> "look", key |-> k, forced |-> FALSE]
  <2>1. l \in Checking /\ HonestAt(l) /\ RecentAt(l)
    BY DEF Checking, HonestAt, RecentAt
  <2>2. Proceeds(v, l)
    BY <1>1 DEF VerifyToken
  <2> HIDE DEF l
  <2>3. QED
    BY <1>1, <1>t, <1>l, <2>1, <2>2, ProceedsKeeps, CheckerStep DEF VerifyToken
<1>2. ASSUME NEW v \in Checker, LookUp(v) PROVE KeysIInv'
  <2>1. checker[v] \in [at : {"look", "lock"}, key : Key, forced : BOOLEAN]
    BY <1>2, <1>t, CheckerKinds DEF LookUp
  <2>2. CASE Current /\ ~checker[v].forced
    BY <1>2, <1>l, <2>1, <2>2, CacheJudges, CheckerStep DEF LookUp
  <2>3. CASE ~(Current /\ ~checker[v].forced)
    <3> DEFINE l == [checker[v] EXCEPT !.at = "lock"]
    <3>1. l \in [at : {"look", "lock"}, key : Key, forced : BOOLEAN] /\ l.at = "lock"
      BY <2>1
    <3>2. Proceeds(v, l)
      BY <1>2, <2>3 DEF LookUp
    <3> HIDE DEF l
    <3>3. l \in Checking /\ HonestAt(l) /\ RecentAt(l)
      BY <3>1 DEF Checking, HonestAt, RecentAt
    <3>4. QED
      BY <1>2, <1>t, <1>l, <3>2, <3>3, ProceedsKeeps, CheckerStep DEF LookUp
  <2>4. QED
    BY <2>2, <2>3
<1>3. ASSUME NEW v \in Checker, Locked(v) PROVE KeysIInv'
  <2>1. checker[v] \in [at : {"look", "lock"}, key : Key, forced : BOOLEAN]
    BY <1>3, <1>t, CheckerKinds DEF Locked
  <2>2. CASE (Current /\ ~checker[v].forced) \/ Paused(v)
    BY <1>3, <1>l, <2>1, <2>2, CacheJudges, CheckerStep DEF Locked
  <2>3. CASE ~((Current /\ ~checker[v].forced) \/ Paused(v))
    <3> DEFINE l == [at |-> "fetch", key |-> checker[v].key, forced |-> checker[v].forced, left |-> Deadline]
    <3>1. l \in [at : {"fetch"}, key : Key, forced : BOOLEAN, left : 0 .. Deadline] /\ l.at = "fetch"
      BY <2>1
    <3>2. Proceeds(v, l)
      BY <1>3, <2>3 DEF Locked
    <3> HIDE DEF l
    <3>3. l \in Checking /\ HonestAt(l) /\ RecentAt(l)
      BY <3>1 DEF Checking, HonestAt, RecentAt
    <3>4. QED
      BY <1>3, <1>t, <2>3, <3>2, <3>3, ProceedsKeeps, CheckerStep DEF Locked
  <2>4. QED
    BY <2>2, <2>3
<1>4. ASSUME NEW v \in Checker, AnswerKeys(v) PROVE KeysIInv'
  <2> DEFINE l == [at |-> "reply", key |-> checker[v].key, forced |-> checker[v].forced,
                   left |-> checker[v].left, keys |-> {k \in Key : published[k].on}]
  <2>1. checker[v] \in [at : {"fetch"}, key : Key, forced : BOOLEAN, left : 0 .. Deadline]
    BY <1>4, <1>t, CheckerKinds DEF AnswerKeys
  <2>2. /\ l \in [at : {"reply"}, key : Key, forced : BOOLEAN, left : 0 .. Deadline, keys : SUBSET Key]
        /\ l.at = "reply" /\ l.keys = {k \in Key : published[k].on}
    BY <2>1
  <2>3. Proceeds(v, l)
    BY <1>4 DEF AnswerKeys
  <2> HIDE DEF l
  <2>4. \A k \in Key : (k \in l.keys) = published[k].on
    BY <1>t, <2>2 DEF KeysTypeOK
  <2>5. l \in Checking /\ HonestAt(l) /\ RecentAt(l)
    BY <2>2, <2>4 DEF Checking, HonestAt, RecentAt
  <2>6. QED
    BY <1>4, <1>t, <1>l, <2>3, <2>5, ProceedsKeeps, CheckerStep DEF AnswerKeys
<1>r. AtRest \in Checking /\ HonestAt(AtRest) /\ RecentAt(AtRest)
  BY DEF Checking, HonestAt, RecentAt, AtRest
<1>5. ASSUME NEW v \in Checker, KeysUnavailable(v) PROVE KeysIInv'
  BY <1>5, <1>t, <1>r, ProceedsKeeps, CheckerStep DEF KeysUnavailable
<1>6. ASSUME NEW v \in Checker, Verified(v) PROVE KeysIInv'
  BY <1>6, <1>t, <1>l, <1>r, ProceedsKeeps, CheckerStep DEF Verified
<1>7. ASSUME NEW v \in Checker, NEW age \in MaxAge, StoreKeys(v, age) PROVE KeysIInv'
  BY <1>7, StoreStep
<1>8. ASSUME NEW k \in Key, RotateKeys(k) PROVE KeysIInv'
  BY <1>8, RotateStep
<1>9. ASSUME ClockTicks PROVE KeysIInv'
  BY <1>9, TickStep
<1>10. CASE UNCHANGED keyVars
  BY <1>t, <1>10 DEF keyVars, KeysIInv, KeysTypeOK, KeysHonest, CacheRecent, ReplyRecent, Current
<1>11. QED
  BY <1>1, <1>2, <1>3, <1>4, <1>5, <1>6, <1>7, <1>8, <1>9, <1>10, Zenon DEF KeysNext

\* The key cache keeps its invariant.
LEMMA KeysInvariant == KeysSpec => []KeysIInv
<1>1. ASSUME KeysInit PROVE KeysIInv
  <2>1. KeysTypeOK
    BY <1>1, LongestFacts DEF KeysInit, KeysTypeOK, NoKeys, Age, Lag
  <2>2. KeysHonest /\ ReplyRecent
    BY <1>1 DEF KeysInit, KeysHonest, ReplyRecent, AtRest
  <2>3. CacheRecent
    BY <1>1 DEF KeysInit, CacheRecent, Current, NoKeys
  <2>4. QED
    BY <2>1, <2>2, <2>3 DEF KeysIInv
<1>2. QED
  BY <1>1, KeysStep, PTL DEF KeysSpec

\* The caches of a runtime, upstream.py and oidc_client.py, hand out nothing that has
\* gone stale and give nothing up that still serves, whatever the lifetimes, the
\* timeouts and the number of calls and verifications at the same time.
THEOREM CachesStayHonest == CachesSpec => []CachesHonest
<1>1. TokensIInv /\ KeysIInv => CachesHonest
  BY DEF TokensIInv, KeysIInv, CachesHonest
<1>2. QED
  BY <1>1, TokensInvariant, KeysInvariant, PTL DEF CachesSpec

-----------------------------------------------------------------------------
(* The knowledge of a build. *)

HIDE TokensAssumption
HIDE KeysAssumption
USE KnowledgeAssumption

\* The variables of one execution.
JobRecord == [at : Place, vectors : Resolved, left : SUBSET Chunk,
              collection : Collection \cup {Nothing}, filed : BOOLEAN,
              asked : SUBSET Endpoint,
              answers : [Endpoint -> Answer \cup {NoAnswer}]]

-----------------------------------------------------------------------------
(* Types. *)

\* Where a job may be without any variables.
Bare(place) == [NoLocals EXCEPT !.at = place]

\* Such a job is a job.
LEMMA BareType ==
  /\ NoLocals \in JobRecord /\ NoLocals.at = "waiting" /\ NoLocals.asked = {}
  /\ \A e \in Endpoint : NoLocals.answers[e] = NoAnswer
  /\ \A place \in Place :
       /\ Bare(place) \in JobRecord
       /\ Bare(place).at = place
       /\ Bare(place).left = Chunk
       /\ Bare(place).asked = {}
       /\ \A e \in Endpoint : Bare(place).answers[e] = NoAnswer
<1>1. /\ NoLocals \in JobRecord /\ NoLocals.at = "waiting" /\ NoLocals.asked = {}
      /\ \A e \in Endpoint : NoLocals.answers[e] = NoAnswer
  BY DEF NoLocals, JobRecord, Unresolved, Resolved, Place
<1>2. QED
  BY <1>1 DEF NoLocals, JobRecord, Bare

\* The vectors have one of the lengths that the models make.
LEMMA CollectionType == \A m \in Model : Dimension[m] \in Collection /\ Dimension[m] # 0
  BY DEF Collection

\* What a step leaves of the jobs.
JobsType == job' \in [Execution -> JobRecord]

\* The variables of one job change.
LEMMA OneJob ==
  ASSUME job \in [Execution -> JobRecord], NEW t \in Execution, NEW l \in JobRecord,
         job' = [job EXCEPT ![t] = l]
  PROVE  JobsType /\ job'[t] = l /\ \A u \in Execution : u # t => job'[u] = job[u]
  BY DEF JobsType

\* A job that goes on keeps its variables.
LEMMA GoesType ==
  ASSUME job \in [Execution -> JobRecord], NEW t \in Execution, NEW place \in Place, Goes(t, place)
  PROVE  /\ JobsType
         /\ \A u \in Execution : u # t => job'[u] = job[u]
         /\ job'[t] = [job[t] EXCEPT !.at = place]
         /\ job'[t].at = place /\ job'[t].left = job[t].left /\ job'[t].vectors = job[t].vectors
         /\ job'[t].collection = job[t].collection /\ job'[t].asked = job[t].asked
         /\ job'[t].answers = job[t].answers
<1>1. job' = [job EXCEPT ![t] = [job[t] EXCEPT !.at = place]]
  BY DEF Goes
<1>2. [job[t] EXCEPT !.at = place] \in JobRecord
  BY DEF JobRecord
<1>3. QED
  BY <1>1, <1>2 DEF JobRecord, JobsType

\* A job that leaves a call keeps none.
LEMMA LeavesType ==
  ASSUME job \in [Execution -> JobRecord], NEW t \in Execution, NEW place \in Place, Leaves(t, place)
  PROVE  /\ JobsType
         /\ \A u \in Execution : u # t => job'[u] = job[u]
         /\ job'[t] = Bare(place)
  BY BareType DEF Leaves, Bare, JobsType

\* Either way the job is at that place.
LEMMA GoneTo ==
  ASSUME job \in [Execution -> JobRecord], NEW t \in Execution, NEW place \in Place,
         Goes(t, place) \/ Leaves(t, place)
  PROVE  job'[t].at = place
<1>1. CASE Goes(t, place)
  BY <1>1, GoesType
<1>2. CASE Leaves(t, place)
  <2>1. job'[t] = Bare(place)
    BY <1>2, LeavesType
  <2>2. QED
    BY <2>1, BareType
<1>3. QED
  BY <1>1, <1>2

\* A check sends a job on, or to undo its work.
LEMMA CheckedPlace ==
  ASSUME NEW t, NEW place \in Place
  PROVE  Checked(t, place) \in Place /\ Checked(t, place) \in {place, "undo"}
  BY DEF Checked, Place

\* What the execution publishes: resolved vectors, and the collection for them.
LEMMA ResolvesEffect ==
  ASSUME KnowledgeTypeOK, NEW t \in Execution, NEW made \in SUBSET Chunk, NEW m \in Model,
         Resolves(t, made, m), Chunk # {},
         \A c \in Chunk \ made : job[t].vectors[c] \in Model
  PROVE  /\ JobsType /\ cached' \in Resolved
         /\ \A u \in Execution : u # t => job'[u] = job[u]
         /\ job'[t].at \in {"publish", "undo"} /\ job'[t].left = job[t].left
         /\ job'[t].collection \in Collection
         /\ job'[t].asked = job[t].asked /\ job'[t].answers = job[t].answers
         /\ \A c \in Chunk : job'[t].vectors[c] = IF c \in made THEN m ELSE job[t].vectors[c]
         /\ \A c \in Chunk : job'[t].vectors[c] \in Model
<1> DEFINE vectors == [c \in Chunk |-> IF c \in made THEN m ELSE job[t].vectors[c]]
           col == Dimension[vectors[CHOOSE c \in Chunk : TRUE]]
           at == Checked(t, "publish")
           l == [job[t] EXCEPT !.vectors = vectors, !.collection = col, !.at = at]
<1>1. job[t] \in JobRecord /\ job \in [Execution -> JobRecord] /\ cached \in Resolved
  BY DEF KnowledgeTypeOK, JobRecord
<1>2. vectors \in Resolved /\ \A c \in Chunk : vectors[c] \in Model
  BY <1>1 DEF Resolved, JobRecord
<1>3. col \in Collection
  <2>1. vectors[CHOOSE c \in Chunk : TRUE] \in Model
    BY <1>2
  <2> HIDE DEF vectors
  <2>2. QED
    BY <2>1, CollectionType
<1>4. at \in Place /\ at \in {"publish", "undo"}
  BY CheckedPlace DEF Place
<1>5. cached' \in Resolved
  BY <1>1 DEF Resolves, Resolved
<1>6. job' = [job EXCEPT ![t] = l]
  BY <1>1 DEF Resolves
<1> HIDE DEF vectors, col, at
<1>7. /\ l \in JobRecord /\ l.collection = col /\ l.at = at /\ l.left = job[t].left /\ l.vectors = vectors
      /\ l.asked = job[t].asked /\ l.answers = job[t].answers
  BY <1>1, <1>2, <1>3, <1>4 DEF JobRecord
<1> HIDE DEF l
<1>8. JobsType /\ job'[t] = l /\ \A u \in Execution : u # t => job'[u] = job[u]
  BY <1>1, <1>6, <1>7 DEF JobsType
<1>9. QED
  BY <1>2, <1>3, <1>4, <1>5, <1>7, <1>8 DEF vectors

-----------------------------------------------------------------------------
(* One job. *)

\* What the invariant says of the variables of one job.
Sound(l) ==
    /\ l \in JobRecord
    /\ l.at = "prepare" => l = Bare("prepare")
    /\ l.at \in Resolving => l.left = Chunk
    /\ l.at \in {"lookup", "embed", "embedAll", "publish"} => Chunk # {}
    /\ l.at = "publish" => l.collection \in Collection
    /\ l.at = "complete" => l.left = {}
    /\ l.at \in Publishing =>
         \A c, d \in Chunk : l.vectors[c] \in Model /\ l.vectors[c] = l.vectors[d]

\* All jobs are sound, and those to come have not begun.
JobsInv ==
    /\ job \in [Execution -> JobRecord]
    /\ \A t \in Execution : Sound(job[t])
    /\ \A t \in Execution : t > lease => job[t] = NoLocals

\* A job without variables is sound wherever it does not need any.
LEMMA BareSound ==
  /\ Sound(NoLocals)
  /\ \A place \in Place \ (Resolving \cup Publishing) : Sound(Bare(place))
<1>1. Sound(NoLocals)
  BY BareType DEF Sound, Resolving, Publishing
<1>2. ASSUME NEW place \in Place, place \notin Resolving, place \notin Publishing
      PROVE  Sound(Bare(place))
  BY <1>2, BareType DEF Sound, Resolving, Publishing
<1>3. QED
  BY <1>1, <1>2

\* A step of job t writes the variables of that job only, and leaves them sound.
Moves(t) ==
    /\ JobsType
    /\ \A u \in Execution : u # t => job'[u] = job[u]
    /\ Sound(job'[t])

\* A place that needs no variables.
Easy == {"indexed", "undo", "record", "failed", "analyse", "enriched", "over"}

\* A job may go to such a place with or without variables.
LEMMA EasySteps ==
  ASSUME JobsInv, NEW t \in Execution, NEW place \in Easy, Goes(t, place) \/ Leaves(t, place)
  PROVE  Moves(t)
<1>1. place \in Place /\ place \notin Resolving /\ place \notin Publishing /\ place # "prepare"
  BY DEF Easy, Place, Resolving, Publishing
<1>2. CASE Goes(t, place)
  <2>1. /\ JobsType /\ job'[t].at = place /\ \A u \in Execution : u # t => job'[u] = job[u]
    BY <1>1, <1>2, GoesType DEF JobsInv
  <2>2. Sound(job'[t])
    BY <1>1, <2>1 DEF Sound, Resolving, Publishing, JobsType
  <2>3. QED
    BY <2>1, <2>2 DEF Moves
<1>3. CASE Leaves(t, place)
  <2>1. /\ JobsType /\ job'[t] = Bare(place) /\ \A u \in Execution : u # t => job'[u] = job[u]
    BY <1>1, <1>3, LeavesType DEF JobsInv
  <2>2. Sound(job'[t])
    BY <1>1, <2>1, BareSound
  <2>3. QED
    BY <2>1, <2>2 DEF Moves
<1>4. QED
  BY <1>2, <1>3

\* A job starts, or starts again, without variables.
LEMMA StartMoves ==
  ASSUME JobsInv, NEW t \in Execution, Leaves(t, "prepare")
  PROVE  Moves(t)
<1>1. "prepare" \in Place \ (Resolving \cup Publishing)
  BY DEF Place, Resolving, Publishing
<1>2. JobsType /\ job'[t] = Bare("prepare") /\ \A u \in Execution : u # t => job'[u] = job[u]
  BY <1>1, LeavesType DEF JobsInv
<1>3. QED
  BY <1>1, <1>2, BareSound DEF Moves

\* What is cached is used as the work of one model, or not at all.
LEMMA EmbeddedAgree ==
  ASSUME NEW found \in Resolved, NEW m \in Model, Chunk # {},
         ~(Embedded(found, m) # Missing(found) /\ Cardinality(ModelsOf(found)) = 1)
  PROVE  LET made == Embedded(found, m)
         IN  /\ made \in SUBSET Chunk
             /\ \A c \in Chunk \ made : found[c] \in Model
             /\ \A c, d \in Chunk : (IF c \in made THEN m ELSE found[c])
                                       = (IF d \in made THEN m ELSE found[d])
<1> DEFINE made == Embedded(found, m)
<1>1. ModelsOf(found) \in SUBSET Model /\ \A c \in Chunk \ Missing(found) : found[c] \in ModelsOf(found)
  BY DEF ModelsOf, Missing, Resolved
<1>2. IsFiniteSet(ModelsOf(found)) /\ Cardinality(ModelsOf(found)) \in Nat
  BY <1>1, FS_Subset, FS_CardinalityType
<1>3. CASE made = Chunk
  BY <1>3
<1>4. CASE made # Chunk
  <2>1. /\ made = Missing(found) /\ Cardinality(ModelsOf(found)) <= 1
        /\ Missing(found) = {} \/ ModelsOf(found) \subseteq {m}
    BY <1>2, <1>4 DEF Embedded
  <2>2. \A x, y \in ModelsOf(found) : x = y
    <3>1. CASE Cardinality(ModelsOf(found)) = 0
      BY <1>2, <3>1, FS_EmptySet
    <3>2. CASE Cardinality(ModelsOf(found)) = 1
      BY <1>2, <3>2, FS_Singleton
    <3>3. QED
      BY <1>2, <2>1, <3>1, <3>2
  <2>3. made \in SUBSET Chunk /\ \A c \in Chunk \ made : found[c] \in ModelsOf(found)
    BY <1>1, <2>1 DEF Missing
  <2> HIDE DEF made
  <2>4. \A c, d \in Chunk : (IF c \in made THEN m ELSE found[c])
                              = (IF d \in made THEN m ELSE found[d])
    BY <2>1, <2>2, <2>3
  <2>5. QED
    BY <1>1, <2>3, <2>4 DEF made
<1>5. QED
  BY <1>3, <1>4

-----------------------------------------------------------------------------
(* Every step moves one job. *)

\* The index: the steps that write the variables of the call.
LEMMA IndexMoves ==
  ASSUME KnowledgeTypeOK, JobsInv, NEW t \in Execution,
         PrepareIndex(t) \/ CutChunks(t) \/ StoreChunks(t) \/ Lookup(t)
  PROVE  Moves(t)
<1>0. job \in [Execution -> JobRecord] /\ job[t] \in JobRecord /\ Sound(job[t]) /\ cached \in Resolved
  BY DEF JobsInv, KnowledgeTypeOK
<1>1. CASE PrepareIndex(t)
  <2>1. CASE Goes(t, "chunk")
    <3>1. /\ JobsType /\ \A u \in Execution : u # t => job'[u] = job[u]
          /\ job'[t].at = "chunk" /\ job'[t].left = job[t].left
      BY <1>0, <2>1, GoesType DEF Place
    <3>2. job[t].left = Chunk
      BY <1>0, <1>1, BareType DEF Sound, PrepareIndex, Place
    <3>3. QED
      BY <3>1, <3>2 DEF Moves, JobsType, Sound, Publishing
  <2>2. CASE Goes(t, "indexed") \/ Leaves(t, "failed")
    BY <2>2, EasySteps DEF Easy
  <2>3. QED
    BY <1>1, <2>1, <2>2 DEF PrepareIndex
<1>2. CASE CutChunks(t)
  <2>1. Checked(t, "store") \in Place /\ Checked(t, "store") \in {"store", "undo"}
    BY CheckedPlace DEF Place
  <2>2. /\ JobsType /\ \A u \in Execution : u # t => job'[u] = job[u]
        /\ job'[t].at = Checked(t, "store") /\ job'[t].left = job[t].left
    BY <1>0, <1>2, <2>1, GoesType DEF CutChunks
  <2>3. job[t].left = Chunk
    BY <1>0, <1>2 DEF Sound, CutChunks, Resolving
  <2>4. QED
    BY <2>1, <2>2, <2>3 DEF Moves, JobsType, Sound, Publishing, Resolving
<1>3. CASE StoreChunks(t)
  <2> DEFINE at == Checked(t, IF Chunk = {} THEN "complete" ELSE "lookup")
             l == [job[t] EXCEPT !.filed = TRUE, !.at = at]
  <2>1. at \in Place /\ at \in {"complete", "lookup", "undo"}
        /\ (at = "complete" => Chunk = {}) /\ (at = "lookup" => Chunk # {})
    BY DEF Checked, Place
  <2>2. job' = [job EXCEPT ![t] = l]
    BY <1>0, <1>3 DEF StoreChunks
  <2>3. job[t].left = Chunk
    BY <1>0, <1>3 DEF Sound, StoreChunks, Resolving
  <2> HIDE DEF at
  <2>4. l \in JobRecord /\ l.at = at /\ l.left = Chunk
    BY <1>0, <2>1, <2>3 DEF JobRecord
  <2> HIDE DEF l
  <2>5. Sound(l)
    BY <2>1, <2>4 DEF Sound, Resolving, Publishing
  <2>6. QED
    BY <1>0, <2>2, <2>4, <2>5 DEF Moves, JobsType
<1>4. CASE Lookup(t)
  <2> DEFINE l == [job[t] EXCEPT !.vectors = cached, !.at = "embed"]
  <2>1. job' = [job EXCEPT ![t] = l]
    BY <1>0, <1>4 DEF Lookup
  <2>2. job[t].left = Chunk /\ Chunk # {}
    BY <1>0, <1>4 DEF Sound, Lookup, Resolving
  <2>3. l \in JobRecord /\ l.at = "embed" /\ l.left = Chunk
    BY <1>0, <2>2 DEF JobRecord, Place
  <2> HIDE DEF l
  <2>4. Sound(l)
    BY <2>2, <2>3 DEF Sound, Resolving, Publishing
  <2>5. QED
    BY <1>0, <2>1, <2>3, <2>4 DEF Moves, JobsType
<1>5. QED
  BY <1>1, <1>2, <1>3, <1>4

\* The vectors: a job resolves them before it publishes.
LEMMA EmbedMoves ==
  ASSUME KnowledgeTypeOK, JobsInv, NEW t \in Execution, NEW m \in Model, Embed(t, m) \/ EmbedAll(t, m)
  PROVE  Moves(t) /\ cached' \in Resolved
<1>0. job \in [Execution -> JobRecord] /\ job[t] \in JobRecord /\ Sound(job[t]) /\ cached \in Resolved
  BY DEF JobsInv, KnowledgeTypeOK
<1>1. job[t].left = Chunk /\ Chunk # {}
  BY <1>0 DEF Sound, Embed, EmbedAll, Resolving
<1>2. ASSUME NEW made \in SUBSET Chunk, Resolves(t, made, m),
             \A c \in Chunk \ made : job[t].vectors[c] \in Model,
             \A c, d \in Chunk : (IF c \in made THEN m ELSE job[t].vectors[c])
                                    = (IF d \in made THEN m ELSE job[t].vectors[d])
      PROVE  Moves(t) /\ cached' \in Resolved
  <2>1. /\ JobsType /\ cached' \in Resolved
        /\ \A u \in Execution : u # t => job'[u] = job[u]
        /\ job'[t].at \in {"publish", "undo"} /\ job'[t].collection \in Collection
        /\ \A c \in Chunk : job'[t].vectors[c] = IF c \in made THEN m ELSE job[t].vectors[c]
        /\ \A c \in Chunk : job'[t].vectors[c] \in Model
    BY <1>1, <1>2, ResolvesEffect
  <2>2. \A c, d \in Chunk : job'[t].vectors[c] = job'[t].vectors[d]
    BY <1>2, <2>1
  <2>3. Sound(job'[t])
    BY <1>1, <2>1, <2>2 DEF Sound, JobsType, Resolving, Publishing
  <2>4. QED
    BY <2>1, <2>3 DEF Moves
<1>3. CASE EmbedAll(t, m)
  BY <1>2, <1>3 DEF EmbedAll
<1>4. CASE Embed(t, m) /\ Goes(t, "embedAll") /\ UNCHANGED index
  <2>1. /\ JobsType /\ \A u \in Execution : u # t => job'[u] = job[u]
        /\ job'[t].at = "embedAll" /\ job'[t].left = job[t].left
    BY <1>0, <1>4, GoesType DEF Place
  <2>2. QED
    BY <1>0, <1>1, <1>4, <2>1 DEF Moves, JobsType, Sound, Publishing, index
<1>5. CASE /\ ~(Embedded(job[t].vectors, m) # Missing(job[t].vectors)
                 /\ Cardinality(ModelsOf(job[t].vectors)) = 1)
           /\ Resolves(t, Embedded(job[t].vectors, m), m)
  <2>1. PICK found \in Resolved : found = job[t].vectors
    BY <1>0 DEF JobRecord
  <2>2. PICK made : made = Embedded(found, m)
    OBVIOUS
  <2>3. /\ made \in SUBSET Chunk
        /\ \A c \in Chunk \ made : found[c] \in Model
        /\ \A c, d \in Chunk : (IF c \in made THEN m ELSE found[c])
                                  = (IF d \in made THEN m ELSE found[d])
    BY <1>1, <1>5, <2>1, <2>2, EmbeddedAgree
  <2>4. QED
    BY <1>2, <1>5, <2>1, <2>2, <2>3
<1>6. QED
  BY <1>3, <1>4, <1>5 DEF Embed

\* A job publishes a chunk of what is left, and is complete when nothing is.
LEMMA PublishMoves ==
  ASSUME KnowledgeTypeOK, JobsInv, NEW t \in Execution, NEW c \in job[t].left,
         job[t].at = "publish",
         job' = [job EXCEPT ![t].left = @ \ {c},
                            ![t].at = Checked(t, IF job[t].left = {c} THEN "complete" ELSE "publish")]
  PROVE  /\ Moves(t)
         /\ job'[t].left = job[t].left \ {c} /\ job'[t].vectors = job[t].vectors
         /\ job'[t].collection = job[t].collection
         /\ job'[t].at \in {"complete", "publish", "undo"}
         /\ job'[t].asked = job[t].asked /\ job'[t].answers = job[t].answers
<1> DEFINE at == Checked(t, IF job[t].left = {c} THEN "complete" ELSE "publish")
           l == [job[t] EXCEPT !.left = @ \ {c}, !.at = at]
<1>0. job \in [Execution -> JobRecord] /\ job[t] \in JobRecord /\ Sound(job[t])
  BY DEF JobsInv, KnowledgeTypeOK
<1>1. /\ at \in Place /\ at \in {"complete", "publish", "undo"}
      /\ at = "complete" => job[t].left = {c}
  BY DEF Checked, Place
<1>2. job' = [job EXCEPT ![t] = l]
  BY <1>0
<1> HIDE DEF at
<1>3. /\ l \in JobRecord /\ l.at = at /\ l.left = job[t].left \ {c} /\ l.vectors = job[t].vectors
      /\ l.collection = job[t].collection /\ l.asked = job[t].asked /\ l.answers = job[t].answers
  BY <1>0, <1>1 DEF JobRecord
<1> HIDE DEF l
<1>4. Sound(l)
  BY <1>0, <1>1, <1>3 DEF Sound, Resolving, Publishing
<1>5. JobsType /\ job'[t] = l /\ \A u \in Execution : u # t => job'[u] = job[u]
  BY <1>0, <1>2, <1>3, OneJob
<1>6. QED
  BY <1>1, <1>3, <1>4, <1>5 DEF Moves

\* An answer is filed with the job, and the rest of the job stays.
LEMMA AnswersEffect ==
  ASSUME JobsInv, NEW t \in Execution, NEW e \in Endpoint, NEW a \in Answer \cup {NoAnswer},
         Answers(t, e, a), job[t].at = "analyse"
  PROVE  /\ Moves(t)
         /\ job'[t].at = "analyse" /\ job'[t].asked = job[t].asked \ {e}
         /\ job'[t].answers = [job[t].answers EXCEPT ![e] = a]
<1> DEFINE l == [job[t] EXCEPT !.answers = [@ EXCEPT ![e] = a], !.asked = @ \ {e}]
<1>0. job \in [Execution -> JobRecord] /\ job[t] \in JobRecord
  BY DEF JobsInv
<1>1. job' = [job EXCEPT ![t] = l]
  BY <1>0 DEF Answers
<1>2. /\ l \in JobRecord /\ l.at = "analyse" /\ l.asked = job[t].asked \ {e}
      /\ l.answers = [job[t].answers EXCEPT ![e] = a]
  BY <1>0 DEF JobRecord
<1> HIDE DEF l
<1>3. Sound(l)
  BY <1>2 DEF Sound, Resolving, Publishing
<1>4. QED
  BY <1>0, <1>1, <1>2, <1>3 DEF Moves, JobsType

\* An operation is asked about.
LEMMA AskedEffect ==
  ASSUME JobsInv, NEW t \in Execution, NEW e \in Endpoint,
         job' = [job EXCEPT ![t].asked = @ \cup {e}], job[t].at = "analyse"
  PROVE  /\ Moves(t)
         /\ job'[t].at = "analyse" /\ job'[t].asked = job[t].asked \cup {e}
         /\ job'[t].answers = job[t].answers
<1> DEFINE l == [job[t] EXCEPT !.asked = @ \cup {e}]
<1>0. job \in [Execution -> JobRecord] /\ job[t] \in JobRecord
  BY DEF JobsInv
<1>1. job' = [job EXCEPT ![t] = l]
  BY <1>0
<1>2. /\ l \in JobRecord /\ l.at = "analyse" /\ l.asked = job[t].asked \cup {e}
      /\ l.answers = job[t].answers
  BY <1>0 DEF JobRecord
<1> HIDE DEF l
<1>3. Sound(l)
  BY <1>2 DEF Sound, Resolving, Publishing
<1>4. QED
  BY <1>0, <1>1, <1>2, <1>3 DEF Moves, JobsType

\* The steps that go to a place without variables, or start again.
EasyStep(t) ==
    \/ Abandons(t) \/ CompleteIndex(t) \/ EndIndexing(t) \/ Fails(t) \/ Undo(t) \/ RecordFailure(t)
    \/ Settles(t) \/ SkipAnalysis(t) \/ Enrich(t) \/ EndAnalysis(t)

\* Which job goes where in such a step.
LEMMA EasyPlace ==
  ASSUME NEW t \in Execution, EasyStep(t)
  PROVE  (\E place \in Easy : Goes(t, place) \/ Leaves(t, place)) \/ Leaves(t, "prepare")
<1>1. CASE Abandons(t) \/ Fails(t) \/ Undo(t) \/ RecordFailure(t) \/ SkipAnalysis(t)
  BY <1>1 DEF Abandons, Fails, Undo, RecordFailure, FailedGeneration, SkipAnalysis, Easy
<1>2. CASE CompleteIndex(t) \/ EndIndexing(t) \/ Enrich(t) \/ EndAnalysis(t)
  BY <1>2 DEF CompleteIndex, Completable, EndIndexing, Enrich, EndAnalysis, Easy
<1>3. CASE Settles(t)
  BY <1>3 DEF Settles, Easy
<1>4. QED
  BY <1>1, <1>2, <1>3 DEF EasyStep

\* So it moves its job only.
LEMMA EasyMoves ==
  ASSUME JobsInv, NEW t \in Execution, EasyStep(t)
  PROVE  Moves(t)
<1>1. CASE \E place \in Easy : Goes(t, place) \/ Leaves(t, place)
  BY <1>1, EasySteps
<1>2. CASE Leaves(t, "prepare")
  BY <1>2, StartMoves
<1>3. QED
  BY <1>1, <1>2, EasyPlace

\* The enrichment.
AnalysisStep(t, e) == Examine(t, e) \/ Receive(t, e) \/ Refuse(t, e)

\* It moves its job only.
LEMMA AnalysisMoves ==
  ASSUME KnowledgeTypeOK, JobsInv, NEW t \in Execution, NEW e \in Endpoint, AnalysisStep(t, e)
  PROVE  Moves(t)
<1>1. CASE Examine(t, e)
  <2>1. calls[e].answer \in Answer \cup {NoAnswer}
    BY DEF KnowledgeTypeOK
  <2>2. QED
    BY <1>1, <2>1, AnswersEffect, AskedEffect DEF Examine
<1>2. CASE Receive(t, e)
  <2>1. PICK a \in Answer : a = IF Repeatable(e) THEN Prior ELSE <<"by", t>>
    BY DEF Answer
  <2>2. CASE Answers(t, e, a)
    BY <1>2, <2>2, AnswersEffect DEF Receive
  <2>3. CASE Leaves(t, "failed")
    BY <2>3, EasySteps DEF Easy
  <2>4. QED
    BY <1>2, <2>1, <2>2, <2>3 DEF Receive
<1>3. CASE Refuse(t, e)
  BY <1>3, EasySteps DEF Refuse, Easy
<1>4. QED
  BY <1>1, <1>2, <1>3 DEF AnalysisStep

\* The steps of job t.
JobStep(t) ==
    \/ PrepareIndex(t) \/ CutChunks(t) \/ StoreChunks(t) \/ Lookup(t)
    \/ \E m \in Model : Embed(t, m) \/ EmbedAll(t, m)
    \/ Publish(t)
    \/ EasyStep(t)
    \/ \E e \in Endpoint : AnalysisStep(t, e)

\* A step is one of a job, of the admission, of the user, or of the clean-up.
LEMMA NextCases ==
  ASSUME KnowledgeNext
  PROVE  \/ \E t \in Execution \ {1} : TakeOver(t)
         \/ \E t \in Execution : JobStep(t)
         \/ Cancel
         \/ \E x \in DOMAIN leftover : Reclaim(x)
  BY DEF KnowledgeNext, JobStep, EasyStep, AnalysisStep

\* A step of a job moves that job, which was admitted before.
LEMMA JobStepMoves ==
  ASSUME KnowledgeTypeOK, JobsInv, NEW t \in Execution, JobStep(t)
  PROVE  Moves(t) /\ lease' = lease /\ job[t].at # "waiting" /\ ~(t > lease)
<1>1. Moves(t)
  <2>1. CASE Publish(t)
    BY <2>1, PublishMoves DEF Publish
  <2>2. QED
    BY <2>1, IndexMoves, EmbedMoves, EasyMoves, AnalysisMoves DEF JobStep
<1>2. lease' = lease /\ job[t].at # "waiting"
  <2>1. CASE PrepareIndex(t) \/ CutChunks(t) \/ StoreChunks(t) \/ Lookup(t) \/ Publish(t)
    BY <2>1 DEF PrepareIndex, CutChunks, StoreChunks, Lookup, Publish, buildRow
  <2>2. CASE \E m \in Model : Embed(t, m) \/ EmbedAll(t, m)
    BY <2>2 DEF Embed, EmbedAll, Resolves, buildRow
  <2>3. CASE Abandons(t) \/ CompleteIndex(t) \/ EndIndexing(t) \/ Fails(t) \/ Undo(t)
    BY <2>3 DEF Abandons, CompleteIndex, Completable, EndIndexing, Fails, Undo, buildRow
  <2>4. CASE RecordFailure(t) \/ Settles(t) \/ Enrich(t) \/ EndAnalysis(t)
    BY <2>4 DEF RecordFailure, FailedGeneration, Settles, Enrich, EndAnalysis, buildRow
  <2>5. CASE SkipAnalysis(t)
    <3>1. job[t].at = "analyse"
      BY <2>5, BareType DEF SkipAnalysis, Enriched, Bare, Place
    <3>2. QED
      BY <2>5, <3>1 DEF SkipAnalysis, buildRow
  <2>6. CASE \E e \in Endpoint : AnalysisStep(t, e)
    BY <2>6 DEF AnalysisStep, Examine, Receive, Refuse, buildRow
  <2>7. QED
    BY <2>1, <2>2, <2>3, <2>4, <2>5, <2>6 DEF JobStep, EasyStep
<1>3. ~(t > lease)
  BY <1>2, BareType DEF JobsInv
<1>4. QED
  BY <1>1, <1>2, <1>3

\* The execution that takes over starts without variables.
LEMMA TakeOverMoves ==
  ASSUME KnowledgeTypeOK, JobsInv, NEW t \in Execution, TakeOver(t)
  PROVE  /\ Moves(t) /\ lease' = t /\ t > lease /\ job[t] = NoLocals
         /\ (job'[t] = Bare("prepare") \/ job'[t] = Bare("analyse"))
<1>1. t \in Nat /\ lease \in Nat /\ lease = t - 1 /\ lease' = t
  BY DEF KnowledgeTypeOK, TakeOver, Owns
<1>2. t > lease /\ job[t] = NoLocals
  BY <1>1 DEF JobsInv
<1>3. PICK place \in {"prepare", "analyse"} : Goes(t, place)
  BY DEF TakeOver
<1>4. place \in Place /\ place \in Place \ (Resolving \cup Publishing)
  BY DEF Place, Resolving, Publishing
<1>5. /\ JobsType /\ \A u \in Execution : u # t => job'[u] = job[u]
      /\ job'[t] = [job[t] EXCEPT !.at = place]
  BY <1>3, <1>4, GoesType DEF JobsInv
<1>6. job'[t] = Bare(place)
  BY <1>2, <1>5 DEF Bare
<1>7. QED
  BY <1>1, <1>2, <1>4, <1>5, <1>6, BareSound DEF Moves

\* So the jobs stay sound.
LEMMA JobsStep ==
  ASSUME KnowledgeTypeOK, JobsInv, [KnowledgeNext]_knowledgeVars
  PROVE  JobsInv'
<1>0. lease \in Nat /\ Execution \subseteq Nat
  BY DEF KnowledgeTypeOK
<1>1. ASSUME NEW t \in Execution, JobStep(t) PROVE JobsInv'
  BY <1>0, <1>1, JobStepMoves DEF JobsInv, Moves, JobsType
<1>2. ASSUME NEW t \in Execution, TakeOver(t) PROVE JobsInv'
  <2>1. Moves(t) /\ lease' = t /\ t > lease
    BY <1>2, TakeOverMoves
  <2>2. \A u \in Execution : u > t => u > lease /\ u # t
    BY <1>0, <2>1
  <2>3. QED
    BY <2>1, <2>2 DEF JobsInv, Moves, JobsType
<1>3. CASE UNCHANGED <<lease, job>>
  BY <1>3 DEF JobsInv
<1>4. CASE Cancel \/ (\E x \in DOMAIN leftover : Reclaim(x)) \/ UNCHANGED knowledgeVars
  BY <1>3, <1>4 DEF Cancel, Reclaim, buildRow, knowledgeVars
<1>5. QED
  BY <1>1, <1>2, <1>4, NextCases

-----------------------------------------------------------------------------
(* The types of the other variables. *)

\* Everything but the jobs.
OtherTypes ==
    /\ lease \in Execution
    /\ buildPhase \in {"indexing", "analysing", "ready", "failed", "cancelled"}
    /\ stopping \in BOOLEAN
    /\ generation \in [status : {"none", "BUILDING", "READY", "FAILED"},
                       collection : Collection \cup {Nothing},
                       by : Execution \cup {Nothing}]
    /\ rows \subseteq Row
    /\ cached \in Resolved
    /\ chunkFile \in BOOLEAN
    /\ leftover \in [Collection \cup {File} -> {"none", "pending", "done"}]
    /\ prior \subseteq Endpoint
    /\ calls \in [Endpoint -> [status : {"none", "failed", "succeeded"},
                               answer : Answer \cup {NoAnswer}]]
    /\ enrichment \in {<<>>} \cup [Endpoint -> Answer]
    /\ erased \in BOOLEAN
    /\ failures \in 0 .. MaxFailures

\* The type invariant is that and the type of the jobs.
LEMMA TypeParts == KnowledgeTypeOK <=> OtherTypes /\ job \in [Execution -> JobRecord]
  BY DEF KnowledgeTypeOK, OtherTypes, JobRecord

\* A failure that is counted was below the bound.
LEMMA FailuresType ==
  ASSUME failures \in 0 .. MaxFailures, failures < MaxFailures
  PROVE  failures + 1 \in 0 .. MaxFailures
  OBVIOUS

\* What a job publishes is a row.
LEMMA UpsertType ==
  ASSUME KnowledgeTypeOK, JobsInv, NEW t \in Execution, NEW c \in job[t].left, job[t].at = "publish"
  PROVE  /\ c \in Chunk /\ OwnRow(t, c) \in Row
         /\ Upsert(t, c) = {r \in rows : ~(r.collection = job[t].collection /\ r.by = t /\ r.chunk = c)}
                             \cup {OwnRow(t, c)}
<1>1. Sound(job[t]) /\ job[t] \in JobRecord
  BY DEF JobsInv
<1>2. c \in Chunk /\ job[t].collection \in Collection /\ job[t].vectors[c] \in Model
  BY <1>1 DEF Sound, JobRecord, Publishing
<1>3. QED
  BY <1>2 DEF OwnRow, Row, Upsert

\* A step of a job keeps the types.
LEMMA JobStepTypes ==
  ASSUME KnowledgeTypeOK, JobsInv, NEW t \in Execution, JobStep(t)
  PROVE  OtherTypes'
<1>0. OtherTypes /\ job[t] \in JobRecord /\ Sound(job[t])
  BY TypeParts DEF JobsInv
<1>1. CASE PrepareIndex(t)
  <2>1. Prepared \in [status : {"none", "BUILDING", "READY", "FAILED"},
                      collection : Collection \cup {Nothing}, by : Execution \cup {Nothing}]
    BY <1>0 DEF OtherTypes, Prepared
  <2>2. generation' \in {generation, Prepared} /\ erased' \in BOOLEAN
    BY <1>0, <1>1 DEF PrepareIndex, OtherTypes
  <2>3. QED
    BY <1>0, <1>1, <2>1, <2>2 DEF PrepareIndex, OtherTypes, buildRow, analysis
<1>2. CASE CutChunks(t) \/ StoreChunks(t) \/ Lookup(t)
  BY <1>0, <1>2 DEF CutChunks, StoreChunks, Lookup, OtherTypes, buildRow, index, analysis
<1>3. CASE \E m \in Model : Embed(t, m) \/ EmbedAll(t, m)
  <2>1. cached' \in Resolved
    BY <1>3, EmbedMoves
  <2>2. QED
    BY <1>0, <1>3, <2>1 DEF Embed, EmbedAll, Resolves, OtherTypes, buildRow, index, analysis
<1>4. CASE Publish(t)
  <2>1. PICK c \in job[t].left : rows' = Upsert(t, c)
    BY <1>4 DEF Publish
  <2>2. rows' \subseteq Row
    BY <1>0, <1>4, <2>1, UpsertType DEF Publish, OtherTypes
  <2>3. QED
    BY <1>0, <1>4, <2>2 DEF Publish, OtherTypes, buildRow, analysis
<1>5. CASE CompleteIndex(t)
  <2>1. [status |-> "READY", collection |-> job[t].collection, by |-> t]
            \in [status : {"none", "BUILDING", "READY", "FAILED"},
                 collection : Collection \cup {Nothing}, by : Execution \cup {Nothing}]
    BY <1>0 DEF JobRecord
  <2>2. QED
    BY <1>0, <1>5, <2>1 DEF CompleteIndex, Completable, OtherTypes, buildRow, analysis
<1>6. CASE Abandons(t) \/ EndIndexing(t) \/ Settles(t) \/ SkipAnalysis(t) \/ EndAnalysis(t)
  BY <1>0, <1>6 DEF Abandons, EndIndexing, Settles, SkipAnalysis, EndAnalysis, OtherTypes, buildRow,
                    index, analysis
<1>7. CASE Fails(t) \/ Undo(t)
  <2>1. failures' \in 0 .. MaxFailures /\ rows' \subseteq Row
    BY <1>0, <1>7, FailuresType DEF Fails, Undo, OtherTypes, index
  <2>2. QED
    BY <1>0, <1>7, <2>1 DEF Fails, Undo, OtherTypes, buildRow, index, analysis
<1>8. CASE RecordFailure(t)
  <2>1. Scheduled(t) \in [Collection \cup {File} -> {"none", "pending", "done"}]
    BY <1>0 DEF Scheduled, OtherTypes
  <2>2. [generation EXCEPT !.status = "FAILED"]
            \in [status : {"none", "BUILDING", "READY", "FAILED"},
                 collection : Collection \cup {Nothing}, by : Execution \cup {Nothing}]
    BY <1>0 DEF OtherTypes
  <2>3. QED
    BY <1>0, <1>8, <2>1, <2>2 DEF RecordFailure, FailedGeneration, OtherTypes, buildRow, analysis
<1>9. CASE Enrich(t)
  <2>1. job[t].answers \in [Endpoint -> Answer]
    BY <1>0, <1>9 DEF Enrich, JobRecord
  <2>2. QED
    BY <1>0, <1>9, <2>1 DEF Enrich, OtherTypes, buildRow, index
<1>10. CASE \E e \in Endpoint : AnalysisStep(t, e)
  <2>1. PICK e \in Endpoint : AnalysisStep(t, e)
    BY <1>10
  <2>2. \A s \in {"failed", "succeeded"}, a \in Answer \cup {NoAnswer} :
            Saved(e, s, a) \in [Endpoint -> [status : {"none", "failed", "succeeded"},
                                             answer : Answer \cup {NoAnswer}]]
    BY <1>0 DEF Saved, OtherTypes
  <2>3. CASE Examine(t, e)
    BY <1>0, <2>3 DEF Examine, OtherTypes, buildRow, index, analysis
  <2>4. CASE Receive(t, e)
    <3>1. PICK a \in Answer : a = IF Repeatable(e) THEN Prior ELSE <<"by", t>>
      BY DEF Answer
    <3>2. calls' \in [Endpoint -> [status : {"none", "failed", "succeeded"},
                                   answer : Answer \cup {NoAnswer}]]
      BY <1>0, <2>2, <2>4, <3>1 DEF Receive, OtherTypes
    <3>3. QED
      BY <1>0, <2>4, <3>2 DEF Receive, OtherTypes, buildRow, index
  <2>5. CASE Refuse(t, e)
    <3>1. calls' \in [Endpoint -> [status : {"none", "failed", "succeeded"},
                                   answer : Answer \cup {NoAnswer}]]
      BY <1>0, <2>2, <2>5 DEF Refuse, OtherTypes
    <3>2. failures' \in 0 .. MaxFailures
      BY <1>0, <2>5, FailuresType DEF Refuse, OtherTypes
    <3>3. QED
      BY <1>0, <2>5, <3>1, <3>2 DEF Refuse, OtherTypes, buildRow, index
  <2>6. QED
    BY <2>1, <2>3, <2>4, <2>5 DEF AnalysisStep
<1>11. QED
  BY <1>1, <1>2, <1>3, <1>4, <1>5, <1>6, <1>7, <1>8, <1>9, <1>10 DEF JobStep, EasyStep

\* A step of anybody else keeps them.
LEMMA OtherStepTypes ==
  ASSUME KnowledgeTypeOK,
         (\E t \in Execution : TakeOver(t)) \/ Cancel \/ (\E x \in DOMAIN leftover : Reclaim(x))
  PROVE  OtherTypes'
<1>0. OtherTypes
  BY TypeParts
<1>1. ASSUME NEW t \in Execution, TakeOver(t) PROVE OtherTypes'
  <2>1. failures' \in 0 .. MaxFailures
    BY <1>0, <1>1, FailuresType DEF TakeOver, OtherTypes
  <2>2. QED
    BY <1>0, <1>1, <2>1 DEF TakeOver, OtherTypes, index, analysis
<1>2. CASE Cancel
  BY <1>0, <1>2 DEF Cancel, OtherTypes, index, analysis
<1>3. ASSUME NEW x \in DOMAIN leftover, Reclaim(x) PROVE OtherTypes'
  <2>1. leftover' \in [Collection \cup {File} -> {"none", "pending", "done"}] /\ rows' \subseteq Row
    BY <1>0, <1>3 DEF Reclaim, OtherTypes
  <2>2. erased' \in BOOLEAN /\ chunkFile' \in BOOLEAN
    BY <1>0, <1>3 DEF Reclaim, OtherTypes
  <2>3. QED
    BY <1>0, <1>3, <2>1, <2>2 DEF Reclaim, OtherTypes, buildRow, analysis
<1>4. QED
  BY <1>1, <1>2, <1>3

\* Every step keeps the types.
LEMMA TypesStep ==
  ASSUME KnowledgeTypeOK, JobsInv, KnowledgeNext
  PROVE  KnowledgeTypeOK'
<1>1. job' \in [Execution -> JobRecord]
  BY JobsStep DEF JobsInv
<1>2. OtherTypes'
  BY NextCases, JobStepTypes, OtherStepTypes
<1>3. (OtherTypes /\ job \in [Execution -> JobRecord])' => KnowledgeTypeOK'
  BY DEF KnowledgeTypeOK, OtherTypes, JobRecord
<1>4. QED
  BY <1>1, <1>2, <1>3

-----------------------------------------------------------------------------
(* The rows of the vector store. *)

\* Only publishing and undoing write rows; only the owner forgets, with a fresh attempt,
\* that the clean-up took rows.
LEMMA WhoWrites ==
  ASSUME NEW t \in Execution, JobStep(t)
  PROVE  /\ rows' = rows \/ Publish(t) \/ Undo(t)
         /\ erased' = erased \/ (PrepareIndex(t) /\ lease = t /\ generation.status # "READY")
<1>1. CASE PrepareIndex(t)
  BY <1>1 DEF PrepareIndex, Prepared, MayWrite, Owns
<1>2. CASE CutChunks(t) \/ StoreChunks(t) \/ Lookup(t) \/ Publish(t)
  BY <1>2 DEF CutChunks, StoreChunks, Lookup, Publish, index
<1>3. CASE \E m \in Model : Embed(t, m) \/ EmbedAll(t, m)
  BY <1>3 DEF Embed, EmbedAll, Resolves, index
<1>4. CASE Abandons(t) \/ CompleteIndex(t) \/ EndIndexing(t) \/ Fails(t) \/ Undo(t)
  BY <1>4 DEF Abandons, CompleteIndex, Completable, EndIndexing, Fails, Undo, index
<1>5. CASE RecordFailure(t) \/ Settles(t) \/ SkipAnalysis(t) \/ Enrich(t) \/ EndAnalysis(t)
  BY <1>5 DEF RecordFailure, FailedGeneration, Settles, SkipAnalysis, Enrich, EndAnalysis, index
<1>6. CASE \E e \in Endpoint : AnalysisStep(t, e)
  BY <1>6 DEF AnalysisStep, Examine, Receive, Refuse, index
<1>7. QED
  BY <1>1, <1>2, <1>3, <1>4, <1>5, <1>6 DEF JobStep, EasyStep

\* A job writes rows under its own execution's name only.
LEMMA RowsFrame ==
  ASSUME KnowledgeTypeOK, JobsInv, NEW t \in Execution, JobStep(t)
  PROVE  \A r \in Row : r.by # t => (r \in rows' <=> r \in rows)
<1>1. CASE Publish(t)
  <2>1. PICK c \in job[t].left : rows' = Upsert(t, c)
    BY <1>1 DEF Publish
  <2>2. OwnRow(t, c).by = t
    BY DEF OwnRow
  <2>3. QED
    BY <1>1, <2>1, <2>2, UpsertType DEF Publish
<1>2. CASE Undo(t)
  BY <1>2 DEF Undo, OwnRows
<1>3. QED
  BY <1>1, <1>2, WhoWrites

\* A job begins to publish with everything left, and goes on with what is left.
LEMMA EntersPublishing ==
  ASSUME KnowledgeTypeOK, JobsInv, NEW t \in Execution, JobStep(t), job'[t].at \in Publishing
  PROVE  Publish(t) \/ job'[t].left = Chunk
<1>0. job \in [Execution -> JobRecord] /\ job[t] \in JobRecord /\ Sound(job[t])
  BY DEF JobsInv
<1>1. CASE PrepareIndex(t)
  <2>1. CASE Leaves(t, "failed")
    BY <1>0, <2>1, LeavesType, BareType DEF Publishing, Place
  <2>2. CASE \E place \in {"indexed", "chunk"} : Goes(t, place)
    BY <1>0, <2>2, GoesType DEF Publishing, Place
  <2>3. QED
    BY <1>1, <2>1, <2>2 DEF PrepareIndex
<1>2. CASE CutChunks(t)
  <2>1. Checked(t, "store") \in Place /\ Checked(t, "store") \in {"store", "undo"}
    BY CheckedPlace DEF Place
  <2>2. QED
    BY <1>0, <1>2, <2>1, GoesType DEF CutChunks, Publishing
<1>3. CASE StoreChunks(t)
  <2>1. job[t].left = Chunk
    BY <1>0, <1>3 DEF StoreChunks, Sound, Resolving
  <2>2. QED
    BY <1>0, <1>3, <2>1 DEF StoreChunks, JobRecord
<1>4. CASE Lookup(t)
  <2>1. job[t].left = Chunk
    BY <1>0, <1>4 DEF Lookup, Sound, Resolving
  <2>2. QED
    BY <1>0, <1>4, <2>1 DEF Lookup, JobRecord
<1>5. CASE \E m \in Model : Embed(t, m) \/ EmbedAll(t, m)
  <2>1. job[t].left = Chunk
    BY <1>0, <1>5 DEF Embed, EmbedAll, Sound, Resolving
  <2>2. CASE Goes(t, "embedAll")
    BY <1>0, <2>1, <2>2, GoesType DEF Place
  <2>3. ASSUME NEW m \in Model, NEW made, Resolves(t, made, m) PROVE job'[t].left = job[t].left
    BY <1>0, <2>3 DEF Resolves, JobRecord
  <2>4. QED
    BY <1>5, <2>1, <2>2, <2>3 DEF Embed, EmbedAll
<1>6. CASE EasyStep(t)
  <2>1. CASE \E place \in Easy : Goes(t, place) \/ Leaves(t, place)
    <3>1. PICK place \in Easy : Goes(t, place) \/ Leaves(t, place)
      BY <2>1
    <3>2. place \in Place /\ place \notin Publishing
      BY DEF Easy, Place, Publishing
    <3>3. job'[t].at = place
      BY <1>0, <3>1, <3>2, GoneTo
    <3>4. QED
      BY <3>2, <3>3
  <2>2. CASE Leaves(t, "prepare")
    BY <1>0, <2>2, LeavesType, BareType DEF Publishing, Place
  <2>3. QED
    BY <1>6, <2>1, <2>2, EasyPlace
<1>7. CASE \E e \in Endpoint : AnalysisStep(t, e)
  <2>1. PICK e \in Endpoint : AnalysisStep(t, e)
    BY <1>7
  <2>2. job[t].at = "analyse"
    BY <2>1 DEF AnalysisStep, Examine, Receive, Refuse
  <2>3. CASE Leaves(t, "failed")
    BY <1>0, <2>3, LeavesType, BareType DEF Publishing, Place
  <2>4. CASE ~Leaves(t, "failed")
    <3>1. job'[t].at = job[t].at
      BY <1>0, <2>1, <2>4 DEF AnalysisStep, Examine, Receive, Refuse, Answers, JobRecord
    <3>2. QED
      BY <2>2, <3>1 DEF Publishing
  <2>5. QED
    BY <2>3, <2>4
<1>8. QED
  BY <1>1, <1>2, <1>3, <1>4, <1>5, <1>6, <1>7 DEF JobStep

\* What the invariant says of the rows of one job.
Written(t) ==
    job[t].at \in Publishing =>
        /\ \A r \in rows : r.collection = job[t].collection /\ r.by = t /\ r.chunk \notin job[t].left
                              => r.model = job[t].vectors[r.chunk]
        /\ lease = t /\ ~erased => \A c \in Chunk \ job[t].left : OwnRow(t, c) \in rows

\* Job t has published one more chunk.
LEMMA PublishWritten ==
  ASSUME KnowledgeTypeOK, JobsInv, NEW t \in Execution, Publish(t), Written(t)
  PROVE  Written(t)'
<1>1. PICK c \in job[t].left :
        /\ rows' = Upsert(t, c)
        /\ job' = [job EXCEPT ![t].left = @ \ {c},
                              ![t].at = Checked(t, IF job[t].left = {c} THEN "complete" ELSE "publish")]
  BY DEF Publish
<1>2. /\ job'[t].left = job[t].left \ {c} /\ job'[t].vectors = job[t].vectors
      /\ job'[t].collection = job[t].collection
  BY <1>1, PublishMoves DEF Publish
<1>3. /\ c \in Chunk /\ OwnRow(t, c) \in Row
      /\ rows' = {r \in rows : ~(r.collection = job[t].collection /\ r.by = t /\ r.chunk = c)}
                    \cup {OwnRow(t, c)}
  BY <1>1, UpsertType DEF Publish
<1>4. /\ \A d : OwnRow(t, d)' = OwnRow(t, d)
      /\ \A d : /\ OwnRow(t, d).collection = job[t].collection /\ OwnRow(t, d).by = t
                /\ OwnRow(t, d).chunk = d /\ OwnRow(t, d).model = job[t].vectors[d]
  BY <1>2 DEF OwnRow
<1>5. /\ \A r \in rows : r.collection = job[t].collection /\ r.by = t /\ r.chunk \notin job[t].left
                              => r.model = job[t].vectors[r.chunk]
      /\ lease = t /\ ~erased => \A d \in Chunk \ job[t].left : OwnRow(t, d) \in rows
  BY DEF Written, Publish, Publishing
<1>6. \A r \in rows' : r.collection = job[t].collection /\ r.by = t /\ r.chunk \notin job[t].left \ {c}
                          => r.model = job[t].vectors[r.chunk]
  BY <1>3, <1>4, <1>5
<1>7. lease = t /\ ~erased => \A d \in Chunk \ (job[t].left \ {c}) : OwnRow(t, d) \in rows'
  BY <1>3, <1>4, <1>5
<1>8. lease' = lease /\ erased' = erased
  BY DEF Publish, buildRow
<1>9. QED
  BY <1>2, <1>4, <1>6, <1>7, <1>8 DEF Written

\* The rows that a job has written stay as they are, whoever steps.
LEMMA WrittenStep ==
  ASSUME KnowledgeTypeOK, JobsInv, PublishedSoFar, KnowledgeNext
  PROVE  PublishedSoFar'
<1>0. rows \subseteq Row /\ rows' \subseteq Row /\ \A u \in Execution : Written(u)
  BY TypesStep DEF PublishedSoFar, Written, KnowledgeTypeOK
<1>1. ASSUME NEW u \in Execution, NEW t \in Execution, JobStep(t), u # t PROVE Written(u)'
  <2>1. job'[u] = job[u] /\ lease' = lease
    BY <1>1, JobStepMoves DEF Moves
  <2>2. lease = u => erased' = erased
    BY <1>1, WhoWrites
  <2>3. \A r \in Row : r.by # t => (r \in rows' <=> r \in rows)
    BY <1>1, RowsFrame
  <2>4. \A c : OwnRow(u, c)' = OwnRow(u, c) /\ OwnRow(u, c).by = u
    BY <2>1 DEF OwnRow
  <2>5. Written(u)
    BY <1>0
  <2>6. QED
    BY <1>0, <1>1, <2>1, <2>2, <2>3, <2>4, <2>5 DEF Written
<1>2. ASSUME NEW t \in Execution, JobStep(t) PROVE Written(t)'
  <2>1. CASE Publish(t)
    BY <1>0, <2>1, PublishWritten
  <2>2. CASE job'[t].left = Chunk
    <3>1. \A r \in rows' : r.chunk \in Chunk
      BY <1>0 DEF Row
    <3>2. QED
      BY <2>2, <3>1 DEF Written
  <2>3. CASE job'[t].at \notin Publishing
    BY <2>3 DEF Written
  <2>4. QED
    BY <1>2, <2>1, <2>2, <2>3, EntersPublishing
<1>3. ASSUME NEW u \in Execution, NEW t \in Execution, TakeOver(t) PROVE Written(u)'
  <2>1. /\ Moves(t) /\ lease' = t
        /\ (job'[t] = Bare("prepare") \/ job'[t] = Bare("analyse"))
    BY <1>3, TakeOverMoves
  <2>2. CASE u = t
    BY <2>1, <2>2, BareType DEF Written, Publishing, Place
  <2>3. CASE u # t
    <3>1. job'[u] = job[u] /\ rows' = rows
      BY <1>3, <2>1, <2>3 DEF Moves, TakeOver, index
    <3>2. Written(u)
      BY <1>0
    <3>3. QED
      BY <2>1, <2>3, <3>1, <3>2 DEF Written
  <2>4. QED
    BY <2>2, <2>3
<1>4. ASSUME NEW u \in Execution, NEW x \in DOMAIN leftover, Reclaim(x) PROVE Written(u)'
  <2>1. /\ job' = job /\ lease' = lease /\ rows' \subseteq rows
        /\ ~erased' => ~erased /\ \A r \in rows : r.by = lease => r \in rows'
    BY <1>4 DEF Reclaim, buildRow
  <2>2. \A c : OwnRow(u, c)' = OwnRow(u, c) /\ OwnRow(u, c).by = u
    BY <2>1 DEF OwnRow
  <2>3. Written(u)
    BY <1>0
  <2>4. QED
    BY <2>1, <2>2, <2>3 DEF Written
<1>5. ASSUME NEW u \in Execution, Cancel PROVE Written(u)'
  <2>1. Written(u)
    BY <1>0
  <2>2. QED
    BY <1>5, <2>1 DEF Cancel, index, Written, OwnRow
<1>6. \A u \in Execution : Written(u)'
  BY <1>1, <1>2, <1>3, <1>4, <1>5, NextCases
<1>7. QED
  BY <1>6 DEF PublishedSoFar, Written

-----------------------------------------------------------------------------
(* The generation. *)

\* The index becomes READY by a job that completes it, and is not written again.
LEMMA GenerationStep ==
  ASSUME KnowledgeTypeOK, JobsInv, NEW t \in Execution, JobStep(t)
  PROVE  /\ generation.status = "READY" => generation' = generation
         /\ generation'.status = "READY" /\ generation.status # "READY" =>
              /\ job[t].at = "complete" /\ lease = t
              /\ generation'.by = t /\ generation'.collection = job[t].collection
              /\ job'[t] = Bare("indexed") /\ rows' = rows /\ erased' = erased
<1>0. generation \in [status : {"none", "BUILDING", "READY", "FAILED"},
                      collection : Collection \cup {Nothing}, by : Execution \cup {Nothing}]
  BY DEF KnowledgeTypeOK
<1>1. CASE PrepareIndex(t)
  BY <1>1 DEF PrepareIndex, Prepared
<1>2. CASE CutChunks(t) \/ StoreChunks(t) \/ Lookup(t) \/ Publish(t)
  BY <1>2 DEF CutChunks, StoreChunks, Lookup, Publish, index
<1>3. CASE \E m \in Model : Embed(t, m) \/ EmbedAll(t, m)
  BY <1>3 DEF Embed, EmbedAll, Resolves, index
<1>4. CASE Abandons(t) \/ EndIndexing(t) \/ Fails(t) \/ Undo(t)
  BY <1>4 DEF Abandons, EndIndexing, Fails, Undo, index
<1>5. CASE Settles(t) \/ SkipAnalysis(t) \/ Enrich(t) \/ EndAnalysis(t)
  BY <1>5 DEF Settles, SkipAnalysis, Enrich, EndAnalysis, index
<1>6. CASE RecordFailure(t)
  BY <1>0, <1>6 DEF RecordFailure, FailedGeneration
<1>7. CASE \E e \in Endpoint : AnalysisStep(t, e)
  BY <1>7 DEF AnalysisStep, Examine, Receive, Refuse, index
<1>8. CASE CompleteIndex(t)
  <2>1. CASE MayWrite(t) /\ generation.status = "BUILDING"
    <3>1. /\ generation' = [status |-> "READY", collection |-> job[t].collection, by |-> t]
          /\ Leaves(t, "indexed") /\ rows' = rows /\ erased' = erased /\ job[t].at = "complete"
      BY <1>8, <2>1 DEF CompleteIndex, Completable
    <3>2. job'[t] = Bare("indexed")
      BY <3>1, LeavesType DEF JobsInv, Place
    <3>3. QED
      BY <2>1, <3>1, <3>2 DEF MayWrite, Owns
  <2>2. CASE ~(MayWrite(t) /\ generation.status = "BUILDING")
    BY <1>8, <2>2 DEF CompleteIndex, Completable
  <2>3. QED
    BY <2>1, <2>2
<1>9. QED
  BY <1>1, <1>2, <1>3, <1>4, <1>5, <1>6, <1>7, <1>8 DEF JobStep, EasyStep

\* Work begins with the preparation of an index that is not READY.
LEMMA EntersWorking ==
  ASSUME KnowledgeTypeOK, JobsInv, NEW t \in Execution, JobStep(t),
         job[t].at \notin Working, generation.status = "READY"
  PROVE  job'[t].at \notin Working /\ rows' = rows
<1>0. job \in [Execution -> JobRecord] /\ job[t] \in JobRecord
  BY DEF JobsInv
<1>1. job[t].at \notin {"chunk", "store", "lookup", "embed", "embedAll", "publish", "complete", "undo", "record"}
  BY DEF Working, Resolving, Publishing
<1>2. ASSUME NEW place \in {"prepare", "indexed", "failed", "analyse", "enriched", "over"},
             Goes(t, place) \/ Leaves(t, place)
      PROVE  job'[t].at \notin Working
  <2>1. place \in Place /\ place \notin Working
    BY DEF Place, Working, Resolving, Publishing
  <2>2. job'[t].at = place
    BY <1>0, <1>2, <2>1, GoneTo
  <2>3. QED
    BY <2>1, <2>2
<1>3. CASE PrepareIndex(t)
  BY <1>2, <1>3 DEF PrepareIndex, Prepared
<1>4. CASE Abandons(t) \/ EndIndexing(t) \/ SkipAnalysis(t) \/ Enrich(t) \/ EndAnalysis(t)
  BY <1>2, <1>4 DEF Abandons, EndIndexing, SkipAnalysis, Enrich, EndAnalysis, index
<1>5. CASE Settles(t)
  BY <1>2, <1>5 DEF Settles, index
<1>6. CASE \E e \in Endpoint : AnalysisStep(t, e)
  <2>1. PICK e \in Endpoint : AnalysisStep(t, e)
    BY <1>6
  <2>2. rows' = rows
    BY <2>1 DEF AnalysisStep, Examine, Receive, Refuse, index
  <2>3. CASE Leaves(t, "failed")
    BY <1>2, <2>2, <2>3
  <2>4. CASE ~Leaves(t, "failed")
    <3>1. job'[t].at = job[t].at
      BY <1>0, <2>1, <2>4 DEF AnalysisStep, Examine, Receive, Refuse, Answers, JobRecord
    <3>2. QED
      BY <2>2, <3>1
  <2>5. QED
    BY <2>3, <2>4
<1>7. ~(CutChunks(t) \/ StoreChunks(t) \/ Lookup(t) \/ Publish(t) \/ CompleteIndex(t) \/ Fails(t)
         \/ Undo(t) \/ RecordFailure(t) \/ \E m \in Model : Embed(t, m) \/ EmbedAll(t, m))
  BY <1>1 DEF CutChunks, StoreChunks, Lookup, Publish, CompleteIndex, Completable, Fails, Undo, RecordFailure, FailedGeneration, Embed,
              EmbedAll
<1>8. QED
  BY <1>3, <1>4, <1>5, <1>6, <1>7 DEF JobStep, EasyStep

\* The clean-up takes nothing from the generation that is READY.
LEMMA ReclaimSpares ==
  ASSUME KnowledgeTypeOK, NEW x \in DOMAIN leftover, Reclaim(x), generation.status = "READY"
  PROVE  /\ generation' = generation /\ job' = job /\ (erased => erased')
         /\ \A r \in rows : r.collection = generation.collection => r \in rows'
         /\ rows' \subseteq rows
<1>1. CASE Referenced(x)
  BY <1>1 DEF Reclaim
<1>2. CASE ~Referenced(x)
  <2>1. generation.collection # x
    BY <1>2 DEF Referenced
  <2>2. QED
    BY <2>1 DEF Reclaim
<1>3. QED
  BY <1>1, <1>2

\* A READY index stays with an execution that is done with it.
LEMMA ReadyStep ==
  ASSUME KnowledgeTypeOK, JobsInv, ReadyIsSettled, KnowledgeNext
  PROVE  ReadyIsSettled'
<1>1. ASSUME NEW t \in Execution, JobStep(t) PROVE ReadyIsSettled'
  <2>1. CASE generation.status = "READY"
    <3>1. generation' = generation
      BY <1>1, <2>1, GenerationStep
    <3>2. generation.by \in Execution /\ job[generation.by].at \notin Working
      BY <2>1 DEF ReadyIsSettled
    <3>3. CASE generation.by = t
      BY <1>1, <2>1, <3>1, <3>2, <3>3, EntersWorking DEF ReadyIsSettled
    <3>4. CASE generation.by # t
      <4>1. job'[generation.by] = job[generation.by]
        BY <1>1, <3>2, <3>4, JobStepMoves DEF Moves
      <4>2. QED
        BY <3>1, <3>2, <4>1 DEF ReadyIsSettled
    <3>5. QED
      BY <3>3, <3>4
  <2>2. CASE generation.status # "READY" /\ generation'.status = "READY"
    <3>1. generation'.by = t /\ job'[t] = Bare("indexed")
      BY <1>1, <2>2, GenerationStep
    <3>2. Bare("indexed").at \notin Working
      BY BareType DEF Working, Resolving, Publishing, Place
    <3>3. QED
      BY <3>1, <3>2 DEF ReadyIsSettled
  <2>3. CASE generation'.status # "READY"
    BY <2>3 DEF ReadyIsSettled
  <2>4. QED
    BY <2>1, <2>2, <2>3
<1>2. ASSUME NEW t \in Execution, TakeOver(t) PROVE ReadyIsSettled'
  <2>1. Moves(t) /\ (job'[t] = Bare("prepare") \/ job'[t] = Bare("analyse"))
    BY <1>2, TakeOverMoves
  <2>2. job'[t].at \notin Working /\ generation' = generation
    BY <1>2, <2>1, BareType DEF Working, Resolving, Publishing, Place, TakeOver, index
  <2>3. QED
    BY <2>1, <2>2 DEF Moves, ReadyIsSettled
<1>3. CASE Cancel \/ \E x \in DOMAIN leftover : Reclaim(x)
  <2>1. job' = job /\ generation' = generation
    BY <1>3 DEF Cancel, Reclaim, index
  <2>2. QED
    BY <2>1 DEF ReadyIsSettled
<1>4. QED
  BY <1>1, <1>2, <1>3, NextCases

\* The first half of the property.
SearchComplete == generation.status = "READY" /\ ~erased => CompleteSearch

\* The rows that a search finds are those of a complete job.
LEMMA CompletedSearch ==
  ASSUME KnowledgeTypeOK, JobsInv, PublishedSoFar, NEW t \in Execution,
         job[t].at = "complete", lease = t, ~erased
  PROVE  LET S == {r \in rows : r.collection = job[t].collection /\ r.by = t}
         IN  {r.chunk : r \in S} = Chunk /\ Cardinality({r.model : r \in S}) <= 1
<1> DEFINE S == {r \in rows : r.collection = job[t].collection /\ r.by = t}
           models == {r.model : r \in S}
<1>1. job[t].left = {} /\ \A c, d \in Chunk : job[t].vectors[c] \in Model /\ job[t].vectors[c] = job[t].vectors[d]
  BY DEF JobsInv, Sound, Publishing
<1>2. rows \subseteq Row
  BY DEF KnowledgeTypeOK
<1>3. /\ \A r \in S : r.chunk \in Chunk /\ r.model = job[t].vectors[r.chunk]
      /\ \A c \in Chunk : OwnRow(t, c) \in rows
  BY <1>1, <1>2 DEF PublishedSoFar, Publishing, Row
<1>4. \A c \in Chunk : OwnRow(t, c) \in S /\ OwnRow(t, c).chunk = c
  BY <1>3 DEF OwnRow
<1>5. {r.chunk : r \in S} = Chunk
  <2> HIDE DEF S
  <2>1. QED
    BY <1>3, <1>4
<1>6. \A x, y \in models : x = y
  <2> HIDE DEF S
  <2>1. QED
    BY <1>1, <1>3
<1>7. Cardinality(models) <= 1
  <2> HIDE DEF models
  <2>1. CASE models = {}
    BY <2>1, FS_EmptySet
  <2>2. CASE models # {}
    <3>1. PICK x \in models : TRUE
      BY <2>2
    <3>2. models = {x}
      BY <1>6, <3>1
    <3>3. Cardinality({x}) = 1
      BY FS_Singleton
    <3>4. QED
      BY <3>2, <3>3
  <2>3. QED
    BY <2>1, <2>2
<1>8. QED
  BY <1>5, <1>7

\* A complete search stays complete.
LEMMA SearchStep ==
  ASSUME KnowledgeTypeOK, JobsInv, PublishedSoFar, ReadyIsSettled, SearchComplete, KnowledgeNext
  PROVE  SearchComplete'
<1>0. rows \subseteq Row /\ rows' \subseteq Row
  BY TypesStep DEF KnowledgeTypeOK
<1>1. ASSUME generation.status = "READY", generation' = generation, erased => erased', Searched' = Searched
      PROVE  SearchComplete'
  BY <1>1 DEF SearchComplete, CompleteSearch
<1>2. ASSUME NEW t \in Execution, JobStep(t) PROVE SearchComplete'
  <2>1. CASE generation.status = "READY"
    <3>1. generation' = generation /\ erased' = erased
      BY <1>2, <2>1, GenerationStep, WhoWrites
    <3>2. generation.by \in Execution /\ job[generation.by].at \notin Working
      BY <2>1 DEF ReadyIsSettled
    <3>3. \A r \in Row : r.by = generation.by => (r \in rows' <=> r \in rows)
      BY <1>2, <2>1, <3>2, EntersWorking, RowsFrame
    <3>4. Searched' = Searched
      BY <1>0, <3>1, <3>3 DEF Searched
    <3>5. QED
      BY <1>1, <2>1, <3>1, <3>4
  <2>2. CASE generation.status # "READY" /\ generation'.status = "READY" /\ ~erased'
    <3>1. /\ job[t].at = "complete" /\ lease = t /\ generation'.by = t
          /\ generation'.collection = job[t].collection /\ rows' = rows /\ erased' = erased
      BY <1>2, <2>2, GenerationStep
    <3>2. Searched' = {r \in rows : r.collection = job[t].collection /\ r.by = t}
      BY <3>1 DEF Searched
    <3>3. CompleteSearch'
      BY <2>2, <3>1, <3>2, CompletedSearch DEF CompleteSearch
    <3>4. QED
      BY <3>3 DEF SearchComplete
  <2>3. CASE ~(generation'.status = "READY" /\ ~erased')
    BY <2>3 DEF SearchComplete
  <2>4. QED
    BY <2>1, <2>2, <2>3
<1>3. ASSUME NEW x \in DOMAIN leftover, Reclaim(x) PROVE SearchComplete'
  <2>1. CASE generation.status = "READY"
    <3>1. /\ generation' = generation /\ (erased => erased') /\ rows' \subseteq rows
          /\ \A r \in rows : r.collection = generation.collection => r \in rows'
      BY <1>3, <2>1, ReclaimSpares
    <3>2. Searched' = Searched
      BY <3>1 DEF Searched
    <3>3. QED
      BY <1>1, <2>1, <3>1, <3>2
  <2>2. CASE generation.status # "READY"
    BY <1>3, <2>2 DEF Reclaim, SearchComplete
  <2>3. QED
    BY <2>1, <2>2
<1>4. CASE Cancel \/ \E t \in Execution : TakeOver(t)
  BY <1>4 DEF Cancel, TakeOver, index, SearchComplete, CompleteSearch, Searched
<1>5. QED
  BY <1>2, <1>3, <1>4, NextCases

-----------------------------------------------------------------------------
(* The model calls. *)

\* An answer is not the absence of one.
LEMMA AnswersAreThere == NoAnswer \notin Answer
  BY DEF Answer, NoAnswer, Prior

\* A job keeps what it knows, or forgets it, unless it examines or receives an answer.
KeepsAnswers(t) ==
    /\ \A e \in Endpoint : job'[t].answers[e] \in {job[t].answers[e], NoAnswer}
    /\ job'[t].asked \subseteq job[t].asked

\* Going to another place keeps the answers, leaving a call forgets them.
LEMMA GoingKeeps ==
  ASSUME JobsInv, NEW t \in Execution, NEW place \in Place, Goes(t, place) \/ Leaves(t, place)
  PROVE  KeepsAnswers(t)
<1>1. CASE Goes(t, place)
  BY <1>1, GoesType DEF JobsInv, KeepsAnswers
<1>2. CASE Leaves(t, place)
  <2>1. job'[t] = [NoLocals EXCEPT !.at = place]
    BY <1>2, LeavesType DEF JobsInv, Bare
  <2>2. job'[t].asked = NoLocals.asked /\ job'[t].answers = NoLocals.answers
    BY <2>1 DEF NoLocals
  <2>3. QED
    BY <2>2, BareType DEF KeepsAnswers
<1>3. QED
  BY <1>1, <1>2

\* A step that is not about the answers keeps them, and the record of the calls.
LEMMA OthersKeep ==
  ASSUME JobsInv, NEW t \in Execution, JobStep(t), ~\E e \in Endpoint : AnalysisStep(t, e)
  PROVE  KeepsAnswers(t) /\ calls' = calls
<1>0. job \in [Execution -> JobRecord] /\ job[t] \in JobRecord
  BY DEF JobsInv
<1>1. CASE PrepareIndex(t)
  <2>1. \E place \in Place : Goes(t, place) \/ Leaves(t, place)
    BY <1>1 DEF PrepareIndex, Place
  <2>2. QED
    BY <1>1, <2>1, GoingKeeps DEF PrepareIndex, analysis
<1>2. CASE CutChunks(t)
  <2>1. Checked(t, "store") \in Place
    BY CheckedPlace DEF Place
  <2>2. QED
    BY <1>2, <2>1, GoingKeeps DEF CutChunks, analysis
<1>3. CASE StoreChunks(t)
  BY <1>0, <1>3 DEF StoreChunks, KeepsAnswers, JobRecord, analysis
<1>4. CASE Lookup(t)
  BY <1>0, <1>4 DEF Lookup, KeepsAnswers, JobRecord, analysis
<1>5. CASE \E m \in Model : Embed(t, m) \/ EmbedAll(t, m)
  <2>1. ASSUME Goes(t, "embedAll") PROVE KeepsAnswers(t)
    BY <2>1, GoingKeeps DEF Place
  <2>2. ASSUME NEW m \in Model, NEW made, Resolves(t, made, m) PROVE KeepsAnswers(t) /\ calls' = calls
    BY <1>0, <2>2 DEF Resolves, KeepsAnswers, JobRecord, analysis
  <2>3. QED
    BY <1>5, <2>1, <2>2 DEF Embed, EmbedAll, analysis
<1>6. CASE Publish(t)
  BY <1>0, <1>6 DEF Publish, KeepsAnswers, JobRecord, analysis
<1>7. CASE EasyStep(t)
  <2>1. \E place \in Place : Goes(t, place) \/ Leaves(t, place)
    BY <1>7, EasyPlace DEF Easy, Place
  <2>2. CASE Abandons(t) \/ CompleteIndex(t) \/ EndIndexing(t) \/ Fails(t) \/ Undo(t)
    BY <2>1, <2>2, GoingKeeps DEF Abandons, CompleteIndex, Completable, EndIndexing, Fails, Undo, analysis
  <2>3. CASE RecordFailure(t) \/ Settles(t) \/ SkipAnalysis(t) \/ Enrich(t) \/ EndAnalysis(t)
    BY <2>1, <2>3, GoingKeeps DEF RecordFailure, FailedGeneration, Settles, SkipAnalysis, Enrich, EndAnalysis, analysis
  <2>4. QED
    BY <1>7, <2>2, <2>3 DEF EasyStep
<1>8. QED
  BY <1>1, <1>2, <1>3, <1>4, <1>5, <1>6, <1>7 DEF JobStep

\* The record of one call may change, if the owner writes it and it has not succeeded.
LEMMA SavedEffect ==
  ASSUME KnowledgeTypeOK, NEW e \in Endpoint, NEW status, NEW a
  PROVE  /\ \A d \in Endpoint : calls[d].status = "succeeded" \/ d # e => Saved(e, status, a)[d] = calls[d]
         /\ calls[e].status # "succeeded" => Saved(e, status, a)[e] = [status |-> status, answer |-> a]
  BY DEF Saved, KnowledgeTypeOK

\* What the invariant says of one job and the calls.
Recorded(t) ==
    \A e \in Endpoint :
        /\ job[t].answers[e] # NoAnswer =>
              calls[e] = [status |-> "succeeded", answer |-> job[t].answers[e]]
        /\ lease = t /\ e \in job[t].asked => calls[e].status # "succeeded"

\* The record after a step of job t, and what the job itself knows of it.
LEMMA RecordStep ==
  ASSUME KnowledgeTypeOK, JobsInv, AnswersRecorded, CallsAnswered, NEW t \in Execution, JobStep(t)
  PROVE  /\ \A e \in Endpoint : calls[e].status = "succeeded" => calls'[e] = calls[e]
         /\ calls' = calls \/ lease = t
         /\ Recorded(t)' /\ CallsAnswered'
<1>0. Recorded(t) /\ lease' = lease
  BY JobStepMoves DEF AnswersRecorded, Recorded
<1>1. CASE ~\E e \in Endpoint : AnalysisStep(t, e)
  <2>1. KeepsAnswers(t) /\ calls' = calls
    BY <1>1, OthersKeep
  <2>2. QED
    BY <1>0, <2>1 DEF KeepsAnswers, Recorded, CallsAnswered
<1>2. ASSUME NEW e \in Endpoint, Examine(t, e)
      PROVE  Recorded(t)' /\ calls' = calls
  <2>1. calls' = calls /\ job[t].at = "analyse"
    BY <1>2 DEF Examine, analysis
  <2>2. calls[e] \in [status : {"none", "failed", "succeeded"}, answer : Answer \cup {NoAnswer}]
    BY DEF KnowledgeTypeOK
  <2>3. CASE calls[e].status = "succeeded"
    <3>1. /\ job'[t].asked = job[t].asked \ {e}
          /\ job'[t].answers = [job[t].answers EXCEPT ![e] = calls[e].answer]
      <4>1. PICK a \in Answer \cup {NoAnswer} : a = calls[e].answer
        BY <2>2
      <4>2. Answers(t, e, a)
        BY <1>2, <2>3, <4>1 DEF Examine
      <4>3. QED
        BY <2>1, <4>1, <4>2, AnswersEffect
    <3>2. job[t].answers \in [Endpoint -> Answer \cup {NoAnswer}]
      BY DEF JobsInv, JobRecord
    <3>3. calls[e] = [status |-> "succeeded", answer |-> calls[e].answer]
      BY <2>2, <2>3
    <3>4. QED
      BY <1>0, <2>1, <3>1, <3>2, <3>3 DEF Recorded
  <2>4. CASE calls[e].status # "succeeded"
    <3>1. job'[t].asked = job[t].asked \cup {e} /\ job'[t].answers = job[t].answers
      BY <1>2, <2>1, <2>4, AskedEffect DEF Examine
    <3>2. QED
      BY <1>0, <2>1, <2>4, <3>1 DEF Recorded
  <2>5. QED
    BY <2>3, <2>4
<1>3. ASSUME Leaves(t, "failed") PROVE Recorded(t)'
  <2>1. job'[t] = Bare("failed")
    BY <1>3, LeavesType DEF JobsInv, Place
  <2>2. QED
    BY <2>1, BareType DEF Recorded, Place
<1>4. ASSUME NEW e \in Endpoint, Receive(t, e)
      PROVE  /\ \A d \in Endpoint : calls[d].status = "succeeded" => calls'[d] = calls[d]
             /\ calls' = calls \/ lease = t
             /\ Recorded(t)' /\ CallsAnswered'
  <2>1. PICK a \in Answer : a = IF Repeatable(e) THEN Prior ELSE <<"by", t>>
    BY DEF Answer
  <2>2. CASE MayWrite(t)
    <3>1. lease = t /\ e \in job[t].asked /\ job[t].at = "analyse"
      BY <1>4, <2>2 DEF Receive, MayWrite, Owns
    <3>2. calls' = Saved(e, "succeeded", a) /\ Answers(t, e, a)
      BY <1>4, <2>1, <2>2 DEF Receive
    <3>3. calls[e].status # "succeeded"
      BY <1>0, <3>1 DEF Recorded
    <3>4. /\ \A d \in Endpoint : d # e => calls'[d] = calls[d]
          /\ calls'[e] = [status |-> "succeeded", answer |-> a]
      BY <3>2, <3>3, SavedEffect
    <3>5. /\ job'[t].asked = job[t].asked \ {e}
          /\ job'[t].answers = [job[t].answers EXCEPT ![e] = a]
      BY <3>1, <3>2, AnswersEffect
    <3>6. job[t].answers \in [Endpoint -> Answer \cup {NoAnswer}]
      BY DEF JobsInv, JobRecord
    <3>7. Recorded(t)'
      BY <1>0, <3>4, <3>5, <3>6 DEF Recorded
    <3>8. CallsAnswered'
      BY <3>4 DEF CallsAnswered
    <3>9. QED
      BY <3>1, <3>3, <3>4, <3>7, <3>8
  <2>3. CASE ~MayWrite(t)
    <3>1. calls' = calls /\ Leaves(t, "failed")
      BY <1>4, <2>3 DEF Receive
    <3>2. QED
      BY <1>3, <3>1 DEF CallsAnswered
  <2>4. QED
    BY <2>2, <2>3
<1>5. ASSUME NEW e \in Endpoint, Refuse(t, e)
      PROVE  /\ \A d \in Endpoint : calls[d].status = "succeeded" => calls'[d] = calls[d]
             /\ calls' = calls \/ lease = t
             /\ Recorded(t)' /\ CallsAnswered'
  <2>1. Recorded(t)'
    BY <1>3, <1>5 DEF Refuse
  <2>2. CASE MayWrite(t)
    <3>1. calls' = Saved(e, "failed", NoAnswer) /\ lease = t
      BY <1>5, <2>2 DEF Refuse, MayWrite, Owns
    <3>2. /\ \A d \in Endpoint : calls[d].status = "succeeded" \/ d # e => calls'[d] = calls[d]
          /\ calls[e].status # "succeeded" => calls'[e] = [status |-> "failed", answer |-> NoAnswer]
      BY <3>1, SavedEffect
    <3>3. CallsAnswered'
      BY <3>2 DEF CallsAnswered
    <3>4. QED
      BY <2>1, <3>1, <3>2, <3>3
  <2>3. CASE ~MayWrite(t)
    <3>1. calls' = calls
      BY <1>5, <2>3 DEF Refuse
    <3>2. QED
      BY <2>1, <3>1 DEF CallsAnswered
  <2>4. QED
    BY <2>2, <2>3
<1>6. CASE \E e \in Endpoint : AnalysisStep(t, e)
  <2>1. PICK e \in Endpoint : AnalysisStep(t, e)
    BY <1>6
  <2>2. CASE Examine(t, e)
    BY <1>2, <2>2 DEF CallsAnswered
  <2>3. QED
    BY <1>4, <1>5, <2>1, <2>2 DEF AnalysisStep
<1>7. QED
  BY <1>1, <1>6

\* The second half of the property.
EnrichmentRecorded ==
    enrichment # <<>> =>
        \A e \in Endpoint : calls[e] = [status |-> "succeeded", answer |-> enrichment[e]]

\* The jobs know what is on record, and the record stays.
LEMMA AnswersStep ==
  ASSUME KnowledgeTypeOK, JobsInv, AnswersRecorded, CallsAnswered, EnrichmentRecorded, KnowledgeNext
  PROVE  AnswersRecorded' /\ CallsAnswered' /\ EnrichmentRecorded'
<1>0. \A u \in Execution : Recorded(u)
  BY DEF AnswersRecorded, Recorded
<1>1. ASSUME \A u \in Execution : Recorded(u)' PROVE AnswersRecorded'
  BY <1>1 DEF AnswersRecorded, Recorded
<1>2. ASSUME NEW t \in Execution, JobStep(t)
      PROVE  AnswersRecorded' /\ CallsAnswered' /\ EnrichmentRecorded'
  <2>1. /\ \A e \in Endpoint : calls[e].status = "succeeded" => calls'[e] = calls[e]
        /\ calls' = calls \/ lease = t
        /\ Recorded(t)' /\ CallsAnswered'
    BY <1>2, RecordStep
  <2>2. lease' = lease /\ \A u \in Execution : u # t => job'[u] = job[u]
    BY <1>2, JobStepMoves DEF Moves
  <2>3. ASSUME NEW u \in Execution, u # t PROVE Recorded(u)'
    <3>1. Recorded(u) /\ job'[u] = job[u]
      BY <1>0, <2>2, <2>3
    <3>2. QED
      BY <2>1, <2>2, <2>3, <3>1 DEF Recorded
  <2>4. AnswersRecorded'
    BY <1>1, <2>1, <2>3
  <2>5. CASE enrichment' = enrichment
    BY <2>1, <2>4, <2>5 DEF EnrichmentRecorded
  <2>6. CASE Enrich(t)
    <3>1. CASE MayWrite(t)
      <4>1. enrichment' = job[t].answers /\ calls' = calls /\ \A e \in Endpoint : job[t].answers[e] \in Answer
        BY <2>6, <3>1 DEF Enrich
      <4>2. \A e \in Endpoint : job[t].answers[e] # NoAnswer
        BY <4>1, AnswersAreThere
      <4>3. Recorded(t)
        BY <1>0
      <4>4. QED
        BY <2>1, <2>4, <4>1, <4>2, <4>3 DEF Recorded, EnrichmentRecorded
    <3>2. CASE ~MayWrite(t)
      BY <2>5, <2>6, <3>2 DEF Enrich
    <3>3. QED
      BY <3>1, <3>2
  <2>7. enrichment' = enrichment \/ Enrich(t)
    <3>1. CASE PrepareIndex(t) \/ CutChunks(t) \/ StoreChunks(t) \/ Lookup(t) \/ Publish(t)
      BY <3>1 DEF PrepareIndex, CutChunks, StoreChunks, Lookup, Publish, analysis
    <3>2. CASE \E m \in Model : Embed(t, m) \/ EmbedAll(t, m)
      BY <3>2 DEF Embed, EmbedAll, Resolves, analysis
    <3>3. CASE Abandons(t) \/ CompleteIndex(t) \/ EndIndexing(t) \/ Fails(t) \/ Undo(t)
      BY <3>3 DEF Abandons, CompleteIndex, Completable, EndIndexing, Fails, Undo, analysis
    <3>4. CASE RecordFailure(t) \/ Settles(t) \/ SkipAnalysis(t) \/ EndAnalysis(t)
      BY <3>4 DEF RecordFailure, FailedGeneration, Settles, SkipAnalysis, EndAnalysis, analysis
    <3>5. CASE \E e \in Endpoint : AnalysisStep(t, e)
      BY <3>5 DEF AnalysisStep, Examine, Receive, Refuse, analysis
    <3>6. QED
      BY <1>2, <3>1, <3>2, <3>3, <3>4, <3>5 DEF JobStep, EasyStep
  <2>8. QED
    BY <2>1, <2>4, <2>5, <2>6, <2>7
<1>3. ASSUME NEW t \in Execution, TakeOver(t)
      PROVE  AnswersRecorded' /\ CallsAnswered' /\ EnrichmentRecorded'
  <2>1. /\ Moves(t) /\ lease' = t
        /\ (job'[t] = Bare("prepare") \/ job'[t] = Bare("analyse"))
    BY <1>3, TakeOverMoves
  <2>2. calls' = calls /\ enrichment' = enrichment
    BY <1>3 DEF TakeOver, analysis
  <2>3. Recorded(t)'
    BY <2>1, BareType DEF Recorded, Place
  <2>4. ASSUME NEW u \in Execution, u # t PROVE Recorded(u)'
    <3>1. Recorded(u) /\ job'[u] = job[u]
      BY <1>0, <2>1, <2>4 DEF Moves
    <3>2. QED
      BY <2>1, <2>2, <2>4, <3>1 DEF Recorded
  <2>5. AnswersRecorded'
    BY <1>1, <2>3, <2>4
  <2>6. QED
    BY <2>2, <2>5 DEF CallsAnswered, EnrichmentRecorded
<1>4. CASE Cancel \/ \E x \in DOMAIN leftover : Reclaim(x)
  <2>1. UNCHANGED <<job, lease, calls, enrichment>>
    BY <1>4 DEF Cancel, Reclaim, analysis, buildRow
  <2>2. QED
    BY <2>1 DEF AnswersRecorded, CallsAnswered, EnrichmentRecorded
<1>5. QED
  BY <1>2, <1>3, <1>4, NextCases

-----------------------------------------------------------------------------
(* The invariant. *)

\* What is said of each job, job by job.
LEMMA InvParts ==
  /\ KnowledgeIInv => JobsInv /\ SearchComplete /\ EnrichmentRecorded
  /\ KnowledgeTypeOK /\ JobsInv => StartsFresh /\ ChunksLeft /\ VectorsAgree
  /\ SearchComplete /\ EnrichmentRecorded => KnowledgeConsistent
<1>1. KnowledgeIInv => JobsInv
  <2> SUFFICES ASSUME KnowledgeIInv PROVE JobsInv
    OBVIOUS
  <2>2. job \in [Execution -> JobRecord]
    BY TypeParts DEF KnowledgeIInv
  <2>3. ASSUME NEW t \in Execution PROVE Sound(job[t])
    BY <2>2 DEF KnowledgeIInv, StartsFresh, ChunksLeft, VectorsAgree, Sound, Bare
  <2>4. QED
    BY <2>2, <2>3 DEF JobsInv, KnowledgeIInv, StartsFresh
<1>2. KnowledgeIInv => SearchComplete /\ EnrichmentRecorded
  BY DEF KnowledgeIInv, KnowledgeConsistent, SearchComplete, EnrichmentRecorded
<1>3. KnowledgeTypeOK /\ JobsInv => StartsFresh /\ ChunksLeft /\ VectorsAgree
  <2> SUFFICES ASSUME JobsInv PROVE StartsFresh /\ ChunksLeft /\ VectorsAgree
    OBVIOUS
  <2>2. \A t \in Execution : Sound(job[t])
    BY DEF JobsInv
  <2>3. StartsFresh
    BY <2>2 DEF JobsInv, StartsFresh, Sound, Bare
  <2>4. ChunksLeft /\ VectorsAgree
    BY <2>2 DEF ChunksLeft, VectorsAgree, Sound
  <2>5. QED
    BY <2>3, <2>4
<1>4. SearchComplete /\ EnrichmentRecorded => KnowledgeConsistent
  BY DEF KnowledgeConsistent, SearchComplete, EnrichmentRecorded
<1>5. QED
  BY <1>1, <1>2, <1>3, <1>4

\* The build starts with nothing done, under the first lease.
LEMMA InitInv == KnowledgeInit => KnowledgeIInv
<1> SUFFICES ASSUME KnowledgeInit PROVE KnowledgeIInv
  OBVIOUS
<1>2. job \in [Execution -> JobRecord] /\ \A t \in Execution : job[t] \in {Bare("prepare"), NoLocals}
  BY BareType DEF KnowledgeInit, Bare, Place
<1>3. KnowledgeTypeOK
  <2>0. /\ generation \in [status : {"none", "BUILDING", "READY", "FAILED"},
                           collection : Collection \cup {Nothing}, by : Execution \cup {Nothing}]
        /\ leftover \in [Collection \cup {File} -> {"none", "pending", "done"}]
        /\ calls \in [Endpoint -> [status : {"none", "failed", "succeeded"},
                                   answer : Answer \cup {NoAnswer}]]
    BY DEF KnowledgeInit
  <2>1. lease \in Execution /\ failures \in 0 .. MaxFailures
    BY DEF KnowledgeInit
  <2>2. stopping \in BOOLEAN /\ chunkFile \in BOOLEAN /\ erased \in BOOLEAN
    BY DEF KnowledgeInit
  <2>3. rows \subseteq Row /\ prior \subseteq Endpoint /\ cached \in Resolved
    BY DEF KnowledgeInit
  <2>4. enrichment \in {<<>>} \cup [Endpoint -> Answer]
    BY DEF KnowledgeInit
  <2>5. buildPhase \in {"indexing", "analysing", "ready", "failed", "cancelled"}
    BY DEF KnowledgeInit
  <2>6. OtherTypes
    BY <2>0, <2>1, <2>2, <2>3, <2>4, <2>5 DEF OtherTypes
  <2>7. QED
    BY <1>2, <2>6, TypeParts
<1>4. JobsInv
  <2>1. "prepare" \in Place \ (Resolving \cup Publishing)
    BY DEF Place, Resolving, Publishing
  <2>2. \A t \in Execution : Sound(job[t])
    BY <1>2, <2>1, BareSound
  <2>3. \A t \in Execution : t > lease => job[t] = NoLocals
    BY DEF KnowledgeInit
  <2>4. QED
    BY <1>2, <2>2, <2>3 DEF JobsInv
<1>5. \A t \in Execution : job[t].at \notin Publishing /\ job[t].asked = {}
                              /\ \A e \in Endpoint : job[t].answers[e] = NoAnswer
  <2>1. "prepare" \in Place /\ "prepare" \notin Publishing /\ "waiting" \notin Publishing
    BY DEF Publishing, Place
  <2>2. QED
    BY <1>2, <2>1, BareType
<1>6. PublishedSoFar /\ AnswersRecorded
  BY <1>5 DEF PublishedSoFar, AnswersRecorded
<1>7. ReadyIsSettled /\ CallsAnswered /\ KnowledgeConsistent
  BY DEF KnowledgeInit, ReadyIsSettled, CallsAnswered, KnowledgeConsistent
<1>8. QED
  BY <1>3, <1>4, <1>6, <1>7, InvParts DEF KnowledgeIInv

\* Every step keeps the invariant.
LEMMA InvStep == KnowledgeIInv /\ [KnowledgeNext]_knowledgeVars => KnowledgeIInv'
<1>1. ASSUME KnowledgeIInv, KnowledgeNext PROVE KnowledgeIInv'
  <2>1. JobsInv /\ SearchComplete /\ EnrichmentRecorded
    BY <1>1, InvParts
  <2>2. /\ KnowledgeTypeOK /\ PublishedSoFar /\ ReadyIsSettled /\ AnswersRecorded /\ CallsAnswered
    BY <1>1 DEF KnowledgeIInv
  <2>3. KnowledgeTypeOK' /\ JobsInv'
    BY <1>1, <2>1, <2>2, TypesStep, JobsStep
  <2>4. PublishedSoFar' /\ ReadyIsSettled' /\ SearchComplete'
    BY <1>1, <2>1, <2>2, WrittenStep, ReadyStep, SearchStep
  <2>5. AnswersRecorded' /\ CallsAnswered' /\ EnrichmentRecorded'
    BY <1>1, <2>1, <2>2, AnswersStep
  <2>6. StartsFresh' /\ ChunksLeft' /\ VectorsAgree' /\ KnowledgeConsistent'
    BY <2>3, <2>4, <2>5, InvParts, PTL
  <2>7. QED
    BY <2>3, <2>4, <2>5, <2>6 DEF KnowledgeIInv
<1>2. ASSUME KnowledgeIInv, UNCHANGED knowledgeVars PROVE KnowledgeIInv'
  <2>1. UNCHANGED <<lease, buildPhase, stopping, generation, rows, cached, chunkFile, leftover, prior,
                    calls, enrichment, job, erased, failures>>
    BY <1>2 DEF knowledgeVars, buildRow, index, analysis
  <2>2. KnowledgeTypeOK' /\ StartsFresh' /\ ChunksLeft' /\ VectorsAgree'
    BY <1>2, <2>1 DEF KnowledgeIInv, KnowledgeTypeOK, StartsFresh, ChunksLeft, VectorsAgree
  <2>3. PublishedSoFar' /\ ReadyIsSettled' /\ AnswersRecorded' /\ CallsAnswered'
    BY <1>2, <2>1 DEF KnowledgeIInv, PublishedSoFar, OwnRow, ReadyIsSettled, AnswersRecorded, CallsAnswered
  <2>4. KnowledgeConsistent'
    BY <1>2, <2>1 DEF KnowledgeIInv, KnowledgeConsistent, CompleteSearch, Searched
  <2>5. QED
    BY <2>2, <2>3, <2>4 DEF KnowledgeIInv
<1>3. QED
  BY <1>1, <1>2

\* The variables of the build, its index, its enrichment and its executions have the types
\* that the indexing and analysis services, their repositories and the vector store give them.
THEOREM KnowledgeTypes == KnowledgeSpec => []KnowledgeTypeOK
<1>1. KnowledgeIInv => KnowledgeTypeOK
  BY DEF KnowledgeIInv
<1>2. QED
  BY <1>1, InitInv, InvStep, PTL DEF KnowledgeSpec

\* A READY index holds one vector for every chunk, all by one model, unless a late clean-up
\* took rows of the current attempt, and the enrichment is what the recorded model calls say:
\* for any number of executions that take the lease over, chunks, models and operations, and
\* whatever fails (IndexingService.index, AnalysisService.analyze, the clean-up worker).
THEOREM KnowledgeStaysConsistent == KnowledgeSpec => []KnowledgeConsistent
<1>1. KnowledgeIInv => KnowledgeConsistent
  BY DEF KnowledgeIInv
<1>2. QED
  BY <1>1, InitInv, InvStep, PTL DEF KnowledgeSpec

=============================================================================
