------------------------------ MODULE Accounts ------------------------------
(***************************************************************************)
(* Users, their sessions, and the settings they share.                     *)
(*                                                                         *)
(*   services/auth.py, repositories/auth_sessions.py   sessions            *)
(*   services/users.py, repositories/users.py          accounts            *)
(*   services/settings.py, repositories/settings.py    settings            *)
(*   api/deps.py                                       who may do what     *)
(*                                                                         *)
(* Requests run side by side.  A request reads in one step and commits in  *)
(* another, and holds an advisory lock between the two where the code does.*)
(* A login that is refused (by the limit on attempts, a wrong password or  *)
(* a disabled account) changes nothing and is no step here, and passwords  *)
(* are not told apart.                                                     *)
(***************************************************************************)
EXTENDS Naturals, FiniteSets

CONSTANTS
    User,
    MaxSessions,      \* sessions that can be opened, numbered in the order of their commits
    Caller,           \* requests at the same time
    Setting,          \* fields of a settings row
    MaxRefreshes,     \* refreshes of a session
    MaxChanges        \* changes of accounts and settings in a behaviour

Session == 1 .. MaxSessions

Free == "free"

ASSUME AccountsAssumption ==
    /\ MaxSessions \in Nat /\ MaxRefreshes \in Nat /\ MaxChanges \in Nat
    /\ Free \notin Caller

VARIABLES
    account,          \* users: User -> row
    session,          \* auth_sessions: Session -> row
    settings,         \* system_settings: Setting -> the change that wrote it
    lock,             \* advisory locks: {"admin", "settings"} -> holder
    caller,           \* local variables of the requests
    changes,          \* number of changes, and the last value used for one
    epoch,            \* history: User -> changes that revoked the user's sessions
    written           \* history: Setting -> the last change that was acknowledged

accountVars == <<account, session, settings, lock, caller, changes, epoch, written>>

Change == {"password", "promote", "demote", "disable", "enable"}
Account == [there : BOOLEAN, admin : BOOLEAN, active : BOOLEAN]
Settings == [Setting -> 0 .. MaxChanges]
NoAccount == [there |-> FALSE, admin |-> FALSE, active |-> FALSE]
NoSession == [state |-> "none"]
Idle == [at |-> "idle"]

AccountsTypeOK ==
    /\ account \in [User -> Account]
    /\ session \in [Session -> {NoSession} \cup
           [state : {"live", "over"}, user : User, token : Nat, used : Nat, opened : Nat]]
    /\ settings \in Settings
    /\ lock \in [{"admin", "settings"} -> Caller \cup {Free}]
    /\ caller \in [Caller -> {Idle}
           \cup [at : {"login"}, user : User]
           \cup [at : {"refresh"}, of : Session, token : Nat]
           \cup [at : {"update", "write"}, user : User, change : Change]
           \cup [at : {"settings"}, field : Setting, value : 1 .. MaxChanges,
                 seen : Settings]]
    /\ changes \in 0 .. MaxChanges
    /\ epoch \in [User -> Nat]
    /\ written \in Settings

IsAdmin(row) == row.there /\ row.admin /\ row.active

\* A new installation, or one with users.
AccountsInit ==
    /\ account \in [User -> {row \in Account : row.there \/ row = NoAccount}]
    /\ \A u \in User : account[u].there => \E v \in User : IsAdmin(account[v])
    /\ session = [s \in Session |-> NoSession]
    /\ settings = [f \in Setting |-> 0]
    /\ lock = [l \in {"admin", "settings"} |-> Free]
    /\ caller = [q \in Caller |-> Idle]
    /\ changes = 0
    /\ epoch = [u \in User |-> 0]
    /\ written = [f \in Setting |-> 0]

-----------------------------------------------------------------------------

Continues(q, locals) == caller' = [caller EXCEPT ![q] = locals]
Returns(q) == Continues(q, Idle)

\* Faulty variant: nobody waits for a lock.
Available_Always(l) == TRUE

\* pg_advisory_xact_lock, held until the transaction ends.
Available(l) == lock[l] = Free

Takes(q, l) == Available(l) /\ lock' = [lock EXCEPT ![l] = q]
Gives(q) == lock' = [l \in DOMAIN lock |-> IF lock[l] = q THEN Free ELSE lock[l]]

\* current_principal and require_admin: the row decides, not the token's claims.
Authenticated(s) == session[s].state = "live" /\ account[session[s].user].active
RequireAdmin == \E s \in Session : Authenticated(s) /\ IsAdmin(account[session[s].user])

-----------------------------------------------------------------------------
(* AuthService *)

\* login, until the password is verified: slow, and without a lock on the row.
LoginReads(q, u) ==
    /\ caller[q] = Idle
    /\ account[u].there /\ account[u].active
    /\ Continues(q, [at |-> "login", user |-> u])
    /\ UNCHANGED <<account, session, settings, lock, changes, epoch, written>>

\* The session is committed with the time of the login in the user's row.
LoginCommits(q) ==
    /\ caller[q].at = "login"
    /\ LET u == caller[q].user
       IN  \E s \in Session :
             /\ session[s] = NoSession
             /\ \A r \in Session : r < s => session[r] # NoSession
             /\ session' = [session EXCEPT ![s] = [state |-> "live", user |-> u, token |-> 0,
                                                   used |-> 0, opened |-> epoch[u]]]
    /\ Returns(q)
    /\ UNCHANGED <<account, settings, lock, changes, epoch, written>>

\* refresh: the session that the token belongs to now.
RefreshReads(q, s) ==
    /\ caller[q] = Idle
    /\ Authenticated(s)
    /\ session[s].token < MaxRefreshes
    /\ Continues(q, [at |-> "refresh", of |-> s, token |-> session[s].token])
    /\ UNCHANGED <<account, session, settings, lock, changes, epoch, written>>

\* Faulty variant: the session that the token was found with.
Rotatable_Found(q, s) == session[s].state = "live"

\* rotate_refresh_token: the row has to be as it was read.
Rotatable(q, s) == session[s].state = "live" /\ session[s].token = caller[q].token

RefreshCommits(q) ==
    /\ caller[q].at = "refresh"
    /\ LET s == caller[q].of
       IN  session' = IF Rotatable(q, s)
                        THEN [session EXCEPT ![s].token = caller[q].token + 1, ![s].used = @ + 1]
                        ELSE session
    /\ Returns(q)
    /\ UNCHANGED <<account, settings, lock, changes, epoch, written>>

\* logout, and the time that ends a session.
Ends(s) ==
    /\ session[s].state = "live"
    /\ session' = [session EXCEPT ![s].state = "over"]
    /\ UNCHANGED <<account, settings, lock, caller, changes, epoch, written>>

-----------------------------------------------------------------------------
(* UserService *)

ActiveAdmins == {u \in User : IsAdmin(account[u])}

Created(u, admin) ==
    /\ ~account[u].there
    /\ changes < MaxChanges
    /\ changes' = changes + 1
    /\ account' = [account EXCEPT ![u] = [there |-> TRUE, admin |-> admin, active |-> TRUE]]
    /\ UNCHANGED <<session, settings, lock, caller, epoch, written>>

Bootstrap(u) ==
    /\ Available("admin")
    /\ \A v \in User : ~account[v].there
    /\ Created(u, TRUE)

CreateUser(u, admin) ==
    /\ RequireAdmin
    /\ admin => Available("admin")
    /\ Created(u, admin)

\* update, from the check of the caller on.
UpdateRequested(q, u, change) ==
    /\ caller[q] = Idle
    /\ RequireAdmin
    /\ changes < MaxChanges
    /\ changes' = changes + 1
    /\ Continues(q, [at |-> "update", user |-> u, change |-> change])
    /\ UNCHANGED <<account, session, settings, lock, epoch, written>>

RemovesAdmin(row, change) == IsAdmin(row) /\ change \in {"demote", "disable"}

Refused(row, change) ==
    ~row.there \/ (RemovesAdmin(row, change) /\ Cardinality(ActiveAdmins) <= 1)

\* The last active administrator is kept; only changes of role and activity lock.
UpdateReads(q) ==
    LET change == caller[q].change
    IN  /\ caller[q].at = "update"
        /\ change # "password" => Available("admin")
        /\ IF Refused(account[caller[q].user], change)
             THEN Returns(q) /\ UNCHANGED lock
             ELSE /\ Continues(q, [caller[q] EXCEPT !.at = "write"])
                  /\ IF change = "password" THEN UNCHANGED lock ELSE Takes(q, "admin")
        /\ UNCHANGED <<account, session, settings, changes, epoch, written>>

\* The columns of the row that the change names.
Updated(row, change) ==
    CASE change = "password" -> row
      [] change \in {"promote", "demote"} -> [row EXCEPT !.admin = (change = "promote")]
      [] change \in {"enable", "disable"} -> [row EXCEPT !.active = (change = "enable")]

\* revoke_for_user: the sessions of the user now, in the transaction that holds the
\* user's row, which a login has to write as well.
Revokes(q, s) == session[s].state = "live" /\ session[s].user = caller[q].user

UpdateWrites(q) ==
    LET u == caller[q].user
        change == caller[q].change
    IN  /\ caller[q].at = "write"
        /\ account' = [account EXCEPT ![u] = Updated(@, change)]
        /\ IF change = "enable"
             THEN UNCHANGED <<session, epoch>>
             ELSE /\ epoch' = [epoch EXCEPT ![u] = @ + 1]
                  /\ session' = [s \in Session |-> IF Revokes(q, s)
                                                     THEN [session[s] EXCEPT !.state = "over"]
                                                     ELSE session[s]]
        /\ Gives(q)
        /\ Returns(q)
        /\ UNCHANGED <<settings, changes, written>>

-----------------------------------------------------------------------------
(* SettingsService: update_operational and update_models, once the provider's *)
(* catalogue has confirmed the models.                                        *)

SettingsRead(q, f) ==
    /\ caller[q] = Idle
    /\ RequireAdmin
    /\ changes < MaxChanges
    /\ changes' = changes + 1
    /\ Takes(q, "settings")
    /\ Continues(q, [at |-> "settings", field |-> f, value |-> changes + 1, seen |-> settings])
    /\ UNCHANGED <<account, session, settings, epoch, written>>

\* The whole row is written: what was read, with the change in it.
SettingsWritten(q) ==
    /\ caller[q].at = "settings"
    /\ settings' = [caller[q].seen EXCEPT ![caller[q].field] = caller[q].value]
    /\ written' = [written EXCEPT ![caller[q].field] = caller[q].value]
    /\ Gives(q)
    /\ Returns(q)
    /\ UNCHANGED <<account, session, changes, epoch>>

-----------------------------------------------------------------------------

AccountsNext ==
    \/ \E q \in Caller :
         \/ \E u \in User : LoginReads(q, u)
         \/ LoginCommits(q)
         \/ \E s \in Session : RefreshReads(q, s)
         \/ RefreshCommits(q)
         \/ \E u \in User, change \in Change : UpdateRequested(q, u, change)
         \/ UpdateReads(q) \/ UpdateWrites(q)
         \/ \E f \in Setting : SettingsRead(q, f)
         \/ SettingsWritten(q)
    \/ \E s \in Session : Ends(s)
    \/ \E u \in User : Bootstrap(u) \/ \E admin \in BOOLEAN : CreateUser(u, admin)

AccountsSpec == AccountsInit /\ [][AccountsNext]_accountVars

-----------------------------------------------------------------------------
(* Properties. *)

\* A change of password, role or activity leaves no session of before it: every
\* session that is still accepted was committed after the user's last such change,
\* whatever logins and refreshes were under way.  And no refresh token was exchanged
\* twice, however many requests presented it at once.
SessionsRevoked ==
    \A s \in Session :
        session[s].state = "live" =>
            /\ session[s].opened = epoch[session[s].user]
            /\ session[s].used = session[s].token

\* Requests that read, decide and write do not undo one another: whatever administrators
\* do to each other at the same time, one active administrator remains, and every
\* setting holds the value of the last change to it that was committed.
ChangesSerialized ==
    /\ (\E u \in User : account[u].there) => ActiveAdmins # {}
    /\ settings = written

-----------------------------------------------------------------------------
(* The inductive invariant. *)

\* A request that read under a lock holds it until it writes, and what it read is
\* still so: the settings it saw, and another administrator beside the one it removes.
ReadsHold ==
    \A q \in Caller :
        /\ caller[q].at = "settings" => lock["settings"] = q /\ caller[q].seen = settings
        /\ caller[q].at = "write" /\ caller[q].change # "password" =>
              /\ lock["admin"] = q
              /\ RemovesAdmin(account[caller[q].user], caller[q].change) =>
                    \E v \in User \ {caller[q].user} : IsAdmin(account[v])

AccountsIInv ==
    /\ AccountsTypeOK
    /\ SessionsRevoked
    /\ ChangesSerialized
    /\ ReadsHold
=============================================================================
