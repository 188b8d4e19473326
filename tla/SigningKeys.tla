---------------------------- MODULE SigningKeys ----------------------------
(***************************************************************************)
(* How a runtime learns the keys that sign its callers' OpenID tokens.     *)
(*                                                                         *)
(*   mcp_runtime/app/auth/inbound.py          verification of a token      *)
(*   mcp_runtime/app/clients/oidc_client.py   the cached key set           *)
(*                                                                         *)
(* A key that is not in the key set makes the runtime ask again, but not   *)
(* within a pause after the last answer.                                   *)
(***************************************************************************)
EXTENDS Naturals

CONSTANTS
    Key,              \* key identifiers
    Checker,          \* verifications at the same time
    MaxAge,           \* values of max-age; 0 for no-store and no-cache
    Pause,            \* _MIN_FORCED_REFRESH_SECONDS
    Deadline          \* _OIDC_OPERATION_TIMEOUT_SECONDS

\* _cache_ttl bounds the time a key set is kept.
ASSUME KeysAssumption ==
    /\ MaxAge \subseteq Nat /\ Pause \in Nat /\ Deadline \in Nat
    /\ \E a \in MaxAge \cup {Pause} : \A b \in MaxAge \cup {Pause} : b <= a

VARIABLES
    published,        \* external: Key -> [on, age], the provider's key set
    keySet,           \* self._cache: its keys and the time to expires_at
    pausing,          \* time until Pause has passed since self._last_refresh
    keyLock,          \* self._lock
    checker           \* local variables of the verifications

keyVars == <<published, keySet, pausing, keyLock, checker>>

Unlocked == "unlocked"
AtRest == [at |-> "rest"]
NoKeys == [keys |-> {}, left |-> 0]
Longest == CHOOSE a \in MaxAge \cup {Pause} : \A b \in MaxAge \cup {Pause} : b <= a

\* How long a key that was withdrawn may still be accepted.
Lag == Longest + Deadline
Age == 0 .. Lag + 1

KeysTypeOK ==
    /\ published \in [Key -> [on : BOOLEAN, age : Age]]
    /\ keySet \in [keys : SUBSET Key, left : 0 .. Longest]
    /\ pausing \in 0 .. Pause
    /\ keyLock \in Checker \cup {Unlocked}
    /\ checker \in [Checker -> {AtRest}
           \cup [at : {"look", "lock"}, key : Key, forced : BOOLEAN]
           \cup [at : {"fetch"}, key : Key, forced : BOOLEAN, left : 0 .. Deadline]
           \cup [at : {"reply"}, key : Key, forced : BOOLEAN, left : 0 .. Deadline, keys : SUBSET Key]
           \cup [at : {"accepts", "refuses"}, on : BOOLEAN, recent : BOOLEAN, kept : BOOLEAN]]

\* Every provider has some key; the machine has been up for longer than the pause.
KeysInit ==
    /\ published \in [Key -> [on : BOOLEAN, age : {Lag + 1}]]
    /\ \E k \in Key : published[k].on
    /\ keySet = NoKeys
    /\ pausing = 0
    /\ keyLock = Unlocked
    /\ checker = [v \in Checker |-> AtRest]

-----------------------------------------------------------------------------

Proceeds(v, locals) == checker' = [checker EXCEPT ![v] = locals]

\* history: what the provider's key set was like when the verdict was given.
KeyVerdict(v, answer, within) ==
    LET key == published[checker[v].key]
    IN  [at |-> answer, on |-> key.on, recent |-> key.age <= within, kept |-> keySet # NoKeys]

\* verify_token after get_key: accept, ask again with force, or refuse.
Judges(v, keys) ==
    Proceeds(v, IF checker[v].key \in keys THEN KeyVerdict(v, "accepts", Lag)
                ELSE IF checker[v].forced THEN KeyVerdict(v, "refuses", Pause + Deadline)
                ELSE [at |-> "look", key |-> checker[v].key, forced |-> TRUE])

VerifyToken(v, k) ==
    /\ checker[v] = AtRest
    /\ Proceeds(v, [at |-> "look", key |-> k, forced |-> FALSE])
    /\ UNCHANGED <<published, keySet, pausing, keyLock>>

\* The cache is there and has not expired.
Current == keySet.left > 0

\* _get_jwks, before the lock.
LookUp(v) ==
    /\ checker[v].at = "look"
    /\ IF Current /\ ~checker[v].forced
         THEN Judges(v, keySet.keys)
         ELSE Proceeds(v, [checker[v] EXCEPT !.at = "lock"])
    /\ UNCHANGED <<published, keySet, pausing, keyLock>>

\* Within the pause a forced refresh gets what is cached, expired or not.
Paused(v) == checker[v].forced /\ pausing > 0

Locked(v) ==
    /\ checker[v].at = "lock"
    /\ keyLock = Unlocked
    /\ IF (Current /\ ~checker[v].forced) \/ Paused(v)
         THEN Judges(v, keySet.keys) /\ UNCHANGED keyLock
         ELSE /\ Proceeds(v, [at |-> "fetch", key |-> checker[v].key, forced |-> checker[v].forced,
                              left |-> Deadline])
              /\ keyLock' = v
    /\ UNCHANGED <<published, keySet, pausing>>

\* External: the provider answers with its keys of now.
AnswerKeys(v) ==
    /\ checker[v].at = "fetch"
    /\ Proceeds(v, [at |-> "reply", key |-> checker[v].key, forced |-> checker[v].forced,
                    left |-> checker[v].left, keys |-> {k \in Key : published[k].on}])
    /\ UNCHANGED <<published, keySet, pausing, keyLock>>

\* The reply is kept for as long as it says, and the pause begins.
StoreKeys(v, age) ==
    /\ checker[v].at = "reply"
    /\ keySet' = IF age > 0 THEN [keys |-> checker[v].keys, left |-> age] ELSE NoKeys
    /\ pausing' = Pause
    /\ keyLock' = Unlocked
    /\ Judges(v, checker[v].keys)
    /\ UNCHANGED published

\* No usable reply in time: the token is not accepted, and the pause not begun.
KeysUnavailable(v) ==
    /\ checker[v].at \in {"fetch", "reply"}
    /\ keyLock' = Unlocked
    /\ Proceeds(v, AtRest)
    /\ UNCHANGED <<published, keySet, pausing>>

Verified(v) ==
    /\ checker[v].at \in {"accepts", "refuses"}
    /\ Proceeds(v, AtRest)
    /\ UNCHANGED <<published, keySet, pausing, keyLock>>

\* External: a key is published or withdrawn, never the last one.
RotateKeys(k) ==
    /\ \E other \in Key \ {k} : published[other].on
    /\ published' = [published EXCEPT ![k] = [on |-> ~@.on, age |-> 0]]
    /\ UNCHANGED <<keySet, pausing, keyLock, checker>>

ClockTicks ==
    /\ \A v \in Checker : checker[v].at \in {"fetch", "reply"} => checker[v].left > 0
    /\ published' = [k \in Key |-> [published[k] EXCEPT !.age = IF @ + 1 \in Age THEN @ + 1 ELSE @]]
    /\ keySet' = [keySet EXCEPT !.left = IF @ = 0 THEN 0 ELSE @ - 1]
    /\ pausing' = IF pausing = 0 THEN 0 ELSE pausing - 1
    /\ checker' = [v \in Checker |-> IF checker[v].at \in {"fetch", "reply"}
                                       THEN [checker[v] EXCEPT !.left = @ - 1] ELSE checker[v]]
    /\ UNCHANGED keyLock

KeysNext ==
    \/ \E v \in Checker :
         \/ \E k \in Key : VerifyToken(v, k)
         \/ LookUp(v) \/ Locked(v) \/ AnswerKeys(v) \/ KeysUnavailable(v) \/ Verified(v)
         \/ \E age \in MaxAge : StoreKeys(v, age)
    \/ \E k \in Key : RotateKeys(k)
    \/ ClockTicks

KeysSpec == KeysInit /\ [][KeysNext]_keyVars

-----------------------------------------------------------------------------
(* Properties. *)

\* A token is accepted only by a key that the provider published within the longest
\* time a key set is kept and a reply takes; and it is refused, while the provider can
\* be asked and lets its keys be kept, only if its key is not published or has been for
\* no longer than the pause and a reply, however many unknown keys others ask for.
KeysHonest ==
    \A v \in Checker :
        LET c == checker[v]
        IN  /\ c.at = "accepts" => c.on \/ c.recent
            /\ c.at = "refuses" /\ c.kept => ~c.on \/ c.recent

\* A key that the cache and the provider disagree about changed since the cache was
\* asked for: while the cache is current, within the rest of its life and a reply;
\* while refreshes pause, within the rest of the pause and a reply.
CacheRecent ==
    \A k \in Key :
        /\ k \in keySet.keys /\ ~published[k].on =>
              /\ Current => published[k].age + keySet.left <= Lag
              /\ pausing > 0 => published[k].age + pausing <= Pause + Deadline
        /\ k \notin keySet.keys /\ published[k].on /\ keySet # NoKeys /\ pausing > 0 =>
              published[k].age + pausing <= Pause + Deadline

\* A key that a reply and the provider disagree about changed since the answer.
ReplyRecent ==
    \A v \in Checker, k \in Key :
        checker[v].at = "reply" /\ (k \in checker[v].keys) # published[k].on =>
            published[k].age + checker[v].left <= Deadline

KeysIInv == KeysTypeOK /\ KeysHonest /\ CacheRecent /\ ReplyRecent
=============================================================================
