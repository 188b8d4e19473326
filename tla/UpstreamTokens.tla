--------------------------- MODULE UpstreamTokens ---------------------------
(***************************************************************************)
(* How a runtime shares one OAuth access token between the tool calls that *)
(* need it.                                                                *)
(*                                                                         *)
(*   mcp_runtime/app/auth/upstream.py          the cache, per auth profile *)
(*   mcp_runtime/app/clients/oauth_client.py   the token request           *)
(*                                                                         *)
(* Calls are coroutines of one process: they take turns between awaits.    *)
(* The server counts a token's life from the moment it issues it, the      *)
(* runtime from the moment it has read the reply.  Time is kept as what is *)
(* left of it.                                                             *)
(***************************************************************************)
EXTENDS Naturals

CONSTANTS
    Borrower,         \* tool calls at the same time
    Lifetime,         \* values of expires_in
    MaxMargin,        \* the longest safety margin
    Timeout           \* _TOKEN_OPERATION_TIMEOUT_SECONDS

ASSUME TokensAssumption ==
    Lifetime \subseteq Nat /\ MaxMargin \in Nat /\ Timeout \in Nat

VARIABLES
    cachedToken,      \* self._tokens[profile]: time to refresh_at, and to the token's end
    turn,             \* self._locks[profile]: the call that holds it
    toolCall,         \* local variables of the calls
    wasted            \* history: a token was asked for while another was good

tokenVars == <<cachedToken, turn, toolCall, wasted>>

Nobody == "nobody"
Resting == [at |-> "resting"]
NoToken == [kept |-> 0, life |-> 0, slow |-> FALSE]

TokensTypeOK ==
    /\ cachedToken \in [kept : Nat, life : Nat, slow : BOOLEAN]
    /\ turn \in Borrower \cup {Nobody}
    /\ toolCall \in [Borrower -> {Resting, [at |-> "waiting"]}
           \cup [at : {"asking"}, left : 0 .. Timeout]
           \cup [at : {"answered"}, left : 0 .. Timeout, life : Lifetime, age : Nat]
           \cup [at : {"presents"}, over : BOOLEAN, slow : BOOLEAN]]
    /\ wasted \in BOOLEAN

TokensInit ==
    /\ cachedToken = NoToken
    /\ turn = Nobody
    /\ toolCall = [c \in Borrower |-> Resting]
    /\ wasted = FALSE

Larger(a, b) == IF a > b THEN a ELSE b
Smaller(a, b) == IF a < b THEN a ELSE b

\* _cache_entry: how long the runtime uses a token.
Kept(life) ==
    LET margin == Smaller(MaxMargin, Larger(1, life \div 10))
    IN  IF life > margin + 1 THEN life - margin ELSE 1

\* refresh_at lies ahead.
Good == cachedToken.kept > 0

Proceed(c, locals) == toolCall' = [toolCall EXCEPT ![c] = locals]

Presents(c, token) ==
    Proceed(c, [at |-> "presents", over |-> token.life = 0, slow |-> token.slow])

\* _oauth_token, up to the lock.
AskToken(c) ==
    /\ toolCall[c] = Resting
    /\ IF Good THEN Presents(c, cachedToken)
               ELSE Proceed(c, [at |-> "waiting"])
    /\ UNCHANGED <<cachedToken, turn, wasted>>

\* Faulty variant: whoever has waited for the lock asks for a token.
Suffices_Never == FALSE

\* The second look at the cache, under the lock.
Suffices == Good

Enter(c) ==
    /\ toolCall[c].at = "waiting"
    /\ turn = Nobody
    /\ IF Suffices
         THEN Presents(c, cachedToken) /\ UNCHANGED <<turn, wasted>>
         ELSE /\ Proceed(c, [at |-> "asking", left |-> Timeout])
              /\ turn' = c
              /\ wasted' = (wasted \/ Good)
    /\ UNCHANGED cachedToken

\* External: the server issues a token.
IssueAccessToken(c, life) ==
    /\ toolCall[c].at = "asking"
    /\ Proceed(c, [at |-> "answered", left |-> toolCall[c].left, life |-> life, age |-> 0])
    /\ UNCHANGED <<cachedToken, turn, wasted>>

\* fetch_client_credentials has read the reply; slow, if that took the margin.
StoreToken(c) ==
    LET t == toolCall[c]
        token == [kept |-> Kept(t.life), life |-> Larger(t.life, t.age) - t.age,
                  slow |-> t.age >= t.life - Kept(t.life)]
    IN  /\ t.at = "answered"
        /\ cachedToken' = token
        /\ Presents(c, token)
        /\ turn' = Nobody
        /\ UNCHANGED wasted

\* No token: the call fails, the next one in the queue tries for itself.
FetchFails(c) ==
    /\ toolCall[c].at \in {"asking", "answered"}
    /\ Proceed(c, Resting)
    /\ turn' = Nobody
    /\ UNCHANGED <<cachedToken, wasted>>

CallDone(c) ==
    /\ toolCall[c].at = "presents"
    /\ Proceed(c, Resting)
    /\ UNCHANGED <<cachedToken, turn, wasted>>

\* A second; a request that has taken its time has ended.
Passed(n) == IF n = 0 THEN 0 ELSE n - 1

TimePasses ==
    /\ \A c \in Borrower : toolCall[c].at \in {"asking", "answered"} => toolCall[c].left > 0
    /\ cachedToken' = [cachedToken EXCEPT !.kept = Passed(@), !.life = Passed(@)]
    /\ toolCall' = [c \in Borrower |->
           CASE toolCall[c].at = "asking" -> [toolCall[c] EXCEPT !.left = @ - 1]
             [] toolCall[c].at = "answered" -> [toolCall[c] EXCEPT !.left = @ - 1, !.age = @ + 1]
             [] OTHER -> toolCall[c]]
    /\ UNCHANGED <<turn, wasted>>

TokensNext ==
    \/ \E c \in Borrower :
         \/ AskToken(c) \/ Enter(c) \/ StoreToken(c) \/ FetchFails(c) \/ CallDone(c)
         \/ \E life \in Lifetime : IssueAccessToken(c, life)
    \/ TimePasses

TokensSpec == TokensInit /\ [][TokensNext]_tokenVars

-----------------------------------------------------------------------------
(* Properties. *)

\* A call presents a token after its end only if the reply that brought it took as long
\* as the safety margin, and no token is asked for while a good one is at hand, however
\* many calls find the cache empty at once.
TokensHonest ==
    /\ ~wasted
    /\ \A c \in Borrower :
         toolCall[c].at = "presents" => (toolCall[c].over => toolCall[c].slow)

\* What makes it inductive: a cached token whose reply was not slow lives at least as
\* long as the runtime keeps it.
MarginKept == cachedToken.slow \/ cachedToken.life >= cachedToken.kept

TokensIInv == TokensTypeOK /\ TokensHonest /\ MarginKept
=============================================================================
