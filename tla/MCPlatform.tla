----------------------------- MODULE MCPlatform -----------------------------
(***************************************************************************)
(* Components that share no state, in one run: a behaviour is about one of *)
(* them, chosen at the start, and the others rest in an initial state.     *)
(***************************************************************************)
EXTENDS MCToolContract, Access, Knowledge, Accounts, RuntimeCaches, TLC

VARIABLE part

platformVars == <<part, contractVars, allVars, knowledgeVars, accountVars, tokenVars, keyVars>>

\* Two embedding models with vectors of the same length.
Dimensions == <<3, 3>>

ContractRests == setup = CHOOSE p \in Project : TRUE
AccessRests == token = [t \in Token |-> "absent"]
KnowledgeRests == cached = Unresolved /\ prior = {}
AccountsRest == account = [u \in User |-> NoAccount]
KeysRest == published = [k \in Key |-> [on |-> TRUE, age |-> Lag + 1]]

PlatformInit ==
    /\ part \in {"contract", "access", "knowledge", "accounts", "tokens", "keys"}
    /\ part # "contract" => ContractRests
    /\ part # "access" => AccessRests
    /\ part # "knowledge" => KnowledgeRests
    /\ part # "accounts" => AccountsRest
    /\ part # "keys" => KeysRest
    /\ ContractInit
    /\ AccessInit
    /\ KnowledgeInit
    /\ AccountsInit
    /\ TokensInit
    /\ KeysInit

PlatformNext ==
    /\ UNCHANGED part
    /\ \/ /\ part = "contract"
          /\ ContractNext
          /\ UNCHANGED <<allVars, knowledgeVars, accountVars, tokenVars, keyVars>>
       \/ /\ part = "access"
          /\ AccessNext
          /\ UNCHANGED <<contractVars, knowledgeVars, accountVars, tokenVars, keyVars>>
       \/ /\ part = "knowledge"
          /\ KnowledgeNext
          /\ UNCHANGED <<contractVars, allVars, accountVars, tokenVars, keyVars>>
       \/ /\ part = "accounts"
          /\ AccountsNext
          /\ UNCHANGED <<contractVars, allVars, knowledgeVars, tokenVars, keyVars>>
       \/ /\ part = "tokens"
          /\ TokensNext
          /\ UNCHANGED <<contractVars, allVars, knowledgeVars, accountVars, keyVars>>
       \/ /\ part = "keys"
          /\ KeysNext
          /\ UNCHANGED <<contractVars, allVars, knowledgeVars, accountVars, tokenVars>>

PlatformSpec == PlatformInit /\ [][PlatformNext]_platformVars

\* The sets of the components share their elements, so that few permutations serve all.
Symmetric == Permutations(Checker) \cup Permutations(Key)
=============================================================================
