----------------------------- MODULE Revocation -----------------------------
(***************************************************************************)
(* What the control plane promises about access that it takes back.        *)
(*                                                                         *)
(* An item is something a runtime honours: an access token, a version of a *)
(* secret, a revision of the access configuration.  It is withdrawn by an  *)
(* operation, some time later the operation is acknowledged as effective,  *)
(* and from then on no runtime honours the item again.  Before that any    *)
(* runtime may: a replacement may fail and give its predecessor back.      *)
(* Access implements this.                                                 *)
(***************************************************************************)
CONSTANT Item

VARIABLES
    withdrawn,        \* the items that were taken back
    acknowledged,     \* those whose withdrawal was shown as effective
    honoured          \* those that some runtime accepts or presents

vars == <<withdrawn, acknowledged, honoured>>

Init ==
    /\ withdrawn = {}
    /\ acknowledged = {}
    /\ honoured = {}

\* Only withdrawals are acknowledged, and only while no runtime honours the item.
Promise ==
    /\ acknowledged' \subseteq withdrawn'
    /\ acknowledged' \cap honoured' = {}

\* An operation takes items back; it may find that nothing has to be done.
Withdraw ==
    /\ withdrawn' \in SUBSET Item
    /\ withdrawn \subseteq withdrawn'
    /\ withdrawn # withdrawn'

\* Runtimes come and go, and operations that wait for them become effective.
Serve == UNCHANGED withdrawn

Next ==
    /\ Withdraw \/ Serve
    /\ honoured' \in SUBSET Item
    /\ acknowledged \subseteq acknowledged'
    /\ Promise

Spec == Init /\ [][Next]_vars
=============================================================================
