---- MODULE KeyRegistry ----
(***************************************************************************)
(* What manage_keys promises: a registry with at most one key per client,   *)
(* in which create installs a new key and revoke disables the current one,  *)
(* each in a single step, and only installed keys are shown.                *)
(***************************************************************************)
CONSTANTS Clients, Keys, NoKey

VARIABLES key, active, issued, shown

vars == <<key, active, issued, shown>>

Init ==
    /\ key = [c \in Clients |-> NoKey]
    /\ active = [c \in Clients |-> FALSE]
    /\ issued = {}
    /\ shown = {}

\* "If a key already exists for this client, the old key is revoked first."
Create(c) ==
    \E k \in Keys \ issued :
        /\ key' = [key EXCEPT ![c] = k]
        /\ active' = [active EXCEPT ![c] = TRUE]
        /\ issued' = issued \cup {k}
        /\ UNCHANGED shown

Revoke(c) ==
    /\ key[c] # NoKey
    /\ active' = [active EXCEPT ![c] = FALSE]
    /\ UNCHANGED <<key, issued, shown>>

Show(k) ==
    /\ k \in issued
    /\ shown' = shown \cup {k}
    /\ UNCHANGED <<key, active, issued>>

Next ==
    \/ \E c \in Clients : Create(c) \/ Revoke(c)
    \/ \E k \in Keys : Show(k)

Spec == Init /\ [][Next]_vars
====
