---------------------------- MODULE ActivePolicy ----------------------------
(***************************************************************************)
(* What the rule-pack management promises those who evaluate incidents,    *)
(* without sessions, locks or columns: every name in service has one       *)
(* version serving, and a single step takes the service from one version   *)
(* to another (ActivateRulePackUseCase: "already does this atomically",    *)
(* rule_pack_lifecycle.py:180).                                            *)
(***************************************************************************)
CONSTANTS
    Version,    \* versions of policies
    Name,       \* names of policies
    InService   \* the names that are in service from the start

VARIABLE policy \* policy[v]: the name and the stage of version v

\* A version that is not stored, in preparation, serving, replaced, deleted.
Stage == {"unknown", "waiting", "serving", "retired", "withdrawn"}

Serving(n) == {v \in Version : policy[v].name = n /\ policy[v].stage = "serving"}

Init ==
    /\ policy \in [Version -> [name : Name, stage : Stage]]
    /\ \A n \in InService : \E v \in Version : Serving(n) = {v}

\* v takes over from u.
HandOver(u, v) ==
    /\ policy[u].stage = "serving"
    /\ policy[v].stage \notin {"unknown", "serving"}
    /\ policy[u].name = policy[v].name
    /\ policy' = [policy EXCEPT ![u].stage = "retired", ![v].stage = "serving"]

\* v is put in service under a name that was not in service from the start,
\* and some that serve under it are retired: such names are promised nothing.
PutInService(v) ==
    /\ policy[v].name \notin InService /\ policy[v].stage # "unknown"
    /\ \E retired \in SUBSET (Serving(policy[v].name) \ {v}) :
         policy' = [w \in Version |->
                      IF w = v THEN [policy[w] EXCEPT !.stage = "serving"]
                      ELSE IF w \in retired THEN [policy[w] EXCEPT !.stage = "retired"]
                      ELSE policy[w]]

\* A version that does not serve is deleted.
Withdraw(v) ==
    /\ policy[v].stage \in {"waiting", "retired"}
    /\ policy' = [policy EXCEPT ![v].stage = "withdrawn"]

\* A version in preparation is given another name.
Rename(v, n) ==
    /\ policy[v].stage = "waiting"
    /\ policy' = [policy EXCEPT ![v].name = n]

Next == \/ \E u, v \in Version : HandOver(u, v)
        \/ \E v \in Version : Withdraw(v) \/ PutInService(v)
        \/ \E v \in Version, n \in Name : Rename(v, n)

Spec == Init /\ [][Next]_policy
=============================================================================
