------------------------ MODULE LifecycleRefinement ------------------------
(***************************************************************************)
(* The management API implements ActivePolicy, for the operations that go  *)
(* through activate() or take an expectedLockVersion, from clients that    *)
(* send it and activate versions the hot path can see.                     *)
(***************************************************************************)
EXTENDS RulePackLifecycle

\* The stage a row stands for.  Only a row the hot path finds serves: one that
\* is active and not visible to it is as good as withdrawn.
StageOf(r) ==
    CASE r.status = "absent"                  -> "unknown"
      [] r.status \in {"draft", "published"}  -> "waiting"
      [] r.status = "active"                  -> IF Visible(r) THEN "serving" ELSE "withdrawn"
      [] r.status = "deprecated"              -> "retired"
      [] r.status = "archived"                -> "withdrawn"

Policy == INSTANCE ActivePolicy
            WITH Version <- RowId,
                 InService <- Established,
                 policy <- [i \in RowId |-> [name |-> rows[i].name,
                                             stage |-> StageOf(rows[i])]]

\* Handlers that run the use cases and the repository's statements in any
\* interleaving hand the service over from one version to another in one
\* step, the commit of activate(), and never change anything else of a
\* version that serves.
HandsOverAtomically == Policy!Spec
=============================================================================
