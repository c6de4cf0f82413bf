------------------------ MODULE MCRulePackLifecycle ------------------------
(***************************************************************************)
(* Instances of RulePackLifecycle for TLC.                                 *)
(***************************************************************************)
EXTENDS LifecycleRefinement, TLC

CONSTANTS r1, r2, r3

HandlersAlike == Permutations(Handler)

AllOk == [c \in RuleCode |-> "ok"]

EmptyTable == [i \in RowId |-> Blank]

\* Version v of the first name, at a given point of its lifecycle.
PackRow(v, status, lock, parent) ==
    [Blank EXCEPT !.version = v, !.status = status, !.lock = lock,
                  !.parent = parent, !.rules = AllOk,
                  !.deleted = (status = "archived")]

\* The table right after the first deployment has seeded it.
SeededTable == [EmptyTable EXCEPT ![r1] = PackRow(SeedVersion, "active", 2, NoRow)]

\* A version in service, one ready to replace it, one still being edited or
\* one it has replaced.
InServiceTable(s3, lock3) ==
    [EmptyTable EXCEPT ![r1] = PackRow(1, "active", 2, NoRow),
                       ![r2] = PackRow(2, "published", 2, r1),
                       ![r3] = PackRow(3, s3, lock3, r2)]

Empty == {EmptyTable}
Seeded == {SeededTable}
InService == {InServiceTable("draft", 1), InServiceTable("archived", 2)}
=============================================================================
