------------------------------- MODULE MCJobs -------------------------------
(***************************************************************************)
(* Instances of Jobs for TLC.                                              *)
(***************************************************************************)
EXTENDS Jobs

CONSTANTS a, b

For(n, unit) == [n |-> n, unit |-> unit]
Made(priority, target) == [priority |-> priority, target |-> target]

\* One decision with a target of an hour, of a band or of none, and one with
\* a target that is no duration.
Verdicts == [i \in {a, b} |->
    IF i = a THEN {Made("Low", For(1, "hours")), Made("other", For(1, "hours"))}
    ELSE {Made("Low", Unreadable)}]
=============================================================================
