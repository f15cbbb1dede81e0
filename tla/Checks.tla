------------------------------- MODULE Checks -------------------------------
(***************************************************************************)
(* How the crate decides: a list of checks, each of which may return an    *)
(* error early. A check is a pair <<passed, error>>.                       *)
(***************************************************************************)
EXTENDS Integers, Sequences

CONSTANT Absent  \* Option::None

\* The error of the first check that fails, or "none".
FirstError(checks) ==
    LET failed == {i \in DOMAIN checks : ~checks[i][1]}
    IN  IF failed = {} THEN "none"
        ELSE checks[CHOOSE i \in failed : \A j \in failed : i <= j][2]

\* The first error of two stages, the second of which is only run after the
\* first has passed.
OrElse(e, f) == IF e # "none" THEN e ELSE f
=============================================================================
