------------------------------- MODULE Checks -------------------------------
(***************************************************************************)
(* A validator of this code is a list of checks made in order, each ending *)
(* the function with its own error.  A check is <<it fails, the error>>.   *)
(***************************************************************************)
EXTENDS Naturals, Sequences

Passed == "passed"

\* The checks that fail, and the error of the first of them.
Failing(checks) == {i \in 1..Len(checks) : checks[i][1]}
FirstError(checks) ==
  IF Failing(checks) = {} THEN Passed
  ELSE checks[CHOOSE i \in Failing(checks) : \A j \in Failing(checks) : i <= j][2]

\* The first error of a sequence of results.
FirstOf(errors) == FirstError([i \in 1..Len(errors) |-> <<errors[i] # Passed, errors[i]>>])

\* The running sum of sizes, at its end.
Total(sizes) ==
  LET sum[i \in 0..Len(sizes)] == IF i = 0 THEN 0 ELSE sum[i - 1] + sizes[i] IN sum[Len(sizes)]

=============================================================================
