---------------------------- MODULE LimitedLedger ----------------------------
(***************************************************************************)
(* What a witness ledger promises: the ReleaseLedger trait of              *)
(* crates/rebyte-chain/src/release.rs, with the state of its in-memory     *)
(* implementation, one list of request ids per contract and proposal.      *)
(* The position of a request in its list is its ordinal.                   *)
(***************************************************************************)
EXTENDS Naturals, Sequences

CONSTANTS
  Requests,   \* release request ids
  Scopes,     \* contract and proposal pairs
  ScopeOf,    \* ScopeOf[r]: the scope the request is bound to
  Limit,      \* Limit[s]: maximum_successful_releases
  NoLimit     \* the contract sets no maximum

LedgerConstants ==
  /\ ScopeOf \in [Requests -> Scopes]
  /\ Limit \in [Scopes -> Nat \cup {NoLimit}]

VARIABLES
  requests,   \* requests[s]: the authorized requests of scope s, oldest first
  granted     \* <<r, n>>: a grant for r with ordinal n was handed out

ledgerVars == <<requests, granted>>

Authorized(r) == \E n \in 1..Len(requests[ScopeOf[r]]) : requests[ScopeOf[r]][n] = r

WithinLimit(s) == Limit[s] = NoLimit \/ Len(requests[s]) < Limit[s]

Init ==
  /\ requests = [s \in Scopes |-> <<>>]
  /\ granted = {}

\* A fresh request takes the next ordinal of its scope.
Record(r) ==
  /\ ~Authorized(r)
  /\ WithinLimit(ScopeOf[r])
  /\ requests' = [requests EXCEPT ![ScopeOf[r]] = Append(@, r)]
  /\ UNCHANGED granted

\* An authorization nobody was told of may be undone, the newest first.
Undo(r) ==
  LET s == ScopeOf[r]  n == Len(requests[s]) IN
  /\ n > 0 /\ requests[s][n] = r
  /\ <<r, n>> \notin granted
  /\ requests' = [requests EXCEPT ![s] = SubSeq(@, 1, n - 1)]
  /\ UNCHANGED granted

\* The grant of an authorized request, however often it is asked for.
Hand(r) ==
  /\ \E n \in 1..Len(requests[ScopeOf[r]]) :
       /\ requests[ScopeOf[r]][n] = r
       /\ granted' = granted \cup {<<r, n>>}
  /\ UNCHANGED requests

Next == \E r \in Requests : Record(r) \/ Undo(r) \/ Hand(r)

Spec == Init /\ [][Next]_ledgerVars

\* The grants a witness has handed out agree with each other: one ordinal per
\* request, one request per ordinal of a scope, none above the maximum.
GrantsAgree ==
  \A g, h \in granted :
    /\ g[1] = h[1] => g[2] = h[2]
    /\ ScopeOf[g[1]] = ScopeOf[h[1]] /\ g[2] = h[2] => g[1] = h[1]
    /\ Limit[ScopeOf[g[1]]] = NoLimit \/ g[2] <= Limit[ScopeOf[g[1]]]

=============================================================================
