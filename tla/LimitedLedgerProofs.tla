------------------------- MODULE LimitedLedgerProofs -------------------------
(***************************************************************************)
(* What every implementation of the ReleaseLedger trait may rely on, for   *)
(* any set of requests, scopes and maximums.  FileLedgerProofs shows that   *)
(* FileLedger implements LimitedLedger.                                    *)
(***************************************************************************)
EXTENDS LimitedLedger, TLAPS

LedgerType ==
  /\ requests \in [Scopes -> Seq(Requests)]
  /\ granted \subseteq Requests \X (Nat \ {0})

\* A request has one ordinal.
OneOrdinal ==
  \A s \in Scopes : \A i, j \in 1..Len(requests[s]) :
    requests[s][i] = requests[s][j] => i = j

\* No scope exceeds its maximum.
ScopesWithinLimit ==
  \A s \in Scopes : Limit[s] # NoLimit => Len(requests[s]) <= Limit[s]

\* What was handed out is on record.
GrantedOnRecord ==
  \A g \in granted :
    /\ g[2] \in 1..Len(requests[ScopeOf[g[1]]])
    /\ requests[ScopeOf[g[1]]][g[2]] = g[1]

\* The inductive invariant.
LedgerInv == LedgerType /\ OneOrdinal /\ ScopesWithinLimit /\ GrantedOnRecord

\* A fresh request is appended to its scope.
LEMMA RecordStep ==
  ASSUME LedgerConstants, LedgerInv, NEW r \in Requests, Record(r)
  PROVE  LedgerInv'
<1> DEFINE s == ScopeOf[r]
           n == Len(requests[s]) + 1
<1>1. /\ s \in Scopes /\ requests[s] \in Seq(Requests) /\ Len(requests[s]) \in Nat
      /\ requests' = [requests EXCEPT ![s] = Append(@, r)] /\ granted' = granted
  BY DEF LedgerConstants, LedgerInv, LedgerType, Record
<1>2. /\ requests' \in [Scopes -> Seq(Requests)]
      /\ Len(requests'[s]) = n /\ requests'[s][n] = r
      /\ \A k \in 1..Len(requests[s]) : requests'[s][k] = requests[s][k]
      /\ \A t \in Scopes \ {s} : requests'[t] = requests[t]
  BY <1>1 DEF LedgerInv, LedgerType
<1>3. \A k \in 1..Len(requests[s]) : requests[s][k] # r
  BY DEF Record, Authorized
<1>4. WithinLimit(s)
  BY DEF Record
<1> HIDE DEF s
<1>5. LedgerType'
  BY <1>1, <1>2 DEF LedgerInv, LedgerType
<1>6. OneOrdinal'
  <2> SUFFICES ASSUME NEW t \in Scopes, NEW i \in 1..Len(requests'[t]),
                      NEW j \in 1..Len(requests'[t]), requests'[t][i] = requests'[t][j]
               PROVE  i = j
    BY DEF OneOrdinal
  <2>1. CASE t # s
    BY <2>1, <1>2 DEF LedgerInv, OneOrdinal
  <2>2. CASE t = s
    <3>1. i \in 1..n /\ j \in 1..n
      BY <2>2, <1>2
    <3>2. CASE i \in 1..Len(requests[s]) /\ j \in 1..Len(requests[s])
      BY <2>2, <3>2, <1>1, <1>2 DEF LedgerInv, OneOrdinal
    <3>3. CASE i = n \/ j = n
      BY <2>2, <3>1, <3>3, <1>1, <1>2, <1>3
    <3> QED  BY <3>1, <3>2, <3>3, <1>1
  <2> QED  BY <2>1, <2>2
<1>7. ScopesWithinLimit'
  <2> SUFFICES ASSUME NEW t \in Scopes, Limit[t] # NoLimit
               PROVE  Len(requests'[t]) <= Limit[t]
    BY DEF ScopesWithinLimit
  <2>1. CASE t # s
    BY <2>1, <1>2 DEF LedgerInv, ScopesWithinLimit
  <2>2. CASE t = s
    <3>1. Limit[s] \in Nat
      BY <1>1, <2>2 DEF LedgerConstants
    <3> QED  BY <2>2, <3>1, <1>1, <1>2, <1>4 DEF WithinLimit
  <2> QED  BY <2>1, <2>2
<1>8. GrantedOnRecord'
  <2> SUFFICES ASSUME NEW g \in granted
               PROVE  /\ g[2] \in 1..Len(requests'[ScopeOf[g[1]]])
                      /\ requests'[ScopeOf[g[1]]][g[2]] = g[1]
    BY <1>1 DEF GrantedOnRecord
  <2>1. ScopeOf[g[1]] \in Scopes /\ g[2] \in Nat
    BY DEF LedgerConstants, LedgerInv, LedgerType
  <2>2. /\ g[2] \in 1..Len(requests[ScopeOf[g[1]]])
        /\ requests[ScopeOf[g[1]]][g[2]] = g[1]
    BY DEF LedgerInv, GrantedOnRecord
  <2> QED  BY <1>1, <1>2, <2>1, <2>2
<1> QED  BY <1>5, <1>6, <1>7, <1>8 DEF LedgerInv

\* Undoing removes the last entry of a scope, for which no grant is out.
LEMMA UndoStep ==
  ASSUME LedgerConstants, LedgerInv, NEW r \in Requests, Undo(r)
  PROVE  LedgerInv'
<1> DEFINE s == ScopeOf[r]
           n == Len(requests[s])
<1>1. /\ s \in Scopes /\ requests[s] \in Seq(Requests) /\ n \in Nat
      /\ n > 0 /\ requests[s][n] = r /\ <<r, n>> \notin granted
      /\ requests' = [requests EXCEPT ![s] = SubSeq(@, 1, n - 1)] /\ granted' = granted
  BY DEF LedgerConstants, LedgerInv, LedgerType, Undo
<1>2. /\ requests' \in [Scopes -> Seq(Requests)]
      /\ Len(requests'[s]) = n - 1
      /\ \A k \in 1..(n - 1) : requests'[s][k] = requests[s][k]
      /\ \A t \in Scopes \ {s} : requests'[t] = requests[t]
  <2>1. /\ SubSeq(requests[s], 1, n - 1) \in Seq(Requests)
        /\ Len(SubSeq(requests[s], 1, n - 1)) = n - 1
        /\ \A k \in 1..(n - 1) : SubSeq(requests[s], 1, n - 1)[k] = requests[s][k]
    BY <1>1
  <2> QED  BY <1>1, <2>1 DEF LedgerInv, LedgerType
<1> HIDE DEF s
<1>3. LedgerType'
  BY <1>1, <1>2 DEF LedgerInv, LedgerType
<1>4. OneOrdinal'
  <2> SUFFICES ASSUME NEW t \in Scopes, NEW i \in 1..Len(requests'[t]),
                      NEW j \in 1..Len(requests'[t]), requests'[t][i] = requests'[t][j]
               PROVE  i = j
    BY DEF OneOrdinal
  <2>1. CASE t # s
    BY <2>1, <1>2 DEF LedgerInv, OneOrdinal
  <2>2. CASE t = s
    BY <2>2, <1>1, <1>2 DEF LedgerInv, OneOrdinal
  <2> QED  BY <2>1, <2>2
<1>5. ScopesWithinLimit'
  <2> SUFFICES ASSUME NEW t \in Scopes, Limit[t] # NoLimit
               PROVE  Len(requests'[t]) <= Limit[t]
    BY DEF ScopesWithinLimit
  <2>1. Len(requests[t]) <= Limit[t] /\ Limit[t] \in Nat
    BY DEF LedgerConstants, LedgerInv, ScopesWithinLimit
  <2> QED  BY <2>1, <1>1, <1>2
<1>6. GrantedOnRecord'
  <2> SUFFICES ASSUME NEW g \in granted
               PROVE  /\ g[2] \in 1..Len(requests'[ScopeOf[g[1]]])
                      /\ requests'[ScopeOf[g[1]]][g[2]] = g[1]
    BY <1>1 DEF GrantedOnRecord
  <2>1. ScopeOf[g[1]] \in Scopes /\ g[2] \in Nat /\ g = <<g[1], g[2]>>
    BY DEF LedgerConstants, LedgerInv, LedgerType
  <2>2. /\ g[2] \in 1..Len(requests[ScopeOf[g[1]]])
        /\ requests[ScopeOf[g[1]]][g[2]] = g[1]
    BY DEF LedgerInv, GrantedOnRecord
  <2>3. CASE ScopeOf[g[1]] # s
    BY <1>2, <2>1, <2>2, <2>3
  <2>4. CASE ScopeOf[g[1]] = s
    <3>1. g[2] # n
      BY <1>1, <2>1, <2>2, <2>4
    <3> QED  BY <1>1, <1>2, <2>1, <2>2, <2>4, <3>1
  <2> QED  BY <2>3, <2>4
<1> QED  BY <1>3, <1>4, <1>5, <1>6 DEF LedgerInv

\* Handing out a grant names a recorded position.
LEMMA HandStep ==
  ASSUME LedgerConstants, LedgerInv, NEW r \in Requests, Hand(r)
  PROVE  LedgerInv'
<1>1. PICK n \in 1..Len(requests[ScopeOf[r]]) :
        requests[ScopeOf[r]][n] = r /\ granted' = granted \cup {<<r, n>>}
  BY DEF Hand
<1>2. requests' = requests /\ requests[ScopeOf[r]] \in Seq(Requests)
  BY DEF Hand, LedgerConstants, LedgerInv, LedgerType
<1>3. n \in Nat \ {0}
  BY <1>1, <1>2
<1>4. LedgerType'
  BY <1>1, <1>2, <1>3 DEF LedgerInv, LedgerType
<1>5. OneOrdinal' /\ ScopesWithinLimit'
  BY <1>2 DEF LedgerInv, OneOrdinal, ScopesWithinLimit
<1>6. GrantedOnRecord'
  BY <1>1, <1>2 DEF LedgerInv, GrantedOnRecord
<1> QED  BY <1>4, <1>5, <1>6 DEF LedgerInv

\* The grants of a ReleaseLedger agree: one ordinal per request, one request
\* per ordinal of a scope, none above the contract's maximum.
THEOREM TraitGrantsAgree ==
  ASSUME LedgerConstants
  PROVE  Spec => []GrantsAgree
<1>1. Init => LedgerInv
  <2> SUFFICES ASSUME Init PROVE LedgerInv
    OBVIOUS
  <2>1. LedgerType /\ OneOrdinal /\ GrantedOnRecord
    BY DEF Init, LedgerType, OneOrdinal, GrantedOnRecord
  <2>2. ScopesWithinLimit
    BY DEF Init, ScopesWithinLimit, LedgerConstants
  <2> QED  BY <2>1, <2>2 DEF LedgerInv
<1>2. LedgerInv /\ [Next]_ledgerVars => LedgerInv'
  <2> SUFFICES ASSUME LedgerInv, [Next]_ledgerVars PROVE LedgerInv'
    OBVIOUS
  <2>1. ASSUME NEW r \in Requests, Record(r) PROVE LedgerInv'
    BY <2>1, RecordStep
  <2>2. ASSUME NEW r \in Requests, Undo(r) PROVE LedgerInv'
    BY <2>2, UndoStep
  <2>3. ASSUME NEW r \in Requests, Hand(r) PROVE LedgerInv'
    BY <2>3, HandStep
  <2>4. CASE UNCHANGED ledgerVars
    BY <2>4 DEF ledgerVars, LedgerInv, LedgerType, OneOrdinal, ScopesWithinLimit, GrantedOnRecord
  <2> QED  BY <2>1, <2>2, <2>3, <2>4 DEF Next
<1>3. LedgerInv => GrantsAgree
  <2> SUFFICES ASSUME LedgerInv, NEW g \in granted, NEW h \in granted
               PROVE  /\ g[1] = h[1] => g[2] = h[2]
                      /\ ScopeOf[g[1]] = ScopeOf[h[1]] /\ g[2] = h[2] => g[1] = h[1]
                      /\ Limit[ScopeOf[g[1]]] = NoLimit \/ g[2] <= Limit[ScopeOf[g[1]]]
    BY DEF GrantsAgree
  <2> DEFINE s == ScopeOf[g[1]]
  <2>1. /\ g[2] \in 1..Len(requests[s]) /\ requests[s][g[2]] = g[1]
        /\ h[2] \in 1..Len(requests[ScopeOf[h[1]]])
        /\ requests[ScopeOf[h[1]]][h[2]] = h[1]
    BY DEF LedgerInv, GrantedOnRecord
  <2>2. s \in Scopes /\ Len(requests[s]) \in Nat /\ g[2] \in Nat
    BY DEF LedgerConstants, LedgerInv, LedgerType
  <2>3. g[1] = h[1] => g[2] = h[2]
    BY <2>1, <2>2 DEF LedgerInv, OneOrdinal
  <2>4. Limit[s] = NoLimit \/ g[2] <= Limit[s]
    <3> SUFFICES ASSUME Limit[s] # NoLimit PROVE g[2] <= Limit[s]
      OBVIOUS
    <3>1. Limit[s] \in Nat /\ Len(requests[s]) <= Limit[s]
      BY <2>2 DEF LedgerConstants, LedgerInv, ScopesWithinLimit
    <3> QED  BY <2>1, <2>2, <3>1
  <2> QED  BY <2>1, <2>3, <2>4
<1> QED  BY <1>1, <1>2, <1>3, PTL DEF Spec

=============================================================================
