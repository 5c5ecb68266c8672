------------------------ MODULE SessionRotationProofs ------------------------
(***************************************************************************)
(* The safety of refresh-token rotation, for every number of users,        *)
(* requests, sessions and connections.                                     *)
(***************************************************************************)
EXTENDS SessionRotation, TLAPS

-----------------------------------------------------------------------------
(* The inductive invariant.                                                *)

\* What is known of the committed table.
TableInv ==
    /\ revoked \subseteq rows /\ roots \subseteq rows /\ delivered \subseteq rows
    /\ \A s \in rows : s < nextId /\ userOf[s] \in User
    /\ \A s \in SessionId : s \notin revoked => replacedBy[s] = Null

\* What a request knows at each program point.
RequestInv ==
    \A r \in Request :
      /\ pc[r] = "login" => who[r] \in User
      /\ pc[r] \in OwnsLock => token[r] \in rows
      /\ pc[r] \in {"revoking", "reused"} =>
           token[r] \in revoked /\ userOf[token[r]] \in accused
      /\ pc[r] = "saved" =>
           /\ token[r] \notin revoked
           /\ succ[r] \in SessionId \ rows
           /\ token[r] < succ[r] /\ succ[r] < nextId
      /\ pc[r] \in {"claims", "respond"} => succ[r] \in rows

\* What a running UPDATE knows.
StatementInv ==
    \A r \in Request :
      /\ held[r] \subseteq target[r] /\ target[r] \subseteq rows
      /\ ~running[r] => target[r] = {}
      /\ running[r] => pc[r] \in {"idle", "revoking"}
      /\ \A s, x \in target[r] : userOf[s] \in accused /\ userOf[s] = userOf[x]
      /\ pc[r] = "revoking" /\ running[r] =>
           \A s \in rows \ revoked :
             userOf[s] = userOf[token[r]] => s \in target[r] \cup late[r]

\* Row locks exclude each other.
LockInv ==
    /\ \A r, q \in Request : r # q /\ pc[r] \in OwnsLock /\ pc[q] \in OwnsLock
                               => token[r] # token[q]
    /\ \A r, q \in Request : pc[r] \in OwnsLock => token[r] \notin held[q]
    /\ \A r, q \in Request : r # q /\ pc[r] = "saved" /\ pc[q] = "saved"
                               => succ[r] # succ[q]

IInv == TypeOK /\ TableInv /\ RequestInv /\ StatementInv /\ LockInv
          /\ ChainsAreLinear /\ ReuseLeavesOnlyLate /\ NoSelfDeadlock
          /\ OnlyReuseEndsAChain

-----------------------------------------------------------------------------
\* The invariant holds of the empty table with no request in flight.
LEMMA InitIInv == Init => IInv
  BY BoundsAssumption DEF Init, IInv, TypeOK, TableInv, RequestInv, StatementInv, LockInv,
     ChainsAreLinear, ReuseLeavesOnlyLate, NoSelfDeadlock, OnlyReuseEndsAChain, SessionId,
     Null, InTransaction, OwnsLock

\* Every step of a request, an UPDATE or the environment preserves it.
LEMMA NextIInv == IInv /\ [Next]_vars => IInv'
<1> SUFFICES ASSUME IInv, [Next]_vars PROVE IInv'
  OBVIOUS
<1> USE BoundsAssumption DEF IInv, SessionId, Null, InTransaction, OwnsLock,
        Goto, End, table, statement, locals, building, history, NewRevokedAt
<1>1. ASSUME NEW r \in Request, NEW u \in User, StartLogin(r, u)
      PROVE IInv'
  BY <1>1 DEF StartLogin, TypeOK, TableInv, RequestInv, StatementInv, LockInv,
     ChainsAreLinear, ReuseLeavesOnlyLate, NoSelfDeadlock, OnlyReuseEndsAChain
<1>2. ASSUME NEW r \in Request, NEW t \in delivered \cup {Null}, StartRefresh(r, t)
      PROVE IInv'
  BY <1>2 DEF StartRefresh, TypeOK, TableInv, RequestInv, StatementInv, LockInv,
     ChainsAreLinear, ReuseLeavesOnlyLate, NoSelfDeadlock, OnlyReuseEndsAChain
<1>3. ASSUME NEW r \in Request, SaveChainRoot(r)
      PROVE IInv'
  <2>1. TableInv'
    BY <1>3 DEF SaveChainRoot, BuildSession, CommitLate, TypeOK, TableInv, RequestInv
  <2>2. RequestInv'
    BY <1>3 DEF SaveChainRoot, BuildSession, CommitLate, TypeOK, TableInv, RequestInv
  <2>3. StatementInv'
    BY <1>3 DEF SaveChainRoot, BuildSession, CommitLate, TypeOK, TableInv, RequestInv,
                StatementInv
  <2>4. ChainsAreLinear'
    BY <1>3 DEF SaveChainRoot, BuildSession, CommitLate, TypeOK, TableInv, RequestInv,
       ChainsAreLinear
  <2>5. ReuseLeavesOnlyLate'
    BY <1>3 DEF SaveChainRoot, BuildSession, CommitLate, TypeOK, TableInv, RequestInv,
       ReuseLeavesOnlyLate
  <2>6. OnlyReuseEndsAChain'
    BY <1>3 DEF SaveChainRoot, BuildSession, CommitLate, TypeOK, TableInv, RequestInv,
       OnlyReuseEndsAChain
  <2>7. TypeOK' /\ LockInv' /\ NoSelfDeadlock'
    BY <1>3 DEF SaveChainRoot, BuildSession, CommitLate, TypeOK, LockInv, NoSelfDeadlock
  <2> QED
    BY <2>1, <2>2, <2>3, <2>4, <2>5, <2>6, <2>7
<1>4. ASSUME NEW r \in Request, BeginTransaction(r)
      PROVE IInv'
  BY <1>4 DEF BeginTransaction, TypeOK, TableInv, RequestInv, StatementInv, LockInv,
     ChainsAreLinear, ReuseLeavesOnlyLate, NoSelfDeadlock, OnlyReuseEndsAChain
<1>5. ASSUME NEW r \in Request, RejectUnknown(r)
      PROVE IInv'
  BY <1>5 DEF RejectUnknown, TypeOK, TableInv, RequestInv, StatementInv, LockInv,
     ChainsAreLinear, ReuseLeavesOnlyLate, NoSelfDeadlock, OnlyReuseEndsAChain
<1>6. ASSUME NEW r \in Request, LockByRefreshTokenHash(r)
      PROVE IInv'
  BY <1>6 DEF LockByRefreshTokenHash, FreeForTx, Locks, TypeOK, TableInv, RequestInv,
     StatementInv, LockInv, ChainsAreLinear, ReuseLeavesOnlyLate, NoSelfDeadlock,
     OnlyReuseEndsAChain
<1>7. ASSUME NEW r \in Request, DetectReuse(r)
      PROVE IInv'
  <2>1. TypeOK'
    BY <1>7 DEF DetectReuse, IsRevoked, LoadedRevokedAt, TypeOK, TableInv, RequestInv
  <2>2. NoSelfDeadlock'
    BY <1>7 DEF DetectReuse, IsRevoked, TypeOK, TableInv, RequestInv, StatementInv,
       LockInv, NoSelfDeadlock
  <2>3. TableInv' /\ RequestInv' /\ StatementInv' /\ LockInv' /\ ChainsAreLinear'
          /\ ReuseLeavesOnlyLate' /\ OnlyReuseEndsAChain'
    BY <1>7 DEF DetectReuse, IsRevoked, TypeOK, TableInv, RequestInv, StatementInv,
       LockInv, ChainsAreLinear, ReuseLeavesOnlyLate, OnlyReuseEndsAChain
  <2> QED
    BY <2>1, <2>2, <2>3
<1>8. ASSUME NEW r \in Request, RejectExpired(r)
      PROVE IInv'
  BY <1>8 DEF RejectExpired, IsRevoked, LoadedRevokedAt, TypeOK, TableInv, RequestInv,
     StatementInv, LockInv, ChainsAreLinear, ReuseLeavesOnlyLate, NoSelfDeadlock, OnlyReuseEndsAChain
<1>9. ASSUME NEW r \in Request, SaveRotation(r)
      PROVE IInv'
  <2>1. RequestInv'
    BY <1>9 DEF SaveRotation, BuildSession, IsRevoked, TypeOK, TableInv, RequestInv
  <2>2. LockInv'
    BY <1>9 DEF SaveRotation, BuildSession, IsRevoked, TypeOK, TableInv, RequestInv, LockInv
  <2>3. TypeOK'
    BY <1>9 DEF SaveRotation, BuildSession, TypeOK
  <2>4. TableInv' /\ StatementInv' /\ ChainsAreLinear' /\ ReuseLeavesOnlyLate'
          /\ NoSelfDeadlock' /\ OnlyReuseEndsAChain'
    BY <1>9 DEF SaveRotation, BuildSession, TypeOK, TableInv, StatementInv,
       ChainsAreLinear, ReuseLeavesOnlyLate, NoSelfDeadlock, OnlyReuseEndsAChain
  <2> QED
    BY <2>1, <2>2, <2>3, <2>4
<1>10. ASSUME NEW r \in Request, CommitRotation(r)
      PROVE IInv'
  <2>1. TypeOK'
    BY <1>10 DEF CommitRotation, CommitLate, TypeOK, TableInv, RequestInv
  <2>2. TableInv'
    BY <1>10 DEF CommitRotation, CommitLate, TypeOK, TableInv, RequestInv
  <2>3. RequestInv'
    BY <1>10 DEF CommitRotation, CommitLate, TypeOK, TableInv, RequestInv,
       StatementInv, LockInv
  <2>4. StatementInv'
    BY <1>10 DEF CommitRotation, CommitLate, TypeOK, TableInv, RequestInv,
       StatementInv
  <2>5. ChainsAreLinear'
    BY <1>10 DEF CommitRotation, CommitLate, TypeOK, TableInv, RequestInv,
       ChainsAreLinear
  <2>6. ReuseLeavesOnlyLate'
    BY <1>10 DEF CommitRotation, CommitLate, TypeOK, TableInv, RequestInv,
       ReuseLeavesOnlyLate
  <2>7. OnlyReuseEndsAChain'
    BY <1>10 DEF CommitRotation, CommitLate, TypeOK, TableInv, RequestInv,
       OnlyReuseEndsAChain
  <2>8. LockInv' /\ NoSelfDeadlock'
    BY <1>10 DEF CommitRotation, CommitLate, TypeOK, LockInv, NoSelfDeadlock
  <2> QED
    BY <2>1, <2>2, <2>3, <2>4, <2>5, <2>6, <2>7, <2>8
<1>11. ASSUME NEW r \in Request, ReadClaims(r)
      PROVE IInv'
  BY <1>11 DEF ReadClaims, TypeOK, TableInv, RequestInv, StatementInv, LockInv,
     ChainsAreLinear, ReuseLeavesOnlyLate, NoSelfDeadlock, OnlyReuseEndsAChain
<1>12. ASSUME NEW r \in Request, Respond(r)
      PROVE IInv'
  <2>1. TypeOK'
    BY <1>12 DEF Respond, TypeOK, TableInv, RequestInv
  <2>2. TableInv'
    BY <1>12 DEF Respond, TypeOK, TableInv, RequestInv
  <2>3. RequestInv' /\ StatementInv' /\ LockInv' /\ ChainsAreLinear'
          /\ ReuseLeavesOnlyLate' /\ NoSelfDeadlock' /\ OnlyReuseEndsAChain'
    BY <1>12 DEF Respond, TypeOK, RequestInv, StatementInv, LockInv, ChainsAreLinear,
       ReuseLeavesOnlyLate, NoSelfDeadlock, OnlyReuseEndsAChain
  <2> QED
    BY <2>1, <2>2, <2>3
<1>13. ASSUME NEW r \in Request, BeginRevokeAll(r)
      PROVE IInv'
  <2>1. StatementInv'
    BY <1>13 DEF BeginRevokeAll, MatchesRevokeAll, IsRevoked, TypeOK, TableInv,
       RequestInv, StatementInv
  <2>2. NoSelfDeadlock'
    BY <1>13 DEF BeginRevokeAll, MatchesRevokeAll, IsRevoked, TypeOK, TableInv,
       RequestInv, NoSelfDeadlock
  <2>3. TypeOK' /\ TableInv' /\ RequestInv' /\ LockInv' /\ ChainsAreLinear'
          /\ ReuseLeavesOnlyLate' /\ OnlyReuseEndsAChain'
    BY <1>13 DEF BeginRevokeAll, MatchesRevokeAll, IsRevoked, TypeOK, TableInv,
       RequestInv, LockInv, ChainsAreLinear, ReuseLeavesOnlyLate, OnlyReuseEndsAChain
  <2> QED
    BY <2>1, <2>2, <2>3
<1>14. ASSUME NEW r \in Request, RevokeRow(r)
      PROVE IInv'
  BY <1>14 DEF RevokeRow, NextRow, FreeForStatement, Locks, TypeOK, TableInv,
     RequestInv, StatementInv, LockInv, ChainsAreLinear, ReuseLeavesOnlyLate,
     NoSelfDeadlock, OnlyReuseEndsAChain
<1>15. ASSUME NEW r \in Request, CommitRevokeAll(r)
      PROVE IInv'
  <2>1. TableInv'
    BY <1>15 DEF CommitRevokeAll, TypeOK, TableInv, RequestInv, StatementInv, LockInv
  <2>2. RequestInv'
    BY <1>15 DEF CommitRevokeAll, TypeOK, TableInv, RequestInv, StatementInv, LockInv
  <2>3. ReuseLeavesOnlyLate'
    BY <1>15 DEF CommitRevokeAll, TypeOK, TableInv, RequestInv, StatementInv, LockInv,
       ReuseLeavesOnlyLate
  <2>4. OnlyReuseEndsAChain'
    BY <1>15 DEF CommitRevokeAll, TypeOK, TableInv, RequestInv, StatementInv, LockInv,
       OnlyReuseEndsAChain
  <2>5. TypeOK'
    BY <1>15 DEF CommitRevokeAll, TypeOK
  <2>6. StatementInv'
    BY <1>15 DEF CommitRevokeAll, TypeOK, StatementInv
  <2>7. LockInv'
    BY <1>15 DEF CommitRevokeAll, TypeOK, LockInv
  <2>8. ChainsAreLinear'
    BY <1>15 DEF CommitRevokeAll, TypeOK, ChainsAreLinear
  <2>9. NoSelfDeadlock'
    BY <1>15 DEF CommitRevokeAll, TypeOK, NoSelfDeadlock
  <2> QED
    BY <2>1, <2>2, <2>3, <2>4, <2>5, <2>6, <2>7, <2>8, <2>9
<1>16. ASSUME NEW r \in Request, RejectReuse(r)
      PROVE IInv'
  BY <1>16 DEF RejectReuse, TypeOK, TableInv, RequestInv, StatementInv, LockInv,
     ChainsAreLinear, ReuseLeavesOnlyLate, NoSelfDeadlock, OnlyReuseEndsAChain
<1>17. ASSUME NEW r \in Request, Crash(r)
      PROVE IInv'
  <2>1. TypeOK'
    BY <1>17 DEF Crash, TypeOK
  <2>2. TableInv'
    BY <1>17 DEF Crash, TypeOK, TableInv
  <2>3. RequestInv'
    BY <1>17 DEF Crash, TypeOK, RequestInv
  <2>4. StatementInv'
    BY <1>17 DEF Crash, TypeOK, StatementInv
  <2>5. LockInv'
    BY <1>17 DEF Crash, TypeOK, LockInv
  <2>6. ChainsAreLinear'
    BY <1>17 DEF Crash, TypeOK, ChainsAreLinear
  <2>7. ReuseLeavesOnlyLate'
    BY <1>17 DEF Crash, TypeOK, ReuseLeavesOnlyLate
  <2>8. NoSelfDeadlock'
    BY <1>17 DEF Crash, TypeOK, NoSelfDeadlock
  <2>9. OnlyReuseEndsAChain'
    BY <1>17 DEF Crash, TypeOK, OnlyReuseEndsAChain
  <2> QED
    BY <2>1, <2>2, <2>3, <2>4, <2>5, <2>6, <2>7, <2>8, <2>9
<1>18. ASSUME NEW s \in SessionId, Expire(s)
      PROVE IInv'
  <2>1. TypeOK'
    BY <1>18 DEF Expire, TypeOK
  <2>2. TableInv' /\ RequestInv' /\ StatementInv' /\ LockInv' /\ ChainsAreLinear'
          /\ ReuseLeavesOnlyLate' /\ NoSelfDeadlock' /\ OnlyReuseEndsAChain'
    BY <1>18 DEF Expire, TableInv, RequestInv, StatementInv, LockInv, ChainsAreLinear,
       ReuseLeavesOnlyLate, NoSelfDeadlock, OnlyReuseEndsAChain
  <2> QED
    BY <2>1, <2>2
<1>19. CASE UNCHANGED vars
  BY <1>19 DEF vars, TypeOK, TableInv, RequestInv, StatementInv, LockInv,
     ChainsAreLinear, ReuseLeavesOnlyLate, NoSelfDeadlock, OnlyReuseEndsAChain
<1> QED
  BY <1>1, <1>2, <1>3, <1>4, <1>5, <1>6, <1>7, <1>8, <1>9, <1>10, <1>11, <1>12, <1>13,
     <1>14, <1>15, <1>16, <1>17, <1>18, <1>19
  DEF Next, RequestStep, StatementStep

\* The inductive invariant holds in every reachable state.
THEOREM Invariance == Spec => []IInv
  BY InitIInv, NextIInv, PTL DEF Spec

-----------------------------------------------------------------------------
\* Every variable keeps its type; in particular no request allocates, locks or
\* links a session id outside the table's range.
THEOREM TypeCorrect == Spec => []TypeOK
  BY Invariance, PTL DEF IInv

\* Sessions form linear chains: concurrent refreshes with one token never both
\* create a successor, for any number of requests.
THEOREM LinearChains == Spec => []ChainsAreLinear
  BY Invariance, PTL DEF IInv

\* A reuse 401 leaves alive no session of the user that was committed before the
\* snapshot of its revokeAllByUserId.
THEOREM ReuseCoverage == Spec => []ReuseLeavesOnlyLate
  BY Invariance, PTL DEF IInv

\* A replaying request never waits for its own row lock.
THEOREM SelfDeadlockFreedom == Spec => []NoSelfDeadlock
  BY Invariance, PTL DEF IInv

\* Nobody loses a session to a reuse that was not detected for them.
THEOREM InnocentKeepTheirSessions == Spec => []OnlyReuseEndsAChain
  BY Invariance, PTL DEF IInv

\* Revocation is final, and so is the link to the successor.
THEOREM RevocationIsFinal == Spec => RevokedIsFinal
<1>1. IInv /\ [Next]_vars =>
        [\A s \in revoked : s \in revoked' /\ replacedBy'[s] = replacedBy[s]]_vars
  <2> SUFFICES ASSUME IInv, Next, NEW s \in revoked
               PROVE  s \in revoked' /\ replacedBy'[s] = replacedBy[s]
    OBVIOUS
  <2>1. CASE \E r \in Request : CommitRotation(r)
    BY <2>1 DEF CommitRotation, IInv, TypeOK, RequestInv
  <2>2. CASE \E r \in Request : CommitRevokeAll(r)
    BY <2>2 DEF CommitRevokeAll
  <2>3. CASE UNCHANGED <<revoked, replacedBy>>
    BY <2>3
  <2> QED
    BY <2>1, <2>2, <2>3
    DEF Next, RequestStep, StatementStep, StartLogin, StartRefresh, SaveChainRoot,
        BuildSession, BeginTransaction, RejectUnknown, LockByRefreshTokenHash, DetectReuse,
        RejectExpired, SaveRotation, ReadClaims, Respond, BeginRevokeAll, RevokeRow,
        RejectReuse, Crash, Expire, table, NewRevokedAt
<1> QED
  BY <1>1, Invariance, PTL DEF RevokedIsFinal, Spec

-----------------------------------------------------------------------------
(* Refinement: the committed table, seen as a token store.                 *)

\* A login's INSERT issues a token.
LEMMA LoginIssues ==
  ASSUME IInv, NEW r \in Request, SaveChainRoot(r)
  PROVE  Tokens!Issue(nextId, who[r]) /\ nextId \in SessionId /\ who[r] \in User
<1> USE BoundsAssumption DEF SessionId
<1>1. nextId \in SessionId /\ nextId \notin rows /\ who[r] \in User
  BY DEF SaveChainRoot, BuildSession, IInv, TypeOK, TableInv, RequestInv
<1> QED
  BY <1>1 DEF SaveChainRoot, BuildSession, NewRevokedAt, IInv, TypeOK, TableInv,
     Tokens!Issue, Tokens!Fresh

\* The commit of a rotation exchanges the presented token for its successor.
LEMMA RotationExchanges ==
  ASSUME IInv, NEW r \in Request, CommitRotation(r)
  PROVE  /\ Tokens!Exchange(token[r], succ[r])
         /\ token[r] \in SessionId /\ succ[r] \in SessionId
<1>1. /\ token[r] \in rows \ revoked /\ succ[r] \in SessionId \ rows
      /\ revoked \subseteq rows /\ rows \subseteq SessionId
  BY DEF CommitRotation, IInv, TypeOK, TableInv, RequestInv, OwnsLock, InTransaction
<1> QED
  BY <1>1 DEF CommitRotation, IInv, TypeOK, Tokens!Exchange, Tokens!Fresh

\* The commit of revokeAllByUserId invalidates live tokens of one user, or none.
LEMMA RevocationInvalidates ==
  ASSUME IInv, NEW r \in Request, CommitRevokeAll(r)
  PROVE  \/ UNCHANGED <<rows \ revoked, revoked, roots, replacedBy, userOf>>
         \/ \E u \in User : \E S \in SUBSET (rows \ revoked) : Tokens!Invalidate(u, S)
<1> DEFINE S == held[r] \ revoked
<1>1. held[r] \subseteq rows /\ S \subseteq rows \ revoked
  BY DEF IInv, StatementInv
<1>2. CASE S = {}
  BY <1>2 DEF CommitRevokeAll, history
<1>3. ASSUME NEW x \in S PROVE Tokens!Invalidate(userOf[x], S) /\ userOf[x] \in User
  <2>1. S \subseteq {t \in rows \ revoked : userOf[t] = userOf[x]}
    BY <1>1 DEF IInv, StatementInv
  <2>2. rows' \ revoked' = (rows \ revoked) \ S
    BY DEF CommitRevokeAll
  <2>3. revoked' = revoked \cup S
    BY DEF CommitRevokeAll
  <2>4. userOf' = userOf /\ roots' = roots /\ replacedBy' = replacedBy
    BY DEF CommitRevokeAll, history
  <2>5. userOf[x] \in User
    BY <1>1 DEF IInv, TableInv
  <2> QED
    BY <2>1, <2>2, <2>3, <2>4, <2>5 DEF Tokens!Invalidate
<1> QED
  BY <1>1, <1>2, <1>3

\* The interleaved handlers, transactions, UPDATEs and failures implement the
\* atomic token store.
THEOREM Refinement == Spec => ImplementsTokens
<1>1. Init => Tokens!Init
  BY DEF Init, Tokens!Init
<1>2. IInv /\ [Next]_vars => [Tokens!Next]_Tokens!tokens
  <2> SUFFICES ASSUME IInv, [Next]_vars PROVE Tokens!Next \/ UNCHANGED Tokens!tokens
    OBVIOUS
  <2>1. CASE \E r \in Request : SaveChainRoot(r)
    BY <2>1, LoginIssues DEF Tokens!Next
  <2>2. CASE \E r \in Request : CommitRotation(r)
    BY <2>2, RotationExchanges DEF Tokens!Next
  <2>3. CASE \E r \in Request : CommitRevokeAll(r)
    BY <2>3, RevocationInvalidates DEF Tokens!Next, Tokens!tokens
  <2>4. CASE UNCHANGED <<rows, revoked, roots, replacedBy, userOf>>
    BY <2>4 DEF Tokens!tokens
  <2> QED
    BY <2>1, <2>2, <2>3, <2>4
    DEF Next, RequestStep, StatementStep, StartLogin, StartRefresh, BeginTransaction,
        BuildSession, RejectUnknown, LockByRefreshTokenHash, DetectReuse, RejectExpired,
        SaveRotation, ReadClaims, Respond, BeginRevokeAll, RevokeRow, RejectReuse, Crash,
        Expire, table, history, vars
<1> QED
  BY <1>1, <1>2, Invariance, PTL DEF Spec, ImplementsTokens, Tokens!Spec
=============================================================================
