--------------------------- MODULE SessionRotation ---------------------------
(***************************************************************************)
(* Refresh-token rotation of the auth context: the session table, the      *)
(* login handler's insert, the refresh handler and its repository          *)
(* transaction (SELECT ... FOR UPDATE), and the reuse path, whose          *)
(* revokeAllByUserId runs as an autocommitted UPDATE on a second pooled    *)
(* connection while the first one still holds the presented row's lock.    *)
(*                                                                         *)
(* Several requests run interleaved at their awaits.  A session row and    *)
(* the refresh token whose hash it stores are one value: the hash is       *)
(* unique and tokens are random.  Row locks, statement snapshots and       *)
(* commits follow PostgreSQL READ COMMITTED.  SessionBuilder, through      *)
(* which every session is built and loaded, is one object that all         *)
(* requests share.                                                         *)
(***************************************************************************)
EXTENDS Integers, FiniteSets

CONSTANTS User,        \* users that can log in
          Request,     \* concurrent request slots of the API processes
          Failing,     \* bound: the slots whose requests may fail
          MaxSessions, \* bound: session rows ever allocated
          MaxExpired,  \* bound: sessions that run past expires_at
          PoolSize     \* connections of the TypeORM/pg pool

ASSUME BoundsAssumption ==
    /\ MaxSessions \in Nat
    /\ MaxExpired \in Nat
    /\ PoolSize \in Nat \ {0}
    /\ IsFiniteSet(Request) /\ Failing \subseteq Request

Null == 0                       \* SQL NULL; also a token that no row has
SessionId == 1..MaxSessions     \* in insertion order, the order of a table scan

VARIABLES
    rows,        \* ids of the committed rows of table session
    userOf,      \* column user_id
    revoked,     \* rows whose column revoked_at is set
    replacedBy,  \* column replaced_by_session_id
    expired,     \* rows whose expires_at has passed
    nextId,      \* next id that will be generated
    builder,     \* the revokedAt last given to the shared SessionBuilder
    delivered,   \* refresh tokens that reached a client
    pc,          \* where each request is
    token,       \* the refresh token each refresh request presents
    who,         \* the user each login request authenticated
    succ,        \* the session each request has built
    running,     \* is the request's revokeAllByUserId statement executing?
    target,      \* the rows in that statement's snapshot that match its WHERE
    held,        \* the rows of target that the statement has locked so far
    roots,       \* history: rows inserted by a login
    late,        \* history: rows of the same user committed since the snapshot
    accused      \* history: users for whom reuse was detected

table == <<rows, userOf, revoked, replacedBy, expired>>
statement == <<running, target, held>>
locals == <<token, who, succ>>
building == <<nextId, builder>>
history == <<roots, late, accused>>
vars == <<table, building, delivered, pc, locals, statement, history>>

-----------------------------------------------------------------------------
(* Domain: SessionAggregate, and how a request uses connections and locks. *)

IsRevoked(s) == s \in revoked
IsExpired(s) == s \in expired

\* Program points between BEGIN and COMMIT/ROLLBACK of rotate()'s transaction,
\* and those of them that own the presented row's FOR UPDATE lock.
InTransaction == {"locking", "locked", "saved", "revoking", "reused"}
OwnsLock == InTransaction \ {"locking"}

\* Program points from which a request may still allocate a session id.
Allocating == {"login", "begin", "locking", "locked"}

Locks(r, s) == pc[r] \in OwnsLock /\ token[r] = s

\* Mutant: findOne instead of a query with setLock('pessimistic_write').
FreeForTxWithoutLock(r, s) == TRUE

\* The row lock is free for request r's transaction.
FreeForTx(r, s) ==
    /\ \A q \in Request \ {r} : ~Locks(q, s)
    /\ \A q \in Request : s \notin held[q]

\* The row lock is free for request r's UPDATE statement.  The statement is on
\* another connection, so a lock of r's own transaction blocks it as well.
FreeForStatement(r, s) ==
    /\ \A q \in Request : ~Locks(q, s)
    /\ \A q \in Request \ {r} : s \notin held[q]

Connections ==
    Cardinality({r \in Request : pc[r] \in InTransaction})
      + Cardinality({r \in Request : running[r]})

PoolFree == Connections < PoolSize

\* Bound: starting one more request leaves an id for every request that needs one.
Capacity ==
    nextId + Cardinality({r \in Request : pc[r] \in Allocating}) =< MaxSessions

\* Mutants: without the andWhere, and without the where.
MatchesRevokeAllUnfiltered(u, s) == s \in rows /\ userOf[s] = u
MatchesRevokeAllAnyUser(u, s) == s \in rows /\ ~IsRevoked(s)

\* revokeAllByUserId: UPDATE ... WHERE user_id = :userId AND revoked_at IS NULL
MatchesRevokeAll(u, s) == s \in rows /\ userOf[s] = u /\ ~IsRevoked(s)

\* The row that r's UPDATE must lock next.
NextRow(r, s) ==
    /\ running[r] /\ s \in target[r] \ held[r]
    /\ \A x \in target[r] \ held[r] : s =< x

\* History: s, of user u, commits; it is late for every statement already begun.
CommitLate(u, s) ==
    late' = [q \in Request |->
               IF /\ running[q] \/ pc[q] = "reused"
                  /\ token[q] # Null /\ userOf[token[q]] = u
               THEN late[q] \cup {s} ELSE late[q]]

-----------------------------------------------------------------------------
TypeOK ==
    /\ rows \subseteq SessionId
    /\ userOf \in [SessionId -> User \cup {Null}]
    /\ revoked \subseteq SessionId
    /\ replacedBy \in [SessionId -> SessionId \cup {Null}]
    /\ expired \subseteq SessionId
    /\ nextId \in 1..(MaxSessions + 1)
    /\ builder \in {"null", "date"}
    /\ delivered \subseteq SessionId
    /\ pc \in [Request -> InTransaction \cup
                          {"idle", "login", "begin", "claims", "respond"}]
    /\ token \in [Request -> SessionId \cup {Null}]
    /\ who \in [Request -> User \cup {Null}]
    /\ succ \in [Request -> SessionId \cup {Null}]
    /\ running \in [Request -> BOOLEAN]
    /\ target \in [Request -> SUBSET SessionId]
    /\ held \in [Request -> SUBSET SessionId]
    /\ roots \subseteq SessionId
    /\ late \in [Request -> SUBSET SessionId]
    /\ accused \subseteq User

\* The table is empty after the SessionChainRotation migration.
Init ==
    /\ rows = {} /\ revoked = {} /\ expired = {} /\ delivered = {}
    /\ roots = {} /\ accused = {}
    /\ userOf = [s \in SessionId |-> Null]
    /\ replacedBy = [s \in SessionId |-> Null]
    /\ nextId = 1 /\ builder = "null"
    /\ pc = [r \in Request |-> "idle"]
    /\ token = [r \in Request |-> Null]
    /\ who = [r \in Request |-> Null]
    /\ succ = [r \in Request |-> Null]
    /\ running = [r \in Request |-> FALSE]
    /\ target = [r \in Request |-> {}]
    /\ held = [r \in Request |-> {}]
    /\ late = [r \in Request |-> {}]

-----------------------------------------------------------------------------
(* The end of a request, answered or not: its locals are gone.             *)

End(r) ==
    /\ pc' = [pc EXCEPT ![r] = "idle"]
    /\ token' = [token EXCEPT ![r] = Null]
    /\ who' = [who EXCEPT ![r] = Null]
    /\ succ' = [succ EXCEPT ![r] = Null]
    /\ late' = [late EXCEPT ![r] = {}]

Goto(r, label) == pc' = [pc EXCEPT ![r] = label]

\* r builds a session with a fresh id.
BuildSession(r) ==
    /\ nextId =< MaxSessions
    /\ succ' = [succ EXCEPT ![r] = nextId]
    /\ nextId' = nextId + 1

\* toAggregate gives the builder the revokedAt of the row it maps.
LoadedRevokedAt(s) == IF IsRevoked(s) THEN "date" ELSE "null"

\* Mutant: withRevokedAt is not called.
NewRevokedAtLeftOver == builder

\* LoginUserHandler calls withRevokedAt(null).
NewRevokedAt == "null"

-----------------------------------------------------------------------------
(* LoginUserHandler: credentials, lookups and signing change no session    *)
(* row; the new chain root is inserted last.                               *)

StartLogin(r, u) ==
    /\ pc[r] = "idle" /\ ~running[r]
    /\ Capacity
    /\ who' = [who EXCEPT ![r] = u]
    /\ Goto(r, "login")
    /\ UNCHANGED <<table, building, delivered, token, succ, statement, history>>

\* Mutant: the builder's id is not set.
SaveChainRootWithoutId(r) ==
    /\ pc[r] = "login"
    /\ PoolFree
    /\ rows' = rows \cup {succ[r]}
    /\ Goto(r, "respond")
    /\ UNCHANGED <<userOf, revoked, replacedBy, expired, building, delivered, locals,
                   statement, history>>

SaveChainRoot(r) ==
    /\ pc[r] = "login"
    /\ PoolFree
    /\ BuildSession(r)
    /\ builder' = NewRevokedAt
    /\ rows' = rows \cup {nextId}
    /\ revoked' = IF NewRevokedAt = "null" THEN revoked ELSE revoked \cup {nextId}
    /\ userOf' = [userOf EXCEPT ![nextId] = who[r]]
    /\ roots' = roots \cup {nextId}
    /\ CommitLate(who[r], nextId)
    /\ Goto(r, "respond")
    /\ UNCHANGED <<replacedBy, expired, delivered, token, who, statement, accused>>

-----------------------------------------------------------------------------
(* RefreshSessionHandler and SessionTypeOrmWriteRepository.rotate.         *)

\* A client presents a token it once received, or one that no row has.
StartRefresh(r, t) ==
    /\ pc[r] = "idle" /\ ~running[r]
    /\ t = Null \/ IsRevoked(t) \/ Capacity
    /\ token' = [token EXCEPT ![r] = t]
    /\ Goto(r, "begin")
    /\ UNCHANGED <<table, building, delivered, who, succ, statement, history>>

BeginTransaction(r) ==
    /\ pc[r] = "begin"
    /\ PoolFree
    /\ Goto(r, "locking")
    /\ UNCHANGED <<table, building, delivered, locals, statement, history>>

\* No row has the hash: rotate() returns null, the handler answers 401.
RejectUnknown(r) ==
    /\ pc[r] = "locking"
    /\ token[r] \notin rows
    /\ End(r)
    /\ UNCHANGED <<table, building, delivered, statement, roots, accused>>

\* SELECT ... FOR UPDATE waits for the row lock and then sees the row's
\* latest committed version.
LockByRefreshTokenHash(r) ==
    /\ pc[r] = "locking"
    /\ token[r] \in rows
    /\ FreeForTx(r, token[r])
    /\ Goto(r, "locked")
    /\ UNCHANGED <<table, building, delivered, locals, statement, history>>

\* The answer of the SELECT is loaded through the builder, and the callback decides.
DetectReuse(r) ==
    /\ pc[r] = "locked"
    /\ IsRevoked(token[r])
    /\ builder' = LoadedRevokedAt(token[r])
    /\ accused' = accused \cup {userOf[token[r]]}
    /\ Goto(r, "revoking")
    /\ UNCHANGED <<table, nextId, delivered, locals, statement, roots, late>>

RejectExpired(r) ==
    /\ pc[r] = "locked"
    /\ ~IsRevoked(token[r]) /\ IsExpired(token[r])
    /\ builder' = LoadedRevokedAt(token[r])
    /\ End(r)
    /\ UNCHANGED <<table, nextId, delivered, statement, roots, accused>>

\* The callback builds the successor and revokes current; both are then saved
\* in the transaction, successor first, unseen by others until the commit.
SaveRotation(r) ==
    /\ pc[r] = "locked"
    /\ ~IsRevoked(token[r]) /\ ~IsExpired(token[r])
    /\ BuildSession(r)
    /\ builder' = "null"
    /\ Goto(r, "saved")
    /\ UNCHANGED <<table, delivered, token, who, statement, history>>

\* Mutant: the predecessor is not saved.
CommitRotationInsertOnly(r) ==
    /\ pc[r] = "saved"
    /\ rows' = rows \cup {succ[r]}
    /\ userOf' = [userOf EXCEPT ![succ[r]] = userOf[token[r]]]
    /\ CommitLate(userOf[token[r]], succ[r])
    /\ Goto(r, "claims")
    /\ UNCHANGED <<revoked, replacedBy, expired, building, delivered, locals, statement,
                   roots, accused>>

\* rotate() maps the two saved rows back, the successor last, and commits.
CommitRotation(r) ==
    /\ pc[r] = "saved"
    /\ rows' = rows \cup {succ[r]}
    /\ userOf' = [userOf EXCEPT ![succ[r]] = userOf[token[r]]]
    /\ revoked' = revoked \cup {token[r]}
    /\ replacedBy' = [replacedBy EXCEPT ![token[r]] = succ[r]]
    /\ builder' = "null"
    /\ CommitLate(userOf[token[r]], succ[r])
    /\ Goto(r, "claims")
    /\ UNCHANGED <<expired, nextId, delivered, locals, statement, roots, accused>>

\* User and membership lookups for the new access token, each on a pooled connection.
\* The refresh handler answers 401 when it finds no user; nothing deletes users, and the
\* effect would be that of Crash here: the rotation is committed, its token not delivered.
ReadClaims(r) ==
    /\ pc[r] = "claims"
    /\ PoolFree
    /\ Goto(r, "respond")
    /\ UNCHANGED <<table, building, delivered, locals, statement, history>>

\* The response with the new refresh token reaches the client (login and refresh).
Respond(r) ==
    /\ pc[r] = "respond"
    /\ delivered' = delivered \cup {succ[r]}
    /\ End(r)
    /\ UNCHANGED <<table, building, statement, roots, accused>>

-----------------------------------------------------------------------------
(* revokeAllByUserId on a second connection, inside the rotate() callback. *)

\* The UPDATE starts: its snapshot fixes the rows it will visit.
BeginRevokeAll(r) ==
    /\ pc[r] = "revoking" /\ ~running[r]
    /\ PoolFree
    /\ running' = [running EXCEPT ![r] = TRUE]
    /\ target' = [target EXCEPT ![r] =
                    {s \in SessionId : MatchesRevokeAll(userOf[token[r]], s)}]
    /\ UNCHANGED <<table, building, delivered, pc, locals, held, history>>

\* It visits the next row of the snapshot once the row's lock is free, and keeps
\* the lock.  A row that someone revoked meanwhile is skipped: it is revoked.
RevokeRow(r) ==
    /\ \E s \in SessionId :
         /\ NextRow(r, s)
         /\ FreeForStatement(r, s)
         /\ held' = [held EXCEPT ![r] = @ \cup {s}]
    /\ UNCHANGED <<table, building, delivered, pc, locals, running, target, history>>

\* Mutant: the UPDATE runs in rotate()'s transaction, which the throw rolls back.
CommitRevokeAllRolledBack(r) ==
    /\ running[r] /\ held[r] = target[r]
    /\ running' = [running EXCEPT ![r] = FALSE]
    /\ target' = [target EXCEPT ![r] = {}]
    /\ held' = [held EXCEPT ![r] = {}]
    /\ pc' = IF pc[r] = "revoking" THEN [pc EXCEPT ![r] = "reused"] ELSE pc
    /\ UNCHANGED <<table, building, delivered, locals, history>>

\* The statement's autocommit makes the revocations visible and frees its locks;
\* the handler, if it is still there, then throws RefreshTokenReuseDetected.
CommitRevokeAll(r) ==
    /\ running[r] /\ held[r] = target[r]
    /\ revoked' = revoked \cup held[r]
    /\ running' = [running EXCEPT ![r] = FALSE]
    /\ target' = [target EXCEPT ![r] = {}]
    /\ held' = [held EXCEPT ![r] = {}]
    /\ pc' = IF pc[r] = "revoking" THEN [pc EXCEPT ![r] = "reused"] ELSE pc
    /\ UNCHANGED <<rows, userOf, replacedBy, expired, building, delivered, locals, history>>

\* The exception rolls the (read-only) transaction back; the answer is 401.
RejectReuse(r) ==
    /\ pc[r] = "reused"
    /\ End(r)
    /\ UNCHANGED <<table, building, delivered, statement, roots, accused>>

-----------------------------------------------------------------------------
(* The environment.                                                        *)

\* expires_at passes.
Expire(s) ==
    /\ s \in rows \ expired
    /\ Cardinality(expired) < MaxExpired
    /\ expired' = expired \cup {s}
    /\ UNCHANGED <<rows, userOf, revoked, replacedBy, building, delivered, pc, locals,
                   statement, history>>

\* The process dies, a query fails or the answer is lost: an open transaction is
\* rolled back, what was committed stays.  The server cancels a running UPDATE,
\* or finishes it although nobody waits for it.
Crash(r) ==
    /\ r \in Failing /\ pc[r] # "idle"
    /\ End(r)
    /\ \/ UNCHANGED statement
       \/ /\ running[r]
          /\ running' = [running EXCEPT ![r] = FALSE]
          /\ target' = [target EXCEPT ![r] = {}]
          /\ held' = [held EXCEPT ![r] = {}]
    /\ UNCHANGED <<table, building, delivered, roots, accused>>

-----------------------------------------------------------------------------
RequestStep(r) ==
    \/ SaveChainRoot(r)
    \/ BeginTransaction(r)
    \/ RejectUnknown(r)
    \/ LockByRefreshTokenHash(r)
    \/ DetectReuse(r)
    \/ RejectExpired(r)
    \/ SaveRotation(r)
    \/ CommitRotation(r)
    \/ ReadClaims(r)
    \/ Respond(r)
    \/ BeginRevokeAll(r)
    \/ RejectReuse(r)

StatementStep(r) == RevokeRow(r) \/ CommitRevokeAll(r)

Next ==
    \/ \E r \in Request :
         \/ \E u \in User : StartLogin(r, u)
         \/ \E t \in delivered \cup {Null} : StartRefresh(r, t)
         \/ RequestStep(r)
         \/ StatementStep(r)
         \/ Crash(r)
    \/ \E s \in SessionId : Expire(s)

Spec == Init /\ [][Next]_vars

\* The pg pool and PostgreSQL's lock queues are first come, first served, and the
\* event loop runs every resolved await: a step that is enabled again and again
\* is taken.  Clients need not start requests, sessions need not expire.
Fairness == \A r \in Request : SF_vars(RequestStep(r)) /\ SF_vars(StatementStep(r))

FairSpec == Spec /\ Fairness

-----------------------------------------------------------------------------
(* Safety.                                                                 *)

\* The rows form disjoint linear chains.  A link goes from a revoked row to a
\* younger row of the same user, no two rows share a successor, and every row
\* that no login inserted is some row's successor: of any number of concurrent
\* refreshes with one token, rotate() lets exactly one create a session.
ChainsAreLinear ==
    /\ \A s \in SessionId : replacedBy[s] # Null =>
         /\ s \in rows \cap revoked
         /\ replacedBy[s] \in rows \ roots
         /\ s < replacedBy[s]
         /\ userOf[replacedBy[s]] = userOf[s]
    /\ \A s, t \in SessionId :
         replacedBy[s] = replacedBy[t] /\ replacedBy[s] # Null => s = t
    /\ \A s \in rows \ roots : \E p \in rows : replacedBy[p] = s

\* When the reuse path is about to answer 401, the only sessions of that user
\* that are not revoked are ones that were committed after the snapshot of its
\* revokeAllByUserId: everything older is dead, whatever ran in between.
ReuseLeavesOnlyLate ==
    \A r \in Request : pc[r] = "reused" =>
      \A s \in rows \ revoked : userOf[s] = userOf[token[r]] => s \in late[r]

\* revokeAllByUserId runs on a connection of its own while the caller holds the
\* presented row's lock.  It never wants that row: otherwise the request would
\* wait for itself, and PostgreSQL, which sees no cycle, would let it wait forever.
NoSelfDeadlock ==
    \A r \in Request : pc[r] = "revoking" => token[r] \notin target[r]

\* A session that was revoked without being replaced belongs to a user for whom
\* reuse was detected: no interleaving of refreshes, logins, crashes and
\* revocations signs out anybody else.
OnlyReuseEndsAChain ==
    \A s \in revoked : replacedBy[s] = Null => userOf[s] \in accused

\* A revoked row is final: no later step un-revokes it, and no rotation that was
\* already under way still gives it a successor or another one.
RevokedIsFinal ==
    [][\A s \in revoked : s \in revoked' /\ replacedBy'[s] = replacedBy[s]]_vars

\* Seen through the committed table, the interleaved handlers behave like the
\* atomic token store: every session a login did not create is created in the
\* same step that spends exactly one live session of that user.
Tokens == INSTANCE RefreshTokens WITH
            Token <- SessionId, Owner <- User, None <- Null,
            live <- rows \ revoked, spent <- revoked, issued <- roots,
            next <- replacedBy, owner <- userOf

ImplementsTokens == Tokens!Spec

-----------------------------------------------------------------------------
(* Liveness.                                                               *)

\* Every login and refresh request is answered (or fails): none waits forever
\* for a row lock or a pooled connection.
EveryRequestEnds == \A r \in Request : pc[r] # "idle" ~> pc[r] = "idle"

\* Two reuse paths wait for each other: p's UPDATE for the replayed row that q's
\* transaction has locked, q's UPDATE for a row that p's UPDATE has locked.
LockCycle ==
    \E p, q \in Request :
      /\ pc[q] = "revoking" /\ NextRow(p, token[q])
      /\ \E s \in held[p] : NextRow(q, s)

\* No connection is left and everyone who has one waits: a transaction for a row
\* lock, or for the UPDATE of its reuse path, which waits for a row or has not
\* even got its connection.
PoolJam ==
    /\ ~PoolFree
    /\ \A r \in Request :
         /\ pc[r] \in InTransaction =>
              pc[r] = "revoking" \/ (pc[r] = "locking" /\ ~FreeForTx(r, token[r]))
         /\ running[r] => \E s \in SessionId : NextRow(r, s) /\ ~FreeForStatement(r, s)

\* The reuse path's second connection is the only thing that can hang the service:
\* as long as its UPDATEs neither wait for each other's rows nor find the pool taken
\* by transactions like its own, every login and refresh is answered.
StallsOnlyInReusePaths ==
    \A r \in Request : pc[r] # "idle" ~> (pc[r] = "idle" \/ LockCycle \/ PoolJam)
=============================================================================
