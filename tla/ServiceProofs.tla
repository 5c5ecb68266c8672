---------------------------- MODULE ServiceProofs ----------------------------
(***************************************************************************)
(* Keys, tokens, cached documents and the schema for any number of         *)
(* replicas, verifiers, keys and restarts.                                 *)
(***************************************************************************)
EXTENDS Service, TLAPS

Up(p) == conf[p] # Null

Entries == {Entry(k) : k \in Key}

Token == [key : Key, kid : {ComputeRsaJwkThumbprint(k) : k \in Key},
          by : Process \cup {Null}]

\* Kids in tokens and cached documents are the thumbprints of their keys.
KidInv ==
    /\ tokens \subseteq Token
    /\ \A t \in tokens : t.kid = ComputeRsaJwkThumbprint(t.key)
    /\ cache \in [Verifier -> SUBSET Entries]

\* Requests are in flight only where they are served, and a process that may run the
\* migrations has passed them on a current schema.
ProcessInv ==
    \A p \in Process :
      /\ inFlight[p] > 0 => pc[p] \in {"serving", "draining"}
      /\ Up(p) /\ pc[p] \in {"listen", "serving", "draining"}
           /\ conf[p].DATABASE_MIGRATIONS_RUN = "absent" => migrated = LatestMigration

\* Two processes never have one ephemeral key.
OwnKeyInv ==
    \A p, q \in Process :
      Up(p) /\ Up(q) /\ conf[p].key = conf[q].key /\ conf[p].key \in EphemeralKey => p = q

\* A token has the key of the process that signed it; the holder of an ephemeral key has
\* signed every token that has it.
TokenInv ==
    \A t \in tokens :
      /\ t.by # Null => Up(t.by) /\ t.key = conf[t.by].key
      /\ \A p \in Process :
           Up(p) /\ t.key = conf[p].key /\ t.key \in EphemeralKey => t.by = p

\* A verifier that has fetched from a process has its key.
CacheInv ==
    \A v \in Verifier : \A p \in fetched[v] : Up(p) /\ Entry(conf[p].key) \in cache[v]

IInv ==
    /\ TypeOK /\ KidInv /\ ProcessInv /\ OwnKeyInv /\ TokenInv /\ CacheInv
    /\ ProductionIsConfigured

-----------------------------------------------------------------------------
\* The thumbprint tells keys apart.
LEMMA ThumbprintInjective ==
  ASSUME NEW k, NEW l, ComputeRsaJwkThumbprint(k) = ComputeRsaJwkThumbprint(l)
  PROVE  k = l
  BY DEF ComputeRsaJwkThumbprint

\* A generated key is in no process and in no token.
LEMMA NewKeysAreNew ==
  ASSUME NEW k \in NewKeys
  PROVE  /\ k \in EphemeralKey
         /\ \A t \in tokens : t.key # k
         /\ \A p \in Process : Up(p) => conf[p].key # k
<1>1. k \in EphemeralKey
  BY DEF NewKeys
<1>2. \A t \in tokens : t.key # k
  BY DEF NewKeys
<1>3. \A p \in Process : Up(p) => conf[p].key # k
  BY DEF NewKeys, Up
<1> QED
  BY <1>1, <1>2, <1>3

\* The key a process starts with is configured, or generated outside production.
LEMMA ResolvedKey ==
  ASSUME NEW env \in Env, NEW k \in ResolveSigningKeyPair(env)
  PROVE  \/ k \in ConfiguredKey
         \/ k \in NewKeys /\ env.NODE_ENV # "production"
  BY DEF ResolveSigningKeyPair

\* Origins that validation lets into production are configured ones.
LEMMA ValidatedOrigins ==
  ASSUME NEW env \in Env, ValidateEnv(env), env.NODE_ENV = "production"
  PROVE  ResolveCorsOrigins(env) = {"configured"}
<1>1. [env EXCEPT !.NODE_ENV = "production"] = env
  BY DEF Env
<1>2. ResolveCorsOrigins(env) # {}
  BY <1>1 DEF ValidateEnv, ValidateProductionCorsOrigins
<1> QED
  BY <1>2 DEF ResolveCorsOrigins

\* What a process keeps is well typed.
LEMMA ConfigIsTyped ==
  ASSUME NEW env \in Env, NEW k \in Key
  PROVE  Config(env, k) \in ConfigType
<1>1. (env.OTEL_EXPORTER_OTLP_ENDPOINT = "given") \in BOOLEAN
  OBVIOUS
<1>2. ResolveCorsOrigins(env) \in SUBSET {"configured", "localhost"}
  BY DEF ResolveCorsOrigins
<1>3. /\ env.NODE_ENV \in {"production", "development"}
      /\ env.DATABASE_MIGRATIONS_RUN \in {"absent", "false"}
  BY DEF Env
<1> DEFINE o == (env.OTEL_EXPORTER_OTLP_ENDPOINT = "given")
<1> HIDE DEF o
<1>4. Config(env, k) =
        [NODE_ENV |-> env.NODE_ENV, key |-> k, origins |-> ResolveCorsOrigins(env),
         otel |-> o, DATABASE_MIGRATIONS_RUN |-> env.DATABASE_MIGRATIONS_RUN]
  BY Zenon DEF Config, o
<1>5. o \in BOOLEAN
  BY <1>1 DEF o
<1> QED
  BY <1>2, <1>3, <1>4, <1>5 DEF ConfigType

\* Nothing runs, and the database is at any migration.
LEMMA InitIInv == Init => IInv
<1> SUFFICES ASSUME Init PROVE IInv
  OBVIOUS
<1> USE ServiceAssumption DEF Init
<1>1. TypeOK
  BY DEF TypeOK
<1>2. KidInv
  BY DEF KidInv
<1>3. ProcessInv /\ OwnKeyInv /\ TokenInv /\ CacheInv
  BY DEF ProcessInv, OwnKeyInv, TokenInv, CacheInv, Up
<1>4. ProductionIsConfigured
  BY DEF ProductionIsConfigured
<1> QED
  BY <1>1, <1>2, <1>3, <1>4 DEF IInv

\* A step that leaves configurations, tokens and documents alone.
LEMMA QuietIInv ==
  ASSUME IInv, UNCHANGED <<conf, outside>>, TypeOK', ProcessInv'
  PROVE  IInv'
<1>1. UNCHANGED <<conf, tokens, cache, fetched>>
  BY DEF outside
<1> QED
  BY <1>1 DEF IInv, KidInv, OwnKeyInv, TokenInv, CacheInv, ProductionIsConfigured, Up

\* Start-up after the configuration, requests, and SIGTERM.
LEMMA ScheduleIInv ==
  ASSUME IInv, NEW p \in Process,
         Connect(p) \/ Migrate(p) \/ Listen(p) \/ StartRequest(p) \/ Terminate(p)
  PROVE  IInv'
<1> USE ServiceAssumption
<1>1. CASE Connect(p)
  <2>1. TypeOK'
    BY <1>1 DEF Connect, Goto, database, outside, IInv, TypeOK
  <2>2. ProcessInv'
    BY <1>1 DEF Connect, Goto, MigrationsRun, IInv, TypeOK, ProcessInv, Up
  <2> QED
    BY <1>1, <2>1, <2>2, QuietIInv DEF Connect
<1>2. CASE Migrate(p)
  <2>1. TypeOK'
    BY <1>2 DEF Migrate, Goto, outside, IInv, TypeOK
  <2>2. ProcessInv'
    BY <1>2 DEF Migrate, Goto, IInv, TypeOK, ProcessInv, Up
  <2> QED
    BY <1>2, <2>1, <2>2, QuietIInv DEF Migrate
<1>3. CASE Listen(p)
  <2>1. TypeOK'
    BY <1>3 DEF Listen, Goto, database, outside, IInv, TypeOK
  <2>2. ProcessInv'
    BY <1>3 DEF Listen, Goto, database, IInv, TypeOK, ProcessInv, Up
  <2> QED
    BY <1>3, <2>1, <2>2, QuietIInv DEF Listen
<1>4. CASE StartRequest(p)
  <2>1. TypeOK'
    BY <1>4 DEF StartRequest, database, outside, IInv, TypeOK
  <2>2. ProcessInv'
    BY <1>4 DEF StartRequest, database, IInv, ProcessInv, Up
  <2> QED
    BY <1>4, <2>1, <2>2, QuietIInv DEF StartRequest
<1>5. CASE Terminate(p)
  <2>1. TypeOK'
    BY <1>5 DEF Terminate, Goto, database, outside, IInv, TypeOK
  <2>2. ProcessInv'
    BY <1>5 DEF Terminate, Goto, database, IInv, TypeOK, ProcessInv, Up
  <2> QED
    BY <1>5, <2>1, <2>2, QuietIInv DEF Terminate
<1> QED
  BY <1>1, <1>2, <1>3, <1>4, <1>5

\* A process comes up with a key of its own or a configured one.
LEMMA BootIInv ==
  ASSUME IInv, NEW p \in Process, NEW env \in Env, Boot(p, env)
  PROVE  IInv'
<1>1. PICK k \in ResolveSigningKeyPair(env) : conf' = [conf EXCEPT ![p] = Config(env, k)]
  BY DEF Boot
<1>2. /\ pc[p] = "down" /\ pc' = [pc EXCEPT ![p] = "connect"] /\ ValidateEnv(env)
      /\ UNCHANGED <<migrated, plan, inFlight, tokens, cache, fetched>>
  BY DEF Boot, Goto, database, outside
<1>3. \/ k \in ConfiguredKey
      \/ k \in NewKeys /\ env.NODE_ENV # "production"
  BY <1>1, ResolvedKey
<1>4. k \in Key
  BY <1>3, NewKeysAreNew DEF Key
<1> DEFINE c == Config(env, k)
<1>5. c \in ConfigType /\ c # Null /\ c.key = k /\ c.NODE_ENV = env.NODE_ENV
      /\ c.origins = ResolveCorsOrigins(env)
  BY <1>4, ConfigIsTyped, ConfigAssumption DEF Config
<1> HIDE DEF c
<1>6. /\ conf'[p] = c /\ pc'[p] = "connect" /\ ~Up(p)
      /\ \A q \in Process \ {p} : conf'[q] = conf[q] /\ pc'[q] = pc[q]
  BY <1>1, <1>2 DEF IInv, TypeOK, Up, c
<1>7. k \in EphemeralKey =>
        /\ \A t \in tokens : t.key # k
        /\ \A q \in Process : Up(q) => conf[q].key # k
  BY <1>3, NewKeysAreNew, ServiceAssumption
<1>8. TypeOK'
  BY <1>1, <1>2, <1>5, <1>6 DEF IInv, TypeOK, c
<1>9. KidInv'
  BY <1>2 DEF IInv, KidInv
<1>10. ProcessInv'
  BY <1>2, <1>6 DEF IInv, ProcessInv, Up
<1>11. OwnKeyInv'
  BY <1>5, <1>6, <1>7 DEF IInv, OwnKeyInv, Up
<1>12. TokenInv'
  <2>1. \A t \in tokens : t.by # Null => t.by \in Process
    BY DEF IInv, TypeOK
  <2> QED
    BY <1>2, <1>5, <1>6, <1>7, <2>1 DEF IInv, TokenInv, Up
<1>13. CacheInv'
  <2>1. \A v \in Verifier : fetched[v] \subseteq Process
    BY DEF IInv, TypeOK
  <2> QED
    BY <1>2, <1>6, <2>1 DEF IInv, CacheInv, Up
<1>14. ProductionIsConfigured'
  <2>1. c.NODE_ENV = "production" => k \in ConfiguredKey /\ c.origins = {"configured"}
    BY <1>2, <1>3, <1>5, ValidatedOrigins
  <2> QED
    BY <1>5, <1>6, <2>1 DEF IInv, ProductionIsConfigured
<1> QED
  BY <1>8, <1>9, <1>10, <1>11, <1>12, <1>13, <1>14 DEF IInv

\* A request ends; a token that is signed has the key and thumbprint of its process.
LEMMA FinishIInv ==
  ASSUME IInv, NEW p \in Process, FinishRequest(p)
  PROVE  IInv'
<1> DEFINE k == conf[p].key
           t == [key |-> k, kid |-> ComputeRsaJwkThumbprint(k), by |-> p]
<1>1. /\ inFlight[p] > 0 /\ inFlight' = [inFlight EXCEPT ![p] = @ - 1]
      /\ tokens' = tokens \/ tokens' = tokens \cup {t}
      /\ UNCHANGED <<pc, conf, migrated, plan, cache, fetched>>
  BY DEF FinishRequest, database
<1>2. CASE tokens' = tokens
  <2>1. TypeOK'
    BY <1>1, <1>2, ServiceAssumption DEF IInv, TypeOK
  <2>2. ProcessInv'
    BY <1>1 DEF IInv, ProcessInv, Up
  <2> QED
    BY <1>1, <1>2, <2>1, <2>2, QuietIInv DEF outside
<1>3. CASE tokens' = tokens \cup {t} /\ Up(p)
  <2>1. k \in Key
    BY <1>3 DEF Up, IInv, TypeOK, ConfigType
  <2>2. /\ t \in Token /\ t.key = k /\ t.by = p /\ p # Null
        /\ t.kid = ComputeRsaJwkThumbprint(t.key)
    BY <2>1, ServiceAssumption DEF Token
  <2>3. TypeOK'
    BY <1>1, <1>3, <2>1, <2>2, ServiceAssumption DEF IInv, TypeOK
  <2>4. KidInv'
    BY <1>1, <1>3, <2>2 DEF IInv, KidInv
  <2>5. ProcessInv' /\ OwnKeyInv' /\ CacheInv' /\ ProductionIsConfigured'
    BY <1>1 DEF IInv, ProcessInv, OwnKeyInv, CacheInv, ProductionIsConfigured, Up
  <2>6. TokenInv'
    BY <1>1, <1>3, <2>2 DEF IInv, TokenInv, OwnKeyInv, Up
  <2> QED
    BY <2>3, <2>4, <2>5, <2>6 DEF IInv
<1>4. Up(p)
  BY <1>1 DEF IInv, TypeOK, ProcessInv, Up
<1> QED
  BY <1>1, <1>2, <1>3, <1>4

\* A verifier adds or takes over the document of a process that is up.
LEMMA FetchIInv ==
  ASSUME IInv, NEW v \in Verifier, NEW p \in Process, FetchJwks(v, p)
  PROVE  IInv'
<1> DEFINE e == Entry(conf[p].key)
<1>1. /\ pc[p] = "serving"
      /\ \/ /\ cache' = [cache EXCEPT ![v] = {e}]
            /\ fetched' = [fetched EXCEPT ![v] = {p}]
         \/ /\ cache' = [cache EXCEPT ![v] = @ \cup {e}]
            /\ fetched' = [fetched EXCEPT ![v] = @ \cup {p}]
      /\ UNCHANGED <<pc, conf, migrated, plan, inFlight, tokens>>
  BY DEF FetchJwks, PublishedKeys, database
<1>2. Up(p)
  BY <1>1 DEF IInv, TypeOK, Up
<1>3. conf[p].key \in Key /\ e \in Entries /\ e.key \in Key
  BY <1>2 DEF Up, IInv, TypeOK, ConfigType, Entries, Entry
<1> HIDE DEF e
<1>4. cache' \in [Verifier -> SUBSET Entries] /\ fetched' \in [Verifier -> SUBSET Process]
  BY <1>1, <1>3 DEF IInv, TypeOK, KidInv
<1>5. \A w \in Verifier : \A d \in cache'[w] : d.key \in Key
  BY <1>4 DEF Entries, Entry
<1>6. TypeOK'
  BY <1>1, <1>4, <1>5 DEF IInv, TypeOK
<1>7. KidInv'
  BY <1>1, <1>4 DEF IInv, KidInv
<1>8. ProcessInv' /\ OwnKeyInv' /\ TokenInv' /\ ProductionIsConfigured'
  BY <1>1 DEF IInv, ProcessInv, OwnKeyInv, TokenInv, ProductionIsConfigured, Up
<1>9. CacheInv'
  <2> SUFFICES ASSUME NEW w \in Verifier, NEW q \in fetched'[w]
               PROVE  Up(q) /\ Entry(conf[q].key) \in cache'[w]
    BY <1>1 DEF CacheInv, Up, Entry
  <2>1. CASE q \in fetched[w] /\ cache[w] \subseteq cache'[w]
    BY <2>1 DEF IInv, CacheInv
  <2>2. CASE w = v /\ q = p
    BY <1>1, <1>2, <2>2 DEF IInv, KidInv, e
  <2>3. CASE w # v
    BY <1>1, <2>1, <2>3 DEF IInv, TypeOK, KidInv
  <2>4. CASE w = v /\ q # p
    BY <1>1, <2>1, <2>4 DEF IInv, TypeOK, KidInv
  <2> QED
    BY <2>2, <2>3, <2>4
<1> QED
  BY <1>6, <1>7, <1>8, <1>9 DEF IInv

\* A token that expires is forgotten.
LEMMA ExpireIInv ==
  ASSUME IInv, NEW t \in tokens, TokenExpires(t)
  PROVE  IInv'
<1>1. /\ tokens' \subseteq tokens
      /\ UNCHANGED <<pc, conf, migrated, plan, inFlight, cache, fetched>>
  BY DEF TokenExpires, database
<1>2. TypeOK' /\ KidInv'
  BY <1>1 DEF IInv, TypeOK, KidInv
<1>3. ProcessInv' /\ OwnKeyInv' /\ TokenInv' /\ CacheInv' /\ ProductionIsConfigured'
  BY <1>1
  DEF IInv, ProcessInv, OwnKeyInv, TokenInv, CacheInv, ProductionIsConfigured, Up
<1> QED
  BY <1>2, <1>3 DEF IInv

\* A process is gone; its tokens are nobody's from now on.
LEMMA ExitIInv ==
  ASSUME IInv, NEW p \in Process, Exit(p)
  PROVE  IInv'
<1> DEFINE Left(t) == IF t.by = p THEN [t EXCEPT !.by = Null] ELSE t
<1>1. /\ pc' = [pc EXCEPT ![p] = "down"] /\ conf' = [conf EXCEPT ![p] = Null]
      /\ plan' = [plan EXCEPT ![p] = 0] /\ inFlight' = [inFlight EXCEPT ![p] = 0]
      /\ tokens' = {Left(t) : t \in tokens}
      /\ fetched' = [v \in Verifier |-> fetched[v] \ {p}]
      /\ UNCHANGED <<migrated, cache>>
  BY DEF Exit, Goto
<1>2. /\ conf'[p] = Null /\ pc'[p] = "down" /\ inFlight'[p] = 0
      /\ \A q \in Process \ {p} : /\ conf'[q] = conf[q] /\ pc'[q] = pc[q]
                                  /\ inFlight'[q] = inFlight[q]
  BY <1>1 DEF IInv, TypeOK
<1>3. ASSUME NEW t \in tokens
      PROVE  /\ Left(t) \in Token /\ Left(t).key = t.key /\ Left(t).kid = t.kid
             /\ Left(t).by = IF t.by = p THEN Null ELSE t.by
  <2>1. t \in Token
    BY DEF IInv, KidInv
  <2> QED
    BY <2>1 DEF Token
<1> HIDE DEF Left
<1>4. TypeOK'
  <2>1. \A t \in tokens' : t.key \in Key /\ t.by \in Process \cup {Null}
    BY <1>1, <1>3 DEF Token
  <2> QED
    BY <1>1, <1>2, <2>1, ServiceAssumption DEF IInv, TypeOK
<1>5. KidInv'
  BY <1>1, <1>3 DEF IInv, KidInv
<1>6. ProcessInv' /\ OwnKeyInv' /\ ProductionIsConfigured'
  BY <1>1, <1>2 DEF IInv, ProcessInv, OwnKeyInv, ProductionIsConfigured, Up
<1>7. TokenInv'
  <2> SUFFICES ASSUME NEW t \in tokens
               PROVE  /\ Left(t).by # Null =>
                           conf'[Left(t).by] # Null /\ Left(t).key = conf'[Left(t).by].key
                      /\ \A q \in Process :
                           conf'[q] # Null /\ Left(t).key = conf'[q].key
                             /\ Left(t).key \in EphemeralKey => Left(t).by = q
    BY <1>1 DEF TokenInv, Up
  <2>1. t.by \in Process \cup {Null}
    BY DEF IInv, TypeOK
  <2> QED
    BY <1>2, <1>3, <2>1 DEF IInv, TokenInv, Up
<1>8. CacheInv'
  <2>1. \A v \in Verifier : fetched[v] \subseteq Process
    BY DEF IInv, TypeOK
  <2> QED
    BY <1>1, <1>2, <2>1 DEF IInv, CacheInv, Up, Entry
<1> QED
  BY <1>4, <1>5, <1>6, <1>7, <1>8 DEF IInv

\* So every step keeps the invariant.
LEMMA StepIInv == IInv /\ [Next]_vars => IInv'
<1> SUFFICES ASSUME IInv, [Next]_vars PROVE IInv'
  OBVIOUS
<1>1. CASE UNCHANGED vars
  <2>1. TypeOK' /\ ProcessInv'
    BY <1>1 DEF vars, database, outside, IInv, TypeOK, ProcessInv, Up
  <2> QED
    BY <1>1, <2>1, QuietIInv DEF vars
<1>2. ASSUME NEW p \in Process, NEW env \in Env, Boot(p, env) PROVE IInv'
  BY <1>2, BootIInv
<1>3. ASSUME NEW p \in Process,
             Connect(p) \/ Migrate(p) \/ Listen(p) \/ StartRequest(p) \/ Terminate(p)
      PROVE  IInv'
  BY <1>3, ScheduleIInv
<1>4. ASSUME NEW p \in Process, FinishRequest(p) PROVE IInv'
  BY <1>4, FinishIInv
<1>5. ASSUME NEW p \in Process, NEW v \in Verifier, FetchJwks(v, p) PROVE IInv'
  BY <1>5, FetchIInv
<1>6. ASSUME NEW p \in Process, ExitDrained(p) \/ ExitFlushed(p) \/ Crash(p) PROVE IInv'
  BY <1>6, ExitIInv DEF ExitDrained, ExitFlushed, Crash
<1>7. ASSUME NEW t \in tokens, TokenExpires(t) PROVE IInv'
  BY <1>7, ExpireIInv
<1> QED
  BY <1>1, <1>2, <1>3, <1>4, <1>5, <1>6, <1>7 DEF Next

\* The invariant holds throughout.
LEMMA Invariance == Spec => []IInv
  BY InitIInv, StepIInv, PTL DEF Spec

-----------------------------------------------------------------------------
\* Processes, tokens and documents keep their types, and a process has a configuration
\* exactly while it is up.
THEOREM TypeCorrect == Spec => []TypeOK
  BY Invariance, PTL DEF IInv

\* Production never runs on a generated key or on the development origins.
THEOREM ProductionIsSafe == Spec => []ProductionIsConfigured
  BY Invariance, PTL DEF IInv

\* However replicas race to migrate and fail, none of them serves on an older schema
\* unless it was told to leave the migrations alone.
THEOREM SchemaIsCurrent == Spec => []ServesOnLatestSchema
<1>1. IInv => ServesOnLatestSchema
  BY DEF IInv, TypeOK, ProcessInv, ServesOnLatestSchema, Up
<1> QED
  BY <1>1, Invariance, PTL

\* A verifier with a document of the signing process accepts its tokens, and no document,
\* however old and from whichever replica, leads it to a wrong key.
THEOREM SignedIsVerifiable == Spec => []SignedIsPublished
<1>1. IInv => SignedIsPublished
  <2> SUFFICES ASSUME IInv, NEW v \in Verifier, NEW t \in tokens
               PROVE  /\ KeysFor(v, t.kid) \subseteq {t.key}
                      /\ t.by \in fetched[v] => t.key \in KeysFor(v, t.kid)
    BY DEF SignedIsPublished
  <2>1. t.kid = ComputeRsaJwkThumbprint(t.key)
    BY DEF IInv, KidInv
  <2>2. ASSUME NEW e \in cache[v], e.kid = t.kid PROVE e.key = t.key
    <3>1. e.kid = ComputeRsaJwkThumbprint(e.key)
      BY DEF IInv, KidInv, Entries, Entry
    <3> QED
      BY <2>1, <2>2, <3>1, ThumbprintInjective
  <2>3. ASSUME t.by \in fetched[v] PROVE t.key \in KeysFor(v, t.kid)
    <3>1. t.by \in Process /\ t.by # Null
      BY <2>3, ServiceAssumption DEF IInv, TypeOK
    <3>2. t.key = conf[t.by].key /\ Entry(conf[t.by].key) \in cache[v]
      BY <2>3, <3>1 DEF IInv, TokenInv, CacheInv
    <3> QED
      BY <2>1, <3>2 DEF KeysFor, Entry
  <2> QED
    BY <2>2, <2>3 DEF KeysFor
<1> QED
  BY <1>1, Invariance, PTL

\* Restarting a process, or asking another one, never brings an ephemeral token back.
THEOREM EphemeralTokensDie == Spec => []EphemeralTokensDieWithTheirProcess
<1>1. IInv => EphemeralTokensDieWithTheirProcess
  BY DEF IInv, TypeOK, TokenInv, EphemeralTokensDieWithTheirProcess, GuardAccepts, Up
<1> QED
  BY <1>1, Invariance, PTL
=============================================================================
