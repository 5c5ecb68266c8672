------------------------------- MODULE Service -------------------------------
(***************************************************************************)
(* The life of the API processes: start-up from the environment            *)
(* (telemetry, validation, signing key, migrations), serving, and the end  *)
(* by SIGTERM or a crash.  Access tokens and the JWKS documents that       *)
(* external verifiers have cached outlive the process they come from.      *)
(*                                                                         *)
(* A token is the key that signed it, the kid in its header and the        *)
(* process that signed it, as long as that process is up.  Keys that       *)
(* nothing refers to any more are free to be generated again, so the       *)
(* number of restarts is not bounded.                                      *)
(***************************************************************************)
EXTENDS Integers, FiniteSets

CONSTANTS Process,         \* replicas
          Verifier,        \* external services that verify tokens with the JWKS
          ConfiguredKey,   \* keys in JWT_PRIVATE_KEY: every PEM createPublicKey takes
          EphemeralKey,    \* keys that generateEphemeralKeyPair may return
          LatestMigration, \* migrations that the code brings
          MaxInFlight,     \* bound: requests a process has at a time
          MaxTokens,       \* bound: unexpired tokens
          Null             \* no value

ASSUME ServiceAssumption ==
    /\ ConfiguredKey \cap EphemeralKey = {}
    /\ Null \notin Process \cup ConfiguredKey \cup EphemeralKey
    /\ LatestMigration \in Nat /\ MaxInFlight \in Nat /\ MaxTokens \in Nat

Key == ConfiguredKey \cup EphemeralKey

\* The environment a process is started with.  A variable may be absent or blank,
\* CORS_ORIGINS may hold only separators, and a private key may be no key.
Env == [NODE_ENV : {"production", "development"},
        JWT_PRIVATE_KEY : ConfiguredKey \cup {"blank", "garbage"},
        CORS_ORIGINS : {"absent", "separators", "given"},
        FRONTEND_URL : {"absent", "given"},
        OTEL_EXPORTER_OTLP_ENDPOINT : {"absent", "given"},
        DATABASE_MIGRATIONS_RUN : {"absent", "false"}]

VARIABLES
    pc,        \* where each process is
    conf,      \* what ConfigService and telemetry hold in each process, or Null
    migrated,  \* migrations recorded in the database
    plan,      \* migrated as runMigrations of each process has read it
    inFlight,  \* requests each process is serving
    tokens,    \* unexpired access tokens: [key, kid, by]
    cache,     \* JWKS entries each verifier holds: [key, kid]
    fetched    \* history: processes up whose document is in that cache

database == <<migrated, plan>>
outside == <<tokens, cache, fetched>>
vars == <<pc, conf, database, inFlight, outside>>

-----------------------------------------------------------------------------
(* Start-up, as far as it is a function of the environment.                *)

\* CORS_ORIGINS, else FRONTEND_URL, else localhost outside production.
ResolveCorsOrigins(env) ==
    IF env.CORS_ORIGINS = "given" \/ env.FRONTEND_URL = "given" THEN {"configured"}
    ELSE IF env.NODE_ENV # "production" THEN {"localhost"}
    ELSE {}

\* Mutant: NODE_ENV is not passed on, so that the localhost fallback applies.
ValidateProductionCorsOriginsAnyEnv(env) ==
    ResolveCorsOrigins([env EXCEPT !.NODE_ENV = "development"]) # {}

ValidateProductionCorsOrigins(env) ==
    ResolveCorsOrigins([env EXCEPT !.NODE_ENV = "production"]) # {}

ValidateEnv(env) ==
    env.NODE_ENV = "production" =>
      env.JWT_PRIVATE_KEY # "blank" /\ ValidateProductionCorsOrigins(env)

\* Mutant: a key pair for development is compiled in.
NewKeysConstant == {CHOOSE k \in EphemeralKey : TRUE}

\* A generated key is like no key that was ever used.
NewKeys ==
    EphemeralKey \ ({t.key : t \in tokens}
                      \cup (UNION {{e.key : e \in cache[v]} : v \in Verifier})
                      \cup {conf[p].key : p \in {q \in Process : conf[q] # Null}})

\* Mutant: a configured key is taken as it is, without createPublicKey.
ResolveSigningKeyPairUnparsed(env) ==
    IF env.JWT_PRIVATE_KEY # "blank" THEN {env.JWT_PRIVATE_KEY}
    ELSE IF env.NODE_ENV = "production" THEN {}
    ELSE NewKeys

\* The key pairs that may result; none when createPublicKey or the function throws.  It
\* does not ask for a private key: with a public one the process boots and cannot sign.
ResolveSigningKeyPair(env) ==
    IF env.JWT_PRIVATE_KEY \in ConfiguredKey THEN {env.JWT_PRIVATE_KEY}
    ELSE IF env.JWT_PRIVATE_KEY = "garbage" \/ env.NODE_ENV = "production" THEN {}
    ELSE NewKeys

\* Mutant: a constant kid.
ComputeRsaJwkThumbprintConstant(k) == <<"kid">>

\* A hash of the public key: different keys have different kids.
ComputeRsaJwkThumbprint(k) == <<"kid", k>>

\* Mutant: an absent variable switches the migrations off.
MigrationsRunExplicitly(c) == c.DATABASE_MIGRATIONS_RUN = "true"

MigrationsRun(c) == c.DATABASE_MIGRATIONS_RUN # "false"

\* What a process keeps of its environment.
Config(env, k) ==
    [NODE_ENV |-> env.NODE_ENV, key |-> k, origins |-> ResolveCorsOrigins(env),
     otel |-> env.OTEL_EXPORTER_OTLP_ENDPOINT = "given",
     DATABASE_MIGRATIONS_RUN |-> env.DATABASE_MIGRATIONS_RUN]

ConfigType ==
    [NODE_ENV : {"production", "development"}, key : Key,
     origins : SUBSET {"configured", "localhost"}, otel : BOOLEAN,
     DATABASE_MIGRATIONS_RUN : {"absent", "false"}]

\* A process that is down has no configuration, not an empty one.
ASSUME ConfigAssumption == Null \notin ConfigType

-----------------------------------------------------------------------------
(* Keys at work.                                                           *)

\* Mutant: the key pair is resolved again for every document.
PublishedKeysResolvedAgain(p) ==
    IF conf[p].key \in ConfiguredKey THEN {conf[p].key} ELSE NewKeys

\* JwksController reads the key that ConfigService has cached.
PublishedKeys(p) == {conf[p].key}

Entry(k) == [key |-> k, kid |-> ComputeRsaJwkThumbprint(k)]

\* JwtAuthGuard verifies with the process's own public key; it ignores the kid.
GuardAccepts(p, t) == pc[p] \in {"serving", "draining"} /\ t.key = conf[p].key

\* A verifier looks the kid up, and checks the signature with what it finds.
KeysFor(v, kid) == {e.key : e \in {f \in cache[v] : f.kid = kid}}

TypeOK ==
    /\ pc \in [Process -> {"down", "connect", "migrate", "listen", "serving", "draining"}]
    /\ conf \in [Process -> ConfigType \cup {Null}]
    /\ \A p \in Process : conf[p] = Null <=> pc[p] = "down"
    /\ migrated \in 0..LatestMigration
    /\ plan \in [Process -> 0..LatestMigration]
    /\ inFlight \in [Process -> 0..MaxInFlight]
    /\ \A t \in tokens : t.key \in Key /\ t.by \in Process \cup {Null}
    /\ \A v \in Verifier : \A e \in cache[v] : e.key \in Key
    /\ fetched \in [Verifier -> SUBSET Process]

\* The database is as some earlier version, or none, has left it.
Init ==
    /\ pc = [p \in Process |-> "down"]
    /\ conf = [p \in Process |-> Null]
    /\ migrated \in 0..LatestMigration
    /\ plan = [p \in Process |-> 0]
    /\ inFlight = [p \in Process |-> 0]
    /\ tokens = {}
    /\ cache = [v \in Verifier |-> {}]
    /\ fetched = [v \in Verifier |-> {}]

Goto(p, label) == pc' = [pc EXCEPT ![p] = label]

-----------------------------------------------------------------------------
(* Start-up.  A process whose environment is refused exits without a trace. *)

Boot(p, env) ==
    /\ pc[p] = "down"
    /\ ValidateEnv(env)
    /\ \E k \in ResolveSigningKeyPair(env) :
         conf' = [conf EXCEPT ![p] = Config(env, k)]
    /\ Goto(p, "connect")
    /\ UNCHANGED <<database, inFlight, outside>>

\* The data source is initialised; runMigrations reads what is recorded.
Connect(p) ==
    /\ pc[p] = "connect"
    /\ IF MigrationsRun(conf[p]) /\ migrated # LatestMigration
       THEN Goto(p, "migrate") /\ plan' = [plan EXCEPT ![p] = migrated]
       ELSE Goto(p, "listen") /\ UNCHANGED plan
    /\ UNCHANGED <<conf, migrated, inFlight, outside>>

\* All pending migrations run in one transaction.  When another replica has
\* committed them first, the transaction fails on what it finds in the schema, and
\* the data source is initialised again.
Migrate(p) ==
    /\ pc[p] = "migrate"
    /\ IF migrated = plan[p]
       THEN migrated' = LatestMigration /\ Goto(p, "listen")
       ELSE UNCHANGED migrated /\ Goto(p, "connect")
    /\ plan' = [plan EXCEPT ![p] = 0]
    /\ UNCHANGED <<conf, inFlight, outside>>

Listen(p) ==
    /\ pc[p] = "listen"
    /\ Goto(p, "serving")
    /\ UNCHANGED <<conf, database, inFlight, outside>>

-----------------------------------------------------------------------------
(* Serving.                                                                *)

StartRequest(p) ==
    /\ pc[p] = "serving"
    /\ inFlight[p] < MaxInFlight
    /\ inFlight' = [inFlight EXCEPT ![p] = @ + 1]
    /\ UNCHANGED <<pc, conf, database, outside>>

\* A request is answered; a login or refresh also signs an access token, unless it
\* fails: always, where the configured PEM is a public key or no RSA key.
FinishRequest(p) ==
    /\ inFlight[p] > 0
    /\ inFlight' = [inFlight EXCEPT ![p] = @ - 1]
    /\ \/ UNCHANGED tokens
       \/ /\ Cardinality(tokens) < MaxTokens
          /\ tokens' = tokens \cup
                {[key |-> conf[p].key, kid |-> ComputeRsaJwkThumbprint(conf[p].key), by |-> p]}
    /\ UNCHANGED <<pc, conf, database, cache, fetched>>

\* A verifier gets p's document and replaces or extends what it has cached.
FetchJwks(v, p) ==
    /\ pc[p] = "serving"
    /\ \E k \in PublishedKeys(p) :
         \/ /\ cache' = [cache EXCEPT ![v] = {Entry(k)}]
            /\ fetched' = [fetched EXCEPT ![v] = {p}]
         \/ /\ cache' = [cache EXCEPT ![v] = @ \cup {Entry(k)}]
            /\ fetched' = [fetched EXCEPT ![v] = @ \cup {p}]
    /\ UNCHANGED <<pc, conf, database, inFlight, tokens>>

TokenExpires(t) ==
    /\ t \in tokens
    /\ tokens' = tokens \ {t}
    /\ UNCHANGED <<pc, conf, database, inFlight, cache, fetched>>

-----------------------------------------------------------------------------
(* The end of a process.                                                   *)

\* p is gone; what it signed and published stays where it is.
Exit(p) ==
    /\ Goto(p, "down")
    /\ conf' = [conf EXCEPT ![p] = Null]
    /\ plan' = [plan EXCEPT ![p] = 0]
    /\ inFlight' = [inFlight EXCEPT ![p] = 0]
    /\ tokens' = {IF t.by = p THEN [t EXCEPT !.by = Null] ELSE t : t \in tokens}
    /\ fetched' = [v \in Verifier |-> fetched[v] \ {p}]
    /\ UNCHANGED <<migrated, cache>>

\* SIGTERM: enableShutdownHooks makes Nest close the server, which takes no new
\* requests.
Terminate(p) ==
    /\ pc[p] = "serving"
    /\ Goto(p, "draining")
    /\ UNCHANGED <<conf, database, inFlight, outside>>

\* The last request is answered and the data source is closed.
ExitDrained(p) ==
    /\ pc[p] = "draining" /\ inFlight[p] = 0
    /\ Exit(p)

\* telemetry.ts registers its own handlers, next to Nest's.
TelemetryHandlesSigterm(p) == conf[p].otel

\* That handler exits when the SDK has been flushed, whatever is in flight.
ExitFlushed(p) ==
    /\ pc[p] = "draining"
    /\ TelemetryHandlesSigterm(p)
    /\ Exit(p)

\* The process dies, is killed, or gets the signal before it serves.
Crash(p) ==
    /\ pc[p] # "down"
    /\ Exit(p)

Next ==
    \/ \E p \in Process :
         \/ \E env \in Env : Boot(p, env)
         \/ Connect(p) \/ Migrate(p) \/ Listen(p)
         \/ StartRequest(p) \/ FinishRequest(p)
         \/ \E v \in Verifier : FetchJwks(v, p)
         \/ Terminate(p) \/ ExitDrained(p) \/ ExitFlushed(p) \/ Crash(p)
    \/ \E t \in tokens : TokenExpires(t)

Spec == Init /\ [][Next]_vars

-----------------------------------------------------------------------------
(* Safety.                                                                 *)

\* No process in production runs on what development falls back to: it has
\* a configured key and allows configured origins only, and at least one.
ProductionIsConfigured ==
    \A p \in Process : conf[p] # Null /\ conf[p].NODE_ENV = "production" =>
      conf[p].key \in ConfiguredKey /\ conf[p].origins = {"configured"}

\* A process that was not told to leave the migrations alone never answers a request
\* on an older schema, even when replicas race to migrate and one of them fails.
ServesOnLatestSchema ==
    \A p \in Process :
      pc[p] \in {"serving", "draining"} /\ conf[p].DATABASE_MIGRATIONS_RUN = "absent"
        => migrated = LatestMigration

\* A verifier that has a document of the process that signed a token accepts the token:
\* signing and publication use the same key pair, an ephemeral one too.  And a kid names one
\* key for ever: however old the other documents of the verifier are and whichever replica
\* they came from, it finds no key for the token but the one that signed it.
SignedIsPublished ==
    \A v \in Verifier, t \in tokens :
      /\ KeysFor(v, t.kid) \subseteq {t.key}
      /\ t.by \in fetched[v] => t.key \in KeysFor(v, t.kid)

\* A token signed with an ephemeral key is accepted by the process that signed it
\* and by nobody else: neither by a replica nor by the same process restarted.
EphemeralTokensDieWithTheirProcess ==
    \A p \in Process, t \in tokens :
      t.key \in EphemeralKey => (GuardAccepts(p, t) => t.by = p)
=============================================================================
