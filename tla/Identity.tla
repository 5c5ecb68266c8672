------------------------------- MODULE Identity -------------------------------
(***************************************************************************)
(* Registration, login and the platform-admin flag: the auth handlers that *)
(* drive Keycloak (external) and the user context, interleaved at their    *)
(* awaits.  The identity in Keycloak and the local user row are written    *)
(* one after the other with no transaction around them.                    *)
(*                                                                         *)
(* UserBuilder is one object shared by all requests of the process; every  *)
(* load and every build goes through it, so what it was last given is part *)
(* of the state.                                                           *)
(***************************************************************************)
EXTENDS FiniteSets

CONSTANTS Email,     \* addresses that register
          Request,   \* concurrent request slots
          Null       \* PLATFORM_ADMIN_EMAILS is not set; no email

ASSUME NullAssumption == Null \notin Email /\ \A S \in SUBSET Email : S # Null

VARIABLES
    identities,   \* emails that have an identity in Keycloak
    users,        \* table user: emails that have a row
    admin,        \* emails whose row has platform_admin = true
    sessions,     \* emails that have a refresh token
    adminTokens,  \* emails that hold a valid access token with platformAdmin
    config,       \* auth.platformAdminEmails: Null or a set of emails
    builder,      \* platformAdmin as last given to the shared UserBuilder
    pc,           \* where each request is
    email,        \* the email each request is about
    flag,         \* the platformAdmin each request has in hand
    allowed,      \* history: emails that were ever on a deployed allowlist
    reconciled,   \* history: emails that logged in since the last deployment
    lost          \* history: emails whose registration failed after Keycloak's part

stored == <<identities, users, admin, sessions>>
history == <<allowed, reconciled, lost>>
vars == <<stored, adminTokens, config, builder, pc, email, flag, history>>

Allowlist == SUBSET Email

\* Program points with an identity created and the user row still to be written.
Provisioning == {"registerAssert", "registerSave"}
ProvisionedBy(r, e) == pc[r] \in Provisioning /\ email[r] = e

TypeOK ==
    /\ identities \subseteq Email /\ users \subseteq Email /\ admin \subseteq Email
    /\ sessions \subseteq Email /\ adminTokens \subseteq Email
    /\ config = Null \/ config \in Allowlist
    /\ builder \in BOOLEAN
    /\ pc \in [Request -> Provisioning \cup
               {"idle", "registerCheck", "registerIdentity", "loginVerify",
                "loginLookup", "loginReconcile", "setLoad", "setSave", "loginFinish",
                "refreshLookup", "refreshSign"}]
    /\ email \in [Request -> Email \cup {Null}]
    /\ flag \in [Request -> BOOLEAN]
    /\ allowed \subseteq Email /\ reconciled \subseteq Email /\ lost \subseteq Email

Init ==
    /\ identities = {} /\ users = {} /\ admin = {} /\ sessions = {}
    /\ adminTokens = {}
    /\ config = Null
    /\ builder = FALSE
    /\ pc = [r \in Request |-> "idle"]
    /\ email = [r \in Request |-> Null]
    /\ flag = [r \in Request |-> FALSE]
    /\ allowed = {} /\ reconciled = {} /\ lost = {}

-----------------------------------------------------------------------------
Start(r, e, label) ==
    /\ pc[r] = "idle"
    /\ pc' = [pc EXCEPT ![r] = label]
    /\ email' = [email EXCEPT ![r] = e]
    /\ UNCHANGED <<stored, adminTokens, config, builder, flag, history>>

Goto(r, label) ==
    /\ pc' = [pc EXCEPT ![r] = label]
    /\ UNCHANGED email

\* The request is answered; its locals are gone.
End(r) ==
    /\ pc' = [pc EXCEPT ![r] = "idle"]
    /\ email' = [email EXCEPT ![r] = Null]
    /\ flag' = [flag EXCEPT ![r] = FALSE]

\* findByEmail, findById: is there a row?
Found(e) == e \in users

\* Loading e's row goes through the shared builder (UserTypeOrmMapper).
Load(e) == builder' = IF Found(e) THEN e \in admin ELSE builder

SetAdmin(e, value) == admin' = IF value THEN admin \cup {e} ELSE admin \ {e}

\* An access token with this platformAdmin claim is signed for e.
Sign(e, value) ==
    adminTokens' = IF value THEN adminTokens \cup {e} ELSE adminTokens

\* PlatformAdminGuard decides from the token alone.
PassesPlatformAdminGuard(e) == e \in adminTokens

-----------------------------------------------------------------------------
(* RegisterUserCommandHandler                                              *)

StartRegister(r, e) == Start(r, e, "registerCheck")

PreCheck(r) ==
    /\ pc[r] = "registerCheck"
    /\ Load(email[r])
    /\ IF Found(email[r]) THEN End(r)
       ELSE Goto(r, "registerIdentity") /\ UNCHANGED flag
    /\ UNCHANGED <<stored, adminTokens, config, history>>

\* Mutants: a 409 is taken for success; an answer without the new id is an error.
RegisterIdentityAdopts(r) ==
    /\ pc[r] = "registerIdentity"
    /\ identities' = identities \cup {email[r]}
    /\ Goto(r, "registerAssert")
    /\ UNCHANGED <<users, admin, sessions, adminTokens, config, builder, flag, history>>
RegisterIdentityGivesUp(r) ==
    /\ pc[r] = "registerIdentity"
    /\ identities' = identities \cup {email[r]}
    /\ End(r)
    /\ UNCHANGED <<users, admin, sessions, adminTokens, config, builder, history>>

\* Keycloak creates the identity, or answers 409: it has one for this email.
RegisterIdentity(r) ==
    /\ pc[r] = "registerIdentity"
    /\ identities' = identities \cup {email[r]}
    /\ IF email[r] \in identities THEN End(r)
       ELSE Goto(r, "registerAssert") /\ UNCHANGED flag
    /\ UNCHANGED <<users, admin, sessions, adminTokens, config, builder, history>>

\* CreateUserCommandHandler: assertUserEmailAvailable.
AssertUserEmailAvailable(r) ==
    /\ pc[r] = "registerAssert"
    /\ Load(email[r])
    /\ IF Found(email[r]) THEN End(r)
       ELSE Goto(r, "registerSave") /\ UNCHANGED flag
    /\ UNCHANGED <<stored, adminTokens, config, history>>

\* Mutant: withPlatformAdmin is not called, the builder keeps what it has.
NewUserFlagLeftOver == builder

\* CreateUserCommandHandler calls withPlatformAdmin(false).
NewUserFlag == FALSE

\* UNIQUE(email) rejects a second row.
EmailConflict(e) == e \in users

\* repo.save() of a new user.
Insert(e, value) == users' = users \cup {e} /\ SetAdmin(e, value)

\* Build and save.
CreateUser(r) ==
    /\ pc[r] = "registerSave"
    /\ builder' = NewUserFlag
    /\ IF EmailConflict(email[r]) THEN UNCHANGED <<users, admin>>
       ELSE Insert(email[r], NewUserFlag)
    /\ End(r)
    /\ UNCHANGED <<identities, sessions, adminTokens, config, history>>

-----------------------------------------------------------------------------
(* LoginUserCommandHandler, and SetUserPlatformAdmin which it dispatches.  *)

StartLogin(r, e) == Start(r, e, "loginVerify")

\* Keycloak refuses a wrong password, and any password of an unknown email.
VerifyCredentials(r) ==
    /\ pc[r] = "loginVerify"
    /\ \/ email[r] \in identities /\ Goto(r, "loginLookup") /\ UNCHANGED flag
       \/ End(r)
    /\ UNCHANGED <<stored, adminTokens, config, builder, history>>

LoginLookup(r) ==
    /\ pc[r] = "loginLookup"
    /\ Load(email[r])
    /\ IF ~Found(email[r]) THEN End(r)
       ELSE /\ flag' = [flag EXCEPT ![r] = email[r] \in admin]
            /\ Goto(r, "loginReconcile")
    /\ UNCHANGED <<stored, adminTokens, config, history>>

\* Mutants: grants only; an unset variable is read as an empty list.
MustChangeGrantsOnly(e, current) == config # Null /\ e \in config /\ ~current
MustChangeUnsetIsEmpty(e, current) ==
    current # (config # Null /\ e \in config)

\* ReconcilePlatformAdminService returns a value rather than null.
MustChange(e, current) == config # Null /\ current # (e \in config)

\* UserPlatformAdminAdapter dispatches SetUserPlatformAdminCommand.
DispatchSet(r, value) ==
    /\ flag' = [flag EXCEPT ![r] = value]
    /\ Goto(r, "setLoad")

Reconcile(r) ==
    /\ pc[r] = "loginReconcile"
    /\ IF MustChange(email[r], flag[r]) THEN DispatchSet(r, ~flag[r])
       ELSE Goto(r, "loginFinish") /\ UNCHANGED flag
    /\ UNCHANGED <<stored, adminTokens, config, builder, history>>

\* The stored flag has the value the command asks for.
Redundant(r) == (email[r] \in admin) = flag[r]

\* SetUserPlatformAdminCommandHandler loads the row and skips a redundant change.
SetLoad(r) ==
    /\ pc[r] = "setLoad"
    /\ Load(email[r])
    /\ IF Redundant(r) THEN Goto(r, "loginFinish")
       ELSE Goto(r, "setSave")
    /\ UNCHANGED <<stored, adminTokens, config, flag, history>>

\* Mutant: the row is saved with what the shared builder was last given.
SetUserPlatformAdminLeftOver(r) ==
    /\ pc[r] = "setSave"
    /\ SetAdmin(email[r], builder)
    /\ Goto(r, "loginFinish")
    /\ UNCHANGED <<identities, users, sessions, adminTokens, config, builder, flag, history>>

SetUserPlatformAdmin(r) ==
    /\ pc[r] = "setSave"
    /\ SetAdmin(email[r], flag[r])
    /\ builder' = flag[r]
    /\ Goto(r, "loginFinish")
    /\ UNCHANGED <<identities, users, sessions, adminTokens, config, flag, history>>

\* Sign the access token, store the session, answer.
LoginFinish(r) ==
    /\ pc[r] = "loginFinish"
    /\ Sign(email[r], flag[r])
    /\ sessions' = sessions \cup {email[r]}
    /\ reconciled' = reconciled \cup {email[r]}
    /\ End(r)
    /\ UNCHANGED <<identities, users, admin, config, builder, allowed, lost>>

-----------------------------------------------------------------------------
(* RefreshSessionCommandHandler after the rotation: it signs the stored    *)
(* flag and does not reconcile.                                            *)

StartRefresh(r, e) == e \in sessions /\ Start(r, e, "refreshLookup")

\* Mutant: UserLookupAdapter.toResult leaves platformAdmin out.
RefreshLookupWithoutFlag(r) ==
    /\ pc[r] = "refreshLookup"
    /\ flag' = [flag EXCEPT ![r] = Null]
    /\ Goto(r, "refreshSign")
    /\ UNCHANGED <<stored, adminTokens, config, builder, history>>

RefreshLookup(r) ==
    /\ pc[r] = "refreshLookup"
    /\ Load(email[r])
    /\ flag' = [flag EXCEPT ![r] = email[r] \in admin]
    /\ Goto(r, "refreshSign")
    /\ UNCHANGED <<stored, adminTokens, config, history>>

RefreshSign(r) ==
    /\ pc[r] = "refreshSign"
    /\ Sign(email[r], flag[r])
    /\ End(r)
    /\ UNCHANGED <<stored, config, builder, history>>

-----------------------------------------------------------------------------
(* The environment.                                                        *)

TokenExpires(e) ==
    /\ e \in adminTokens
    /\ adminTokens' = adminTokens \ {e}
    /\ UNCHANGED <<stored, config, builder, pc, email, flag, history>>

\* A query or an HTTP call fails, or its answer is lost.
Crash(r) ==
    /\ pc[r] # "idle"
    /\ lost' = lost \cup {e \in Email : ProvisionedBy(r, e)}
    /\ End(r)
    /\ UNCHANGED <<stored, adminTokens, config, builder, allowed, reconciled>>

\* The process restarts with another PLATFORM_ADMIN_EMAILS; what ran is gone.
Deploy(c) ==
    /\ config' = c
    /\ allowed' = IF c = Null THEN allowed ELSE allowed \cup c
    /\ reconciled' = {}
    /\ lost' = lost \cup {e \in Email : \E r \in Request : ProvisionedBy(r, e)}
    /\ builder' = FALSE
    /\ pc' = [r \in Request |-> "idle"]
    /\ email' = [r \in Request |-> Null]
    /\ flag' = [r \in Request |-> FALSE]
    /\ UNCHANGED <<stored, adminTokens>>

-----------------------------------------------------------------------------
Step(r) ==
    \/ PreCheck(r) \/ RegisterIdentity(r) \/ AssertUserEmailAvailable(r) \/ CreateUser(r)
    \/ VerifyCredentials(r) \/ LoginLookup(r) \/ Reconcile(r)
    \/ SetLoad(r) \/ SetUserPlatformAdmin(r) \/ LoginFinish(r)
    \/ RefreshLookup(r) \/ RefreshSign(r)
    \/ Crash(r)

Next ==
    \/ \E r \in Request :
         \/ Step(r)
         \/ \E e \in Email :
              \/ StartRegister(r, e)
              \/ StartLogin(r, e)
              \/ StartRefresh(r, e)
    \/ \E e \in Email : TokenExpires(e)
    \/ \E c \in Allowlist \cup {Null} : Deploy(c)

Spec == Init /\ [][Next]_vars

-----------------------------------------------------------------------------
(* Registration.                                                           *)

\* Keycloak serialises registrations of one email: of any number that pass the
\* pre-check, one goes on to write the user row, the row is not there yet, and so
\* the local uniqueness checks, which come too late to undo the identity, never fail.
ProvisionedOnce ==
    \A r \in Request : pc[r] \in Provisioning =>
      /\ email[r] \in identities \ (users \cup lost)
      /\ \A q \in Request : ProvisionedBy(q, email[r]) => q = r

\* An identity without a local user, with which nobody can log in, is left behind by
\* a failure between the two writes and by nothing else.
OrphansOnlyByFailure ==
    identities \ users \subseteq
      lost \cup {e \in Email : \E r \in Request : ProvisionedBy(r, e)}

\* A registration never adopts an identity that another request created (and whose
\* password somebody else chose), not even to repair a failed one.
IdentityIsNotAdopted == [][lost \cap users' \subseteq users]_vars

-----------------------------------------------------------------------------
(* Platform admins.                                                        *)

\* Whoever is a platform admin in the table, to PlatformAdminGuard or in a request
\* under way was on a deployed allowlist at some time: neither a race nor a value
\* left over in the shared builder makes anybody else one.
AdminsWereAllowed ==
    /\ admin \subseteq allowed
    /\ \A e \in Email : PassesPlatformAdminGuard(e) => e \in allowed
    /\ \A r \in Request : flag[r] => email[r] \in allowed

\* A login reconciles for good: until the next deployment no concurrent login,
\* refresh, registration or failure makes the stored flag differ from the allowlist.
FlagFollowsAllowlist ==
    config # Null => \A e \in reconciled : e \in admin <=> e \in config

\* While PLATFORM_ADMIN_EMAILS is unset no step changes a stored flag.
UnsetLeavesFlags == [][config = Null => admin' = admin]_vars

-----------------------------------------------------------------------------
(* What this promises, seen from outside.                                  *)

AccountsOf == INSTANCE Accounts WITH
    Person <- Email,
    None <- Null,
    accounts <- users,
    abandoned <- lost,
    admins <- admin,
    loggedIn <- sessions,
    settled <- reconciled,
    privileged <- adminTokens,
    list <- config,
    listed <- allowed

\* Interleaved at their awaits, through one shared builder and failing anywhere, the
\* handlers change accounts and privileges only by the atomic operations of Accounts.
\* In particular the token of a login carries the flag that is stored when it is
\* signed, several awaits after it was read, and a refresh signs a flag that is not
\* stored any more only for somebody whom the deployed allowlist leaves out.
ImplementsAccounts == AccountsOf!Spec
=============================================================================
