--------------------------- MODULE IdentityProofs ---------------------------
(***************************************************************************)
(* Registration and the platform-admin flag for any number of emails and   *)
(* requests and any sequence of deployments, and that the handlers         *)
(* implement Accounts.                                                     *)
(***************************************************************************)
EXTENDS Identity, TLAPS

\* The stored flag of e is what the deployed allowlist says.
Agrees(e) == e \in admin <=> e \in config

\* Program points of a login that has found its user.
LoggedIn == {"loginReconcile", "setLoad", "setSave", "loginFinish"}

\* Rows and failed registrations have an identity, flags and sessions have a row, and
\* the allowlist is one that was deployed.
StoreInv ==
    /\ users \subseteq identities /\ lost \subseteq identities
    /\ admin \subseteq users /\ sessions \subseteq users /\ reconciled \subseteq users
    /\ config # Null => config \subseteq allowed

\* What a request knows at each program point.  A login that leaves the flag alone has
\* seen it agree with the allowlist; a change that is dispatched is towards it.
Knows(r) ==
    /\ pc[r] # "idle" => email[r] \in Email
    /\ pc[r] = "idle" => ~flag[r]
    /\ pc[r] \in LoggedIn => email[r] \in users
    /\ pc[r] \in {"setLoad", "setSave"} =>
         config # Null /\ (flag[r] <=> email[r] \in config)
    /\ pc[r] = "loginReconcile" /\ config # Null /\ (flag[r] <=> email[r] \in config) =>
         Agrees(email[r])
    /\ pc[r] = "loginFinish" /\ config # Null => Agrees(email[r])

RequestInv == \A r \in Request : Knows(r)

IInv ==
    /\ TypeOK /\ StoreInv /\ RequestInv
    /\ ProvisionedOnce /\ OrphansOnlyByFailure
    /\ AdminsWereAllowed /\ FlagFollowsAllowlist

-----------------------------------------------------------------------------
\* The invariant holds of a system nobody has used.
LEMMA InitIInv == Init => IInv
<1> SUFFICES ASSUME Init PROVE IInv
  OBVIOUS
<1> USE NullAssumption DEF Init
<1>1. TypeOK /\ StoreInv
  BY DEF TypeOK, StoreInv
<1>2. RequestInv
  BY DEF RequestInv, Knows, LoggedIn
<1>3. ProvisionedOnce /\ OrphansOnlyByFailure
  BY DEF ProvisionedOnce, OrphansOnlyByFailure, Provisioning
<1>4. AdminsWereAllowed /\ FlagFollowsAllowlist
  BY DEF AdminsWereAllowed, FlagFollowsAllowlist, PassesPlatformAdminGuard
<1> QED
  BY <1>1, <1>2, <1>3, <1>4 DEF IInv

\* The program points.
Label ==
    Provisioning \cup
      {"idle", "registerCheck", "registerIdentity", "loginVerify", "loginLookup",
       "loginReconcile", "setLoad", "setSave", "loginFinish", "refreshLookup", "refreshSign"}

\* Request r moves from one program point to another, perhaps with another email and flag.
Moves(r, label, e, f) ==
    /\ pc' = [pc EXCEPT ![r] = label]
    /\ email' = [email EXCEPT ![r] = e]
    /\ flag' = [flag EXCEPT ![r] = f]

\* What a move does to each request.
LEMMA MoveFacts ==
  ASSUME TypeOK, NEW r \in Request, NEW label \in Label, NEW e \in Email \cup {Null},
         NEW f \in BOOLEAN, Moves(r, label, e, f)
  PROVE  /\ pc' \in [Request -> Label] /\ email' \in [Request -> Email \cup {Null}]
         /\ flag' \in [Request -> BOOLEAN]
         /\ pc'[r] = label /\ email'[r] = e /\ flag'[r] = f
         /\ \A q \in Request \ {r} : /\ pc'[q] = pc[q] /\ email'[q] = email[q]
                                     /\ flag'[q] = flag[q]
  BY DEF TypeOK, Moves, Label

\* A step that only moves a request keeps the invariant when the request knows what it
\* should at its new program point and enters or leaves no provisioning.
LEMMA MoveIInv ==
  ASSUME IInv, NEW r \in Request, NEW label \in Label, NEW e \in Email \cup {Null},
         NEW f \in BOOLEAN, Moves(r, label, e, f), builder' \in BOOLEAN,
         UNCHANGED <<stored, adminTokens, config, history>>,
         label \in Provisioning <=> pc[r] \in Provisioning,
         pc[r] \in Provisioning => e = email[r],
         f => e \in allowed,
         Knows(r)'
  PROVE  IInv'
<1>1. /\ UNCHANGED <<identities, users, admin, sessions, adminTokens, config, allowed,
                     reconciled, lost>>
      /\ TypeOK /\ pc \in [Request -> Label]
  BY DEF stored, history, IInv, TypeOK, Label
<1>2. /\ pc' \in [Request -> Label] /\ email' \in [Request -> Email \cup {Null}]
      /\ flag' \in [Request -> BOOLEAN]
      /\ pc'[r] = label /\ email'[r] = e /\ flag'[r] = f
      /\ \A q \in Request \ {r} : /\ pc'[q] = pc[q] /\ email'[q] = email[q]
                                  /\ flag'[q] = flag[q]
  BY <1>1, MoveFacts
<1>3. TypeOK'
  BY <1>1, <1>2 DEF TypeOK, Label
<1>4. StoreInv'
  BY <1>1 DEF IInv, StoreInv
<1>5. RequestInv'
  <2>1. ASSUME NEW q \in Request \ {r} PROVE Knows(q)'
    BY <1>1, <1>2, <2>1 DEF IInv, RequestInv, Knows, Agrees
  <2> QED
    BY <2>1 DEF RequestInv
<1>6. \A q \in Request, d \in Email : ProvisionedBy(q, d)' <=> ProvisionedBy(q, d)
  BY <1>2 DEF ProvisionedBy
<1>7. ProvisionedOnce'
  <2>1. ASSUME NEW q \in Request, pc'[q] \in Provisioning
        PROVE  pc[q] \in Provisioning /\ email'[q] = email[q]
    BY <1>2, <2>1
  <2> QED
    BY <1>1, <2>1 DEF IInv, ProvisionedOnce, ProvisionedBy
<1>8. OrphansOnlyByFailure'
  BY <1>1, <1>6 DEF IInv, OrphansOnlyByFailure
<1>9. AdminsWereAllowed'
  BY <1>1, <1>2 DEF IInv, AdminsWereAllowed, PassesPlatformAdminGuard
<1>10. FlagFollowsAllowlist'
  BY <1>1 DEF IInv, FlagFollowsAllowlist
<1> QED
  BY <1>3, <1>4, <1>5, <1>7, <1>8, <1>9, <1>10 DEF IInv

\* A request ends that has created no identity, or has stored its user.
LEMMA EndIInv ==
  ASSUME IInv, NEW r \in Request, End(r), pc[r] \notin Provisioning, builder' \in BOOLEAN,
         UNCHANGED <<stored, adminTokens, config, history>>
  PROVE  IInv'
<1>1. Moves(r, "idle", Null, FALSE)
  BY DEF End, Moves
<1>2. pc'[r] = "idle" /\ ~flag'[r]
  BY DEF End, IInv, TypeOK
<1>3. Knows(r)'
  BY <1>2 DEF Knows, LoggedIn
<1> QED
  BY <1>1, <1>3, MoveIInv DEF Label, Provisioning

\* A request goes on with its email and flag.
LEMMA GotoIInv ==
  ASSUME IInv, NEW r \in Request, NEW label \in Label, Goto(r, label), flag' = flag,
         builder' \in BOOLEAN, UNCHANGED <<stored, adminTokens, config, history>>,
         label \in Provisioning <=> pc[r] \in Provisioning,
         pc[r] # "idle", label # "idle",
         label \in LoggedIn => email[r] \in users,
         label \in {"setLoad", "setSave"} =>
           config # Null /\ (flag[r] <=> email[r] \in config),
         label = "loginReconcile" => FALSE,
         label = "loginFinish" /\ config # Null => Agrees(email[r])
  PROVE  IInv'
<1>1. Moves(r, label, email[r], flag[r])
  BY DEF Goto, Moves, IInv, TypeOK
<1>2. /\ pc'[r] = label /\ email'[r] = email[r] /\ flag'[r] = flag[r]
      /\ users' = users /\ config' = config /\ admin' = admin
  BY DEF Goto, IInv, TypeOK, stored
<1>3. email[r] \in Email
  BY DEF IInv, RequestInv, Knows
<1>4. Knows(r)'
  BY <1>2, <1>3 DEF Knows, Agrees
<1>5. flag[r] \in BOOLEAN /\ (flag[r] => email[r] \in allowed)
  BY DEF IInv, TypeOK, AdminsWereAllowed
<1> QED
  BY <1>1, <1>3, <1>4, <1>5, MoveIInv

\* Loading a row leaves a Boolean in the builder.
LEMMA LoadType ==
  ASSUME TypeOK, NEW e, Load(e)
  PROVE  builder' \in BOOLEAN
<1>1. CASE Found(e) /\ e \in admin
  <2>1. builder' = TRUE
    BY <1>1 DEF Load
  <2> QED
    BY <2>1
<1>2. CASE Found(e) /\ e \notin admin
  <2>1. builder' = (e \in admin)
    BY <1>2, Zenon DEF Load
  <2>2. (e \in admin) = FALSE
    BY <1>2
  <2> QED
    BY <2>1, <2>2, Zenon
<1>3. CASE ~Found(e)
  BY <1>3 DEF TypeOK, Load
<1> QED
  BY <1>1, <1>2, <1>3

\* A request is given its email.
LEMMA StartIInv ==
  ASSUME IInv, NEW r \in Request, NEW e \in Email,
         NEW label \in {"registerCheck", "loginVerify", "refreshLookup"}, Start(r, e, label)
  PROVE  IInv'
<1>1. flag[r] = FALSE
  BY DEF Start, IInv, TypeOK, RequestInv, Knows
<1>2. Moves(r, label, e, FALSE) /\ label \in Label /\ label \notin Provisioning
  BY <1>1 DEF Start, Moves, IInv, TypeOK, Label, Provisioning
<1>3. pc'[r] = label /\ email'[r] = e
  BY DEF Start, IInv, TypeOK
<1>4. Knows(r)'
  BY <1>3 DEF Knows, LoggedIn
<1>5. pc[r] \notin Provisioning /\ builder' \in BOOLEAN
  BY DEF Start, Provisioning, IInv, TypeOK
<1> QED
  BY <1>2, <1>4, <1>5, MoveIInv DEF Start

\* The checks before and after the identity is created.
LEMMA PreCheckIInv ==
  ASSUME IInv, NEW r \in Request, PreCheck(r)
  PROVE  IInv'
<1>1. builder' \in BOOLEAN /\ pc[r] = "registerCheck" /\ pc[r] \notin Provisioning
  BY LoadType DEF PreCheck, IInv, Provisioning
<1>2. CASE End(r)
  BY <1>1, <1>2, EndIInv DEF PreCheck
<1>3. CASE Goto(r, "registerIdentity") /\ UNCHANGED flag
  BY <1>1, <1>3, GotoIInv DEF PreCheck, Label, Provisioning, LoggedIn
<1> QED
  BY <1>2, <1>3 DEF PreCheck

\* Of the requests that provision one email only one is here, and there is no row yet.
LEMMA AssertIInv ==
  ASSUME IInv, NEW r \in Request, AssertUserEmailAvailable(r)
  PROVE  IInv'
<1>1. builder' \in BOOLEAN /\ pc[r] = "registerAssert" /\ pc[r] \in Provisioning
  BY LoadType DEF AssertUserEmailAvailable, IInv, Provisioning
<1>2. ~Found(email[r])
  BY <1>1 DEF IInv, ProvisionedOnce, Found
<1> QED
  BY <1>1, <1>2, GotoIInv DEF AssertUserEmailAvailable, Label, Provisioning, LoggedIn

\* Credentials are checked.
LEMMA VerifyIInv ==
  ASSUME IInv, NEW r \in Request, VerifyCredentials(r)
  PROVE  IInv'
<1>1. builder' \in BOOLEAN /\ pc[r] = "loginVerify" /\ pc[r] \notin Provisioning
  BY DEF VerifyCredentials, IInv, TypeOK, Provisioning
<1>2. CASE End(r)
  BY <1>1, <1>2, EndIInv DEF VerifyCredentials
<1>3. CASE Goto(r, "loginLookup") /\ UNCHANGED flag
  BY <1>1, <1>3, GotoIInv DEF VerifyCredentials, Label, Provisioning, LoggedIn
<1> QED
  BY <1>2, <1>3 DEF VerifyCredentials

\* A lookup takes the stored flag in hand.
LEMMA LookupIInv ==
  ASSUME IInv, NEW r \in Request, NEW label \in {"loginReconcile", "refreshSign"},
         pc[r] \in {"loginLookup", "refreshLookup"},
         label = "loginReconcile" => email[r] \in users,
         flag' = [flag EXCEPT ![r] = email[r] \in admin], Goto(r, label),
         builder' \in BOOLEAN, UNCHANGED <<stored, adminTokens, config, history>>
  PROVE  IInv'
<1> DEFINE f == email[r] \in admin
<1>1. f \in BOOLEAN /\ (f => email[r] \in allowed)
  BY DEF IInv, AdminsWereAllowed
<1>2. email[r] \in Email
  BY DEF IInv, RequestInv, Knows
<1>3. Moves(r, label, email[r], f) /\ label \in Label /\ label \notin Provisioning
  BY DEF Moves, Goto, IInv, TypeOK, Label, Provisioning
<1>4. /\ pc'[r] = label /\ email'[r] = email[r] /\ flag'[r] = f
      /\ users' = users /\ config' = config /\ admin' = admin
  BY DEF Goto, IInv, TypeOK, stored
<1>5. Knows(r)'
  BY <1>2, <1>4 DEF Knows, Agrees, LoggedIn
<1>6. pc[r] \notin Provisioning
  BY DEF Provisioning
<1> HIDE DEF f
<1> QED
  BY <1>1, <1>2, <1>3, <1>5, <1>6, MoveIInv

\* Login and refresh look the user up.
LEMMA LookupsIInv ==
  ASSUME IInv, NEW r \in Request, LoginLookup(r) \/ RefreshLookup(r)
  PROVE  IInv'
<1>1. builder' \in BOOLEAN /\ pc[r] \in {"loginLookup", "refreshLookup"}
  BY LoadType DEF LoginLookup, RefreshLookup, IInv
<1>2. CASE LoginLookup(r) /\ End(r)
  BY <1>1, <1>2, EndIInv DEF LoginLookup, Provisioning
<1>3. CASE LoginLookup(r) /\ ~End(r)
  BY <1>1, <1>3, LookupIInv DEF LoginLookup, Found
<1>4. CASE RefreshLookup(r)
  BY <1>1, <1>4, LookupIInv DEF RefreshLookup
<1> QED
  BY <1>2, <1>3, <1>4

\* A login that has to change the flag dispatches what the allowlist says.
LEMMA ReconcileIInv ==
  ASSUME IInv, NEW r \in Request, Reconcile(r)
  PROVE  IInv'
<1>1. /\ pc[r] = "loginReconcile" /\ pc[r] \notin Provisioning /\ builder' \in BOOLEAN
      /\ UNCHANGED <<stored, adminTokens, config, history>>
  BY DEF Reconcile, IInv, TypeOK, Provisioning
<1>2. email[r] \in Email /\ email[r] \in users /\ flag[r] \in BOOLEAN
  BY <1>1 DEF IInv, TypeOK, RequestInv, Knows, LoggedIn
<1>3. CASE ~MustChange(email[r], flag[r])
  <2>1. config # Null => Agrees(email[r])
    BY <1>1, <1>2, <1>3 DEF MustChange, IInv, RequestInv, Knows
  <2> QED
    BY <1>1, <1>2, <1>3, <2>1, GotoIInv DEF Reconcile, Label, Provisioning
<1>4. CASE MustChange(email[r], flag[r])
  <2> DEFINE f == ~flag[r]
  <2>1. config # Null /\ (f <=> email[r] \in config) /\ f \in BOOLEAN
    BY <1>2, <1>4 DEF MustChange
  <2>2. /\ flag' = [flag EXCEPT ![r] = f] /\ Goto(r, "setLoad")
    BY <1>4 DEF Reconcile, DispatchSet
  <2>3. Moves(r, "setLoad", email[r], f)
    BY <2>2 DEF Moves, Goto, IInv, TypeOK
  <2>4. /\ pc'[r] = "setLoad" /\ email'[r] = email[r] /\ flag'[r] = f
        /\ users' = users /\ config' = config
    BY <1>1, <2>2 DEF Goto, IInv, TypeOK, stored
  <2>5. Knows(r)'
    BY <1>2, <2>1, <2>4 DEF Knows, LoggedIn
  <2>6. f => email[r] \in allowed
    BY <2>1 DEF IInv, StoreInv
  <2>7. "setLoad" \in Label /\ "setLoad" \notin Provisioning
    BY DEF Label, Provisioning
  <2> HIDE DEF f
  <2> QED
    BY <1>1, <1>2, <2>1, <2>3, <2>5, <2>6, <2>7, MoveIInv
<1> QED
  BY <1>3, <1>4

\* A change that is redundant finds the flag as the allowlist wants it.
LEMMA SetLoadIInv ==
  ASSUME IInv, NEW r \in Request, SetLoad(r)
  PROVE  IInv'
<1>1. /\ pc[r] = "setLoad" /\ pc[r] \notin Provisioning /\ builder' \in BOOLEAN
      /\ flag' = flag /\ UNCHANGED <<stored, adminTokens, config, history>>
  BY LoadType DEF SetLoad, IInv, Provisioning
<1>2. /\ email[r] \in users /\ config # Null /\ (flag[r] <=> email[r] \in config)
      /\ flag[r] \in BOOLEAN
  BY <1>1 DEF IInv, TypeOK, RequestInv, Knows, LoggedIn
<1>3. CASE Redundant(r)
  <2>1. Agrees(email[r])
    BY <1>2, <1>3 DEF Redundant, Agrees
  <2> QED
    BY <1>1, <1>2, <1>3, <2>1, GotoIInv DEF SetLoad, Label, Provisioning
<1>4. CASE ~Redundant(r)
  BY <1>1, <1>2, <1>4, GotoIInv DEF SetLoad, Label, Provisioning
<1> QED
  BY <1>3, <1>4

\* The identity is new, so no row, no failure and no other request has its email.
LEMMA RegisterIdentityIInv ==
  ASSUME IInv, NEW r \in Request, RegisterIdentity(r)
  PROVE  IInv'
<1> DEFINE e == email[r]
<1>1. /\ pc[r] = "registerIdentity" /\ pc[r] \notin Provisioning /\ e \in Email
      /\ builder' = builder /\ builder' \in BOOLEAN
      /\ identities' = identities \cup {e}
      /\ UNCHANGED <<users, admin, sessions, adminTokens, config, allowed, reconciled, lost>>
  BY DEF RegisterIdentity, Provisioning, IInv, TypeOK, RequestInv, Knows, history
<1>2. CASE e \in identities
  <2>1. identities' = identities
    BY <1>1, <1>2
  <2> QED
    BY <1>1, <1>2, <2>1, EndIInv DEF RegisterIdentity, stored, history
<1>3. CASE e \notin identities
  <2>1. /\ pc' = [pc EXCEPT ![r] = "registerAssert"] /\ email' = email /\ flag' = flag
        /\ "registerAssert" \in Label /\ "registerAssert" \in Provisioning
    BY <1>3 DEF RegisterIdentity, Goto, Label, Provisioning
  <2>2. /\ pc'[r] = "registerAssert"
        /\ \A q \in Request \ {r} : pc'[q] = pc[q]
    BY <2>1 DEF IInv, TypeOK
  <2>3. \A q \in Request : pc[q] \in Provisioning => email[q] # e
    BY <1>3 DEF IInv, ProvisionedOnce
  <2>4. TypeOK'
    BY <1>1, <2>1 DEF IInv, TypeOK, Label
  <2>5. StoreInv'
    BY <1>1 DEF IInv, StoreInv
  <2>6. RequestInv'
    BY <1>1, <2>1, <2>2 DEF IInv, RequestInv, Knows, Agrees, LoggedIn
  <2>7. ProvisionedOnce'
    <3>1. e \notin users /\ e \notin lost
      BY <1>3 DEF IInv, StoreInv
    <3> QED
      BY <1>1, <2>1, <2>2, <2>3, <3>1 DEF IInv, ProvisionedOnce, ProvisionedBy
  <2>8. OrphansOnlyByFailure'
    <3>1. ASSUME NEW d \in identities' \ users', d \notin lost'
          PROVE  \E q \in Request : pc'[q] \in Provisioning /\ email'[q] = d
      <4>1. CASE d = e
        BY <2>1, <2>2, <4>1
      <4>2. CASE d # e
        BY <1>1, <2>1, <2>2, <3>1, <4>2
        DEF IInv, OrphansOnlyByFailure, ProvisionedBy
      <4> QED
        BY <4>1, <4>2
    <3>2. identities' \subseteq Email
      BY <2>4 DEF TypeOK
    <3> QED
      BY <3>1, <3>2 DEF OrphansOnlyByFailure, ProvisionedBy
  <2>9. AdminsWereAllowed' /\ FlagFollowsAllowlist'
    BY <1>1, <2>1
    DEF IInv, AdminsWereAllowed, FlagFollowsAllowlist, PassesPlatformAdminGuard
  <2> QED
    BY <2>4, <2>5, <2>6, <2>7, <2>8, <2>9 DEF IInv
<1> QED
  BY <1>2, <1>3

\* The row is new, and its flag is false as that of no row is true.
LEMMA CreateUserIInv ==
  ASSUME IInv, NEW r \in Request, CreateUser(r)
  PROVE  IInv'
<1> DEFINE e == email[r]
<1>1. pc[r] = "registerSave" /\ pc[r] \in Provisioning /\ e \in Email
  BY DEF CreateUser, Provisioning, IInv, RequestInv, Knows
<1>2. e \in identities /\ e \notin users /\ e \notin lost /\ e \notin admin
  BY <1>1 DEF IInv, ProvisionedOnce, StoreInv
<1>3. /\ users' = users \cup {e} /\ admin' = admin /\ builder' = FALSE
      /\ UNCHANGED <<identities, sessions, adminTokens, config, allowed, reconciled, lost>>
  BY <1>2 DEF CreateUser, EmailConflict, Insert, SetAdmin, NewUserFlag, history
<1>4. Moves(r, "idle", Null, FALSE) /\ "idle" \in Label /\ "idle" \notin Provisioning
  BY DEF CreateUser, End, Moves, Label, Provisioning
<1>5. /\ pc' \in [Request -> Label] /\ email' \in [Request -> Email \cup {Null}]
      /\ flag' \in [Request -> BOOLEAN]
      /\ pc'[r] = "idle" /\ email'[r] = Null /\ flag'[r] = FALSE
      /\ \A q \in Request \ {r} : /\ pc'[q] = pc[q] /\ email'[q] = email[q]
                                  /\ flag'[q] = flag[q]
  BY <1>4, MoveFacts DEF IInv
<1>6. \A q \in Request \ {r} : pc[q] \in Provisioning => email[q] # e
  BY <1>1 DEF IInv, ProvisionedOnce, ProvisionedBy
<1>7. TypeOK'
  BY <1>1, <1>3, <1>5 DEF IInv, TypeOK, Label
<1>8. StoreInv'
  BY <1>2, <1>3 DEF IInv, StoreInv
<1>9. RequestInv'
  <2>1. Knows(r)'
    BY <1>5 DEF Knows, LoggedIn
  <2>2. ASSUME NEW q \in Request \ {r} PROVE Knows(q)'
    BY <1>3, <1>5, <2>2 DEF IInv, RequestInv, Knows, Agrees
  <2> QED
    BY <2>1, <2>2 DEF RequestInv
<1>10. ProvisionedOnce'
  BY <1>3, <1>4, <1>5, <1>6 DEF IInv, ProvisionedOnce, ProvisionedBy
<1>11. OrphansOnlyByFailure'
  <2>1. \A q \in Request, d \in Email \ {e} : ProvisionedBy(q, d) => ProvisionedBy(q, d)'
    BY <1>5 DEF ProvisionedBy
  <2> QED
    BY <1>3, <2>1 DEF IInv, OrphansOnlyByFailure
<1>12. AdminsWereAllowed' /\ FlagFollowsAllowlist'
  BY <1>3, <1>5
  DEF IInv, AdminsWereAllowed, FlagFollowsAllowlist, PassesPlatformAdminGuard
<1> QED
  BY <1>7, <1>8, <1>9, <1>10, <1>11, <1>12 DEF IInv

\* The change makes the flag what the allowlist says, and leaves the others alone.
LEMMA SetIInv ==
  ASSUME IInv, NEW r \in Request, SetUserPlatformAdmin(r)
  PROVE  IInv'
<1> DEFINE e == email[r]
<1>1. /\ pc[r] = "setSave" /\ pc[r] \notin Provisioning /\ e \in Email /\ e \in users
      /\ config # Null /\ (flag[r] <=> e \in config)
  BY DEF SetUserPlatformAdmin, Provisioning, IInv, RequestInv, Knows, LoggedIn
<1>2. /\ pc' = [pc EXCEPT ![r] = "loginFinish"] /\ builder' \in BOOLEAN
      /\ UNCHANGED <<identities, users, sessions, adminTokens, config, email, flag,
                     allowed, reconciled, lost>>
      /\ "loginFinish" \in Label /\ "loginFinish" \notin Provisioning
  BY DEF SetUserPlatformAdmin, Goto, history, IInv, TypeOK, Label, Provisioning
<1>3. admin' \subseteq users /\ (e \in admin' <=> e \in config)
  BY <1>1 DEF SetUserPlatformAdmin, SetAdmin, IInv, StoreInv
<1>4. \A d : d # e => (d \in admin' <=> d \in admin)
  BY DEF SetUserPlatformAdmin, SetAdmin
<1>5. pc'[r] = "loginFinish" /\ \A q \in Request \ {r} : pc'[q] = pc[q]
  BY <1>2 DEF IInv, TypeOK
<1>6. TypeOK'
  BY <1>2, <1>3 DEF IInv, TypeOK, Label
<1>7. StoreInv'
  BY <1>2, <1>3 DEF IInv, StoreInv
<1>8. ASSUME NEW d, Agrees(d) PROVE Agrees(d)'
  BY <1>2, <1>3, <1>4, <1>8 DEF Agrees
<1>9. RequestInv'
  <2>1. Knows(r)'
    BY <1>1, <1>2, <1>3, <1>5 DEF Knows, Agrees, LoggedIn
  <2>2. ASSUME NEW q \in Request \ {r} PROVE Knows(q)'
    <3>1. Agrees(email[q]) => (Agrees(email[q]))'
      BY <1>2, <1>8 DEF Agrees
    <3> QED
      BY <1>2, <1>5, <2>2, <3>1 DEF IInv, RequestInv, Knows
  <2> QED
    BY <2>1, <2>2 DEF RequestInv
<1>10. \A q \in Request : pc'[q] \in Provisioning <=> pc[q] \in Provisioning
  BY <1>1, <1>2, <1>5
<1>11. ProvisionedOnce' /\ OrphansOnlyByFailure'
  BY <1>2, <1>10 DEF IInv, ProvisionedOnce, OrphansOnlyByFailure, ProvisionedBy
<1>12. AdminsWereAllowed'
  BY <1>1, <1>2, <1>3, <1>4
  DEF IInv, StoreInv, AdminsWereAllowed, PassesPlatformAdminGuard
<1>13. FlagFollowsAllowlist'
  BY <1>2, <1>3, <1>4 DEF IInv, FlagFollowsAllowlist
<1> QED
  BY <1>6, <1>7, <1>9, <1>11, <1>12, <1>13 DEF IInv

\* A token carries the flag in hand, whose holder was allowed; a session has its row.
LEMMA SignIInv ==
  ASSUME IInv, NEW r \in Request, LoginFinish(r) \/ RefreshSign(r)
  PROVE  IInv'
<1> DEFINE e == email[r]
<1>1. /\ pc[r] \in {"loginFinish", "refreshSign"} /\ pc[r] \notin Provisioning
      /\ e \in Email /\ (flag[r] => e \in allowed)
  BY DEF LoginFinish, RefreshSign, Provisioning, IInv, RequestInv, Knows, AdminsWereAllowed
<1>2. /\ adminTokens' \subseteq adminTokens \cup {d \in {e} : flag[r]}
      /\ UNCHANGED <<identities, users, admin, config, builder, allowed, lost>>
      /\ End(r)
  BY DEF LoginFinish, RefreshSign, Sign, stored, history
<1>3. \/ sessions' = sessions /\ reconciled' = reconciled
      \/ /\ sessions' = sessions \cup {e} /\ reconciled' = reconciled \cup {e}
         /\ e \in users /\ (config # Null => Agrees(e))
  BY DEF LoginFinish, RefreshSign, stored, history, IInv, RequestInv, Knows, LoggedIn
<1>4. Moves(r, "idle", Null, FALSE) /\ "idle" \in Label /\ "idle" \notin Provisioning
  BY <1>2 DEF End, Moves, Label, Provisioning
<1>5. /\ pc' \in [Request -> Label] /\ email' \in [Request -> Email \cup {Null}]
      /\ flag' \in [Request -> BOOLEAN]
      /\ pc'[r] = "idle" /\ email'[r] = Null /\ flag'[r] = FALSE
      /\ \A q \in Request \ {r} : /\ pc'[q] = pc[q] /\ email'[q] = email[q]
                                  /\ flag'[q] = flag[q]
  BY <1>4, MoveFacts DEF IInv
<1>6. TypeOK'
  BY <1>1, <1>2, <1>3, <1>5 DEF IInv, TypeOK, Label
<1>7. StoreInv'
  BY <1>2, <1>3 DEF IInv, StoreInv
<1>8. RequestInv'
  <2>1. Knows(r)'
    BY <1>5 DEF Knows, LoggedIn
  <2>2. ASSUME NEW q \in Request \ {r} PROVE Knows(q)'
    BY <1>2, <1>5, <2>2 DEF IInv, RequestInv, Knows, Agrees
  <2> QED
    BY <2>1, <2>2 DEF RequestInv
<1>9. ProvisionedOnce'
  BY <1>1, <1>2, <1>4, <1>5 DEF IInv, ProvisionedOnce, ProvisionedBy
<1>10. OrphansOnlyByFailure'
  <2>1. \A q \in Request, d \in Email : ProvisionedBy(q, d) => ProvisionedBy(q, d)'
    BY <1>1, <1>5 DEF ProvisionedBy
  <2> QED
    BY <1>2, <2>1 DEF IInv, OrphansOnlyByFailure
<1>11. AdminsWereAllowed'
  BY <1>1, <1>2, <1>5 DEF IInv, AdminsWereAllowed, PassesPlatformAdminGuard
<1>12. FlagFollowsAllowlist'
  BY <1>2, <1>3 DEF IInv, FlagFollowsAllowlist, Agrees
<1> QED
  BY <1>6, <1>7, <1>8, <1>9, <1>10, <1>11, <1>12 DEF IInv

\* A request fails; what it had provisioned without a row is lost.
LEMMA CrashIInv ==
  ASSUME IInv, NEW r \in Request, Crash(r)
  PROVE  IInv'
<1>1. /\ lost' = lost \cup {e \in Email : ProvisionedBy(r, e)} /\ End(r)
      /\ UNCHANGED <<identities, users, admin, sessions, adminTokens, config, builder,
                     allowed, reconciled>>
  BY DEF Crash, stored
<1>2. Moves(r, "idle", Null, FALSE) /\ "idle" \in Label /\ "idle" \notin Provisioning
  BY <1>1 DEF End, Moves, Label, Provisioning
<1>3. /\ pc' \in [Request -> Label] /\ email' \in [Request -> Email \cup {Null}]
      /\ flag' \in [Request -> BOOLEAN]
      /\ pc'[r] = "idle" /\ email'[r] = Null /\ flag'[r] = FALSE
      /\ \A q \in Request \ {r} : /\ pc'[q] = pc[q] /\ email'[q] = email[q]
                                  /\ flag'[q] = flag[q]
  BY <1>2, MoveFacts DEF IInv
<1>4. \A e \in Email : ProvisionedBy(r, e) =>
        e \in identities /\ \A q \in Request \ {r} : ~ProvisionedBy(q, e)
  BY DEF IInv, ProvisionedOnce, ProvisionedBy
<1>5. TypeOK'
  BY <1>1, <1>3 DEF IInv, TypeOK, Label
<1>6. StoreInv'
  BY <1>1, <1>4 DEF IInv, StoreInv
<1>7. RequestInv'
  <2>1. Knows(r)'
    BY <1>3 DEF Knows, LoggedIn
  <2>2. ASSUME NEW q \in Request \ {r} PROVE Knows(q)'
    BY <1>1, <1>3, <2>2 DEF IInv, RequestInv, Knows, Agrees
  <2> QED
    BY <2>1, <2>2 DEF RequestInv
<1>8. ProvisionedOnce'
  <2>1. ASSUME NEW q \in Request \ {r}, pc[q] \in Provisioning
        PROVE  email[q] \notin lost'
    <3>1. email[q] \in Email /\ email[q] \notin lost /\ ProvisionedBy(q, email[q])
      BY <2>1 DEF IInv, RequestInv, Knows, ProvisionedOnce, ProvisionedBy, Provisioning
    <3> QED
      BY <1>1, <1>4, <3>1
  <2> QED
    BY <1>1, <1>2, <1>3, <2>1 DEF IInv, ProvisionedOnce, ProvisionedBy
<1>9. OrphansOnlyByFailure'
  <2>1. \A q \in Request \ {r}, d \in Email : ProvisionedBy(q, d) => ProvisionedBy(q, d)'
    BY <1>3 DEF ProvisionedBy
  <2> QED
    BY <1>1, <2>1 DEF IInv, OrphansOnlyByFailure
<1>10. AdminsWereAllowed' /\ FlagFollowsAllowlist'
  BY <1>1, <1>3
  DEF IInv, AdminsWereAllowed, FlagFollowsAllowlist, PassesPlatformAdminGuard
<1> QED
  BY <1>5, <1>6, <1>7, <1>8, <1>9, <1>10 DEF IInv

\* A deployment ends every request, and nobody has logged in under its allowlist yet.
LEMMA DeployIInv ==
  ASSUME IInv, NEW c \in Allowlist \cup {Null}, Deploy(c)
  PROVE  IInv'
<1>1. /\ config' = c /\ reconciled' = {} /\ builder' = FALSE
      /\ allowed \subseteq allowed' /\ (c # Null => c \subseteq allowed')
      /\ allowed' \subseteq Email
      /\ lost' = lost \cup {e \in Email : \E r \in Request : ProvisionedBy(r, e)}
      /\ UNCHANGED <<identities, users, admin, sessions, adminTokens>>
  BY DEF Deploy, stored, IInv, TypeOK, Allowlist
<1>2. /\ pc' = [r \in Request |-> "idle"] /\ email' = [r \in Request |-> Null]
      /\ flag' = [r \in Request |-> FALSE]
  BY DEF Deploy
<1>3. TypeOK'
  BY <1>1, <1>2 DEF IInv, TypeOK
<1>4. StoreInv'
  BY <1>1 DEF IInv, StoreInv, ProvisionedOnce, ProvisionedBy
<1>5. RequestInv'
  BY <1>2 DEF RequestInv, Knows, LoggedIn
<1>6. ProvisionedOnce'
  BY <1>2 DEF ProvisionedOnce, Provisioning
<1>7. OrphansOnlyByFailure'
  BY <1>1 DEF IInv, OrphansOnlyByFailure
<1>8. AdminsWereAllowed' /\ FlagFollowsAllowlist'
  BY <1>1, <1>2
  DEF IInv, AdminsWereAllowed, FlagFollowsAllowlist, PassesPlatformAdminGuard
<1> QED
  BY <1>3, <1>4, <1>5, <1>6, <1>7, <1>8 DEF IInv

\* A token that expires takes rights away.
LEMMA ExpireIInv ==
  ASSUME IInv, NEW e \in Email, TokenExpires(e)
  PROVE  IInv'
  BY DEF TokenExpires, IInv, TypeOK, StoreInv, RequestInv, Knows, Agrees, ProvisionedOnce,
     OrphansOnlyByFailure, ProvisionedBy, AdminsWereAllowed, FlagFollowsAllowlist,
     PassesPlatformAdminGuard, stored, history

\* So every step keeps the invariant.
LEMMA StepIInv == IInv /\ [Next]_vars => IInv'
<1> SUFFICES ASSUME IInv, [Next]_vars PROVE IInv'
  OBVIOUS
<1>1. CASE UNCHANGED vars
  BY <1>1
  DEF vars, stored, history, IInv, TypeOK, StoreInv, RequestInv, Knows, Agrees,
      ProvisionedOnce, OrphansOnlyByFailure, ProvisionedBy, AdminsWereAllowed,
      FlagFollowsAllowlist, PassesPlatformAdminGuard
<1>2. ASSUME NEW r \in Request, Step(r) PROVE IInv'
  BY <1>2, PreCheckIInv, RegisterIdentityIInv, AssertIInv, CreateUserIInv, VerifyIInv,
     LookupsIInv, ReconcileIInv, SetLoadIInv, SetIInv, SignIInv, CrashIInv
  DEF Step
<1>3. ASSUME NEW r \in Request, NEW e \in Email,
             StartRegister(r, e) \/ StartLogin(r, e) \/ StartRefresh(r, e)
      PROVE  IInv'
  BY <1>3, StartIInv DEF StartRegister, StartLogin, StartRefresh
<1>4. ASSUME NEW e \in Email, TokenExpires(e) PROVE IInv'
  BY <1>4, ExpireIInv
<1>5. ASSUME NEW c \in Allowlist \cup {Null}, Deploy(c) PROVE IInv'
  BY <1>5, DeployIInv
<1> QED
  BY <1>1, <1>2, <1>3, <1>4, <1>5 DEF Next

\* The invariant holds throughout.
LEMMA Invariance == Spec => []IInv
  BY InitIInv, StepIInv, PTL DEF Spec

-----------------------------------------------------------------------------
\* Tables, tokens, the builder and what requests hold keep their types; in particular
\* no flag that reaches a token is anything but a Boolean.
THEOREM TypeCorrect == Spec => []TypeOK
  BY Invariance, PTL DEF IInv

\* However many registrations of one email race, Keycloak lets one through, and that
\* one finds no row: the later uniqueness checks of the user context never fail.
THEOREM RegisteredOnce == Spec => []ProvisionedOnce
  BY Invariance, PTL DEF IInv

\* Identities without a user come from failures between the two writes only.
THEOREM OrphansHaveFailed == Spec => []OrphansOnlyByFailure
  BY Invariance, PTL DEF IInv

\* Nobody is a platform admin, in the table, in a token or in a request, who was never
\* on a deployed allowlist.
THEOREM AdminsAreAllowed == Spec => []AdminsWereAllowed
  BY Invariance, PTL DEF IInv

\* Whoever has logged in since the last deployment has the flag the allowlist gives,
\* whatever runs next to it.
THEOREM LoginReconciles == Spec => []FlagFollowsAllowlist
  BY Invariance, PTL DEF IInv

\* The steps that write rows or flags: a registration stores its own email, for which no
\* registration has failed, without a flag; a change of a flag needs an allowlist.
LEMMA Writers ==
  ASSUME IInv, [Next]_vars
  PROVE  /\ lost \cap users' \subseteq users
         /\ config = Null => admin' = admin
<1>1. CASE users' = users /\ admin' = admin
  BY <1>1
<1>2. ASSUME NEW r \in Request, CreateUser(r)
      PROVE  lost \cap users' \subseteq users /\ admin' = admin
  <2>1. email[r] \notin users /\ email[r] \notin lost /\ email[r] \notin admin
    BY <1>2 DEF CreateUser, IInv, ProvisionedOnce, Provisioning, StoreInv
  <2> QED
    BY <1>2, <2>1 DEF CreateUser, EmailConflict, Insert, SetAdmin, NewUserFlag
<1>3. ASSUME NEW r \in Request, SetUserPlatformAdmin(r)
      PROVE  config # Null /\ users' = users
  BY <1>3 DEF SetUserPlatformAdmin, IInv, RequestInv, Knows
<1>4. ASSUME NEW r \in Request, Step(r), ~CreateUser(r), ~SetUserPlatformAdmin(r)
      PROVE  users' = users /\ admin' = admin
  BY <1>4
  DEF Step, PreCheck, RegisterIdentity, AssertUserEmailAvailable, VerifyCredentials,
      LoginLookup, Reconcile, SetLoad, LoginFinish, RefreshLookup, RefreshSign, Crash, stored
<1>5. ASSUME NEW r \in Request, NEW e \in Email,
             StartRegister(r, e) \/ StartLogin(r, e) \/ StartRefresh(r, e)
      PROVE  users' = users /\ admin' = admin
  BY <1>5 DEF StartRegister, StartLogin, StartRefresh, Start, stored
<1>6. ASSUME NEW e \in Email, TokenExpires(e)
      PROVE  users' = users /\ admin' = admin
  BY <1>6 DEF TokenExpires, stored
<1>7. ASSUME NEW c \in Allowlist \cup {Null}, Deploy(c)
      PROVE  users' = users /\ admin' = admin
  BY <1>7 DEF Deploy, stored
<1>8. CASE UNCHANGED vars
  BY <1>1, <1>8 DEF vars, stored
<1> QED
  BY <1>1, <1>2, <1>3, <1>4, <1>5, <1>6, <1>7, <1>8 DEF Next

\* An identity left behind by a failed registration never gets a user row, so that no
\* later registration takes it over with the password somebody else chose.
THEOREM LostIsNotAdopted == Spec => IdentityIsNotAdopted
<1>1. IInv /\ [Next]_vars => [lost \cap users' \subseteq users]_vars
  BY Writers
<1> QED
  BY <1>1, Invariance, PTL DEF Spec, IdentityIsNotAdopted

\* Without PLATFORM_ADMIN_EMAILS the stored flags stay, requests under way included.
THEOREM UnsetIsSafe == Spec => UnsetLeavesFlags
<1>1. IInv /\ [Next]_vars => [config = Null => admin' = admin]_vars
  BY Writers
<1> QED
  BY <1>1, Invariance, PTL DEF Spec, UnsetLeavesFlags

-----------------------------------------------------------------------------
(* Refinement: the stores and tokens, seen as accounts.                    *)

\* What a request has in hand when it signs.  A login under an allowlist has what the list
\* says and one without a list has what is stored; a refresh belongs to a session and has
\* a flag that is stored or that the allowlist takes away.
Honest(r) ==
    /\ pc[r] \in {"loginReconcile", "loginFinish"} /\ config = Null =>
         (flag[r] <=> email[r] \in admin)
    /\ pc[r] = "loginFinish" /\ config # Null => (flag[r] <=> email[r] \in config)
    /\ pc[r] \in {"refreshLookup", "refreshSign"} => email[r] \in sessions
    /\ pc[r] = "refreshSign" /\ flag[r] =>
         email[r] \in admin \/ (config # Null /\ email[r] \notin config)

HonestInv == \A r \in Request : Honest(r)

\* The steps of requests.
Acts(r) ==
    Step(r) \/ \E e \in Email : StartRegister(r, e) \/ StartLogin(r, e) \/ StartRefresh(r, e)

\* A step of one request leaves the others, and the deployment, as they are.
LEMMA ActsAlone ==
  ASSUME IInv, NEW r \in Request, Acts(r), NEW q \in Request \ {r}
  PROVE  /\ config' = config
         /\ pc'[q] = pc[q] /\ email'[q] = email[q] /\ flag'[q] = flag[q]
<1>1. ASSUME End(r) PROVE pc'[q] = pc[q] /\ email'[q] = email[q] /\ flag'[q] = flag[q]
  BY <1>1 DEF End, IInv, TypeOK
<1>2. ASSUME NEW l, Goto(r, l), flag' = flag
      PROVE  pc'[q] = pc[q] /\ email'[q] = email[q] /\ flag'[q] = flag[q]
  BY <1>2 DEF Goto, IInv, TypeOK
<1>3. ASSUME NEW l, NEW f, Goto(r, l), flag' = [flag EXCEPT ![r] = f]
      PROVE  pc'[q] = pc[q] /\ email'[q] = email[q] /\ flag'[q] = flag[q]
  BY <1>3 DEF Goto, IInv, TypeOK
<1>4. ASSUME NEW e, NEW l, Start(r, e, l)
      PROVE  /\ config' = config
             /\ pc'[q] = pc[q] /\ email'[q] = email[q] /\ flag'[q] = flag[q]
  BY <1>4 DEF Start, IInv, TypeOK
<1>5. CASE PreCheck(r) \/ RegisterIdentity(r) \/ AssertUserEmailAvailable(r) \/ CreateUser(r)
  BY <1>1, <1>2, <1>5
  DEF PreCheck, RegisterIdentity, AssertUserEmailAvailable, CreateUser
<1>6. CASE VerifyCredentials(r) \/ SetLoad(r) \/ SetUserPlatformAdmin(r)
  BY <1>1, <1>2, <1>6 DEF VerifyCredentials, SetLoad, SetUserPlatformAdmin
<1>7. CASE LoginLookup(r) \/ RefreshLookup(r)
  BY <1>1, <1>3, <1>7 DEF LoginLookup, RefreshLookup
<1>8. CASE Reconcile(r)
  BY <1>2, <1>3, <1>8 DEF Reconcile, DispatchSet
<1>9. CASE LoginFinish(r) \/ RefreshSign(r) \/ Crash(r)
  BY <1>1, <1>9 DEF LoginFinish, RefreshSign, Crash
<1>10. CASE \E e \in Email : StartRegister(r, e) \/ StartLogin(r, e) \/ StartRefresh(r, e)
  BY <1>4, <1>10 DEF StartRegister, StartLogin, StartRefresh
<1> QED
  BY <1>5, <1>6, <1>7, <1>8, <1>9, <1>10 DEF Acts, Step

\* Sessions stay, flags stay without an allowlist and are otherwise taken away only as the
\* allowlist says.
LEMMA FlagsGoByTheList ==
  ASSUME IInv, NEW r \in Request, Acts(r)
  PROVE  /\ sessions \subseteq sessions'
         /\ config = Null => admin' = admin
         /\ \A d \in admin : d \in admin' \/ (config # Null /\ d \notin config)
<1>1. CASE SetUserPlatformAdmin(r)
  BY <1>1 DEF SetUserPlatformAdmin, SetAdmin, IInv, RequestInv, Knows
<1>2. CASE CreateUser(r)
  <2>1. email[r] \notin admin
    BY <1>2 DEF CreateUser, IInv, ProvisionedOnce, Provisioning, StoreInv
  <2> QED
    BY <1>2, <2>1 DEF CreateUser, Insert, SetAdmin, NewUserFlag
<1>3. CASE Step(r) /\ ~CreateUser(r) /\ ~SetUserPlatformAdmin(r)
  BY <1>3
  DEF Step, PreCheck, RegisterIdentity, AssertUserEmailAvailable, VerifyCredentials,
      LoginLookup, Reconcile, SetLoad, LoginFinish, RefreshLookup, RefreshSign, Crash, stored
<1>4. CASE \E e \in Email : StartRegister(r, e) \/ StartLogin(r, e) \/ StartRefresh(r, e)
  BY <1>4 DEF StartRegister, StartLogin, StartRefresh, Start, stored
<1> QED
  BY <1>1, <1>2, <1>3, <1>4 DEF Acts

\* The request that acts has in hand what it should.
LEMMA ActsHonestly ==
  ASSUME IInv, HonestInv, NEW r \in Request, Acts(r)
  PROVE  Honest(r)'
<1> USE DEF IInv, TypeOK
<1>0. Knows(r) /\ Honest(r)
  BY DEF RequestInv, HonestInv
<1>1. ASSUME pc'[r] \notin {"loginReconcile", "loginFinish", "refreshLookup", "refreshSign"}
      PROVE  Honest(r)'
  BY <1>1 DEF Honest
<1>2. ASSUME End(r) PROVE Honest(r)'
  BY <1>1, <1>2 DEF End
<1>3. CASE PreCheck(r) \/ RegisterIdentity(r) \/ AssertUserEmailAvailable(r) \/ CreateUser(r)
  BY <1>1, <1>2, <1>3
  DEF PreCheck, RegisterIdentity, AssertUserEmailAvailable, CreateUser, Goto
<1>4. CASE VerifyCredentials(r) \/ LoginFinish(r) \/ RefreshSign(r) \/ Crash(r)
  BY <1>1, <1>2, <1>4 DEF VerifyCredentials, LoginFinish, RefreshSign, Crash, Goto
<1>5. CASE LoginLookup(r)
  <2>1. CASE Found(email[r])
    <3>1. /\ pc'[r] = "loginReconcile" /\ email'[r] = email[r] /\ admin' = admin
          /\ flag'[r] <=> email[r] \in admin
      BY <1>5, <2>1 DEF LoginLookup, Goto, stored
    <3> QED
      BY <3>1 DEF Honest
  <2>2. CASE ~Found(email[r])
    BY <1>2, <1>5, <2>2 DEF LoginLookup
  <2> QED
    BY <2>1, <2>2
<1>6. CASE Reconcile(r)
  <2>1. CASE MustChange(email[r], flag[r])
    <3>1. pc'[r] = "setLoad"
      BY <1>6, <2>1 DEF Reconcile, DispatchSet, Goto
    <3> QED
      BY <1>1, <3>1
  <2>2. CASE ~MustChange(email[r], flag[r])
    <3>1. /\ pc[r] = "loginReconcile" /\ pc'[r] = "loginFinish" /\ email'[r] = email[r]
          /\ flag'[r] = flag[r] /\ admin' = admin /\ config' = config
      BY <1>6, <2>2 DEF Reconcile, Goto, stored
    <3>2. config # Null => (flag[r] <=> email[r] \in config)
      BY <2>2 DEF MustChange
    <3> QED
      BY <1>0, <3>1, <3>2 DEF Honest
  <2> QED
    BY <2>1, <2>2
<1>7. CASE SetLoad(r)
  <2>1. /\ pc[r] = "setLoad" /\ pc'[r] \in {"loginFinish", "setSave"} /\ config' = config
        /\ email'[r] = email[r] /\ flag'[r] = flag[r]
    BY <1>7 DEF SetLoad, Goto
  <2> QED
    BY <1>0, <2>1 DEF Honest, Knows
<1>8. CASE SetUserPlatformAdmin(r)
  <2>1. /\ pc[r] = "setSave" /\ pc'[r] = "loginFinish" /\ config' = config
        /\ email'[r] = email[r] /\ flag'[r] = flag[r]
    BY <1>8 DEF SetUserPlatformAdmin, Goto
  <2> QED
    BY <1>0, <2>1 DEF Honest, Knows
<1>9. CASE RefreshLookup(r)
  <2>1. /\ pc[r] = "refreshLookup" /\ pc'[r] = "refreshSign" /\ email'[r] = email[r]
        /\ sessions' = sessions /\ admin' = admin
        /\ flag'[r] <=> email[r] \in admin
    BY <1>9 DEF RefreshLookup, Goto, stored
  <2> QED
    BY <1>0, <2>1 DEF Honest
<1>10. ASSUME NEW e \in Email, StartRegister(r, e) \/ StartLogin(r, e) PROVE Honest(r)'
  BY <1>1, <1>10 DEF StartRegister, StartLogin, Start
<1>11. ASSUME NEW e \in Email, StartRefresh(r, e) PROVE Honest(r)'
  <2>1. pc'[r] = "refreshLookup" /\ email'[r] = e /\ e \in sessions /\ sessions' = sessions
    BY <1>11 DEF StartRefresh, Start, stored
  <2> QED
    BY <2>1 DEF Honest
<1> QED
  BY <1>3, <1>4, <1>5, <1>6, <1>7, <1>8, <1>9, <1>10, <1>11 DEF Acts, Step

\* Requests stay honest, whatever the others do in between.
LEMMA StepHonest ==
  ASSUME IInv, HonestInv, [Next]_vars
  PROVE  HonestInv'
<1>1. ASSUME NEW r \in Request, Acts(r) PROVE HonestInv'
  <2>1. Honest(r)'
    BY <1>1, ActsHonestly
  <2>2. ASSUME NEW q \in Request \ {r} PROVE Honest(q)'
    <3>1. /\ config' = config /\ pc'[q] = pc[q] /\ email'[q] = email[q] /\ flag'[q] = flag[q]
      BY <1>1, <2>2, ActsAlone
    <3>2. /\ sessions \subseteq sessions'
          /\ config = Null => admin' = admin
          /\ \A d \in admin : d \in admin' \/ (config # Null /\ d \notin config)
      BY <1>1, FlagsGoByTheList
    <3> QED
      BY <2>2, <3>1, <3>2 DEF HonestInv, Honest
  <2> QED
    BY <2>1, <2>2 DEF HonestInv
<1>2. ASSUME NEW e \in Email, TokenExpires(e) PROVE HonestInv'
  BY <1>2 DEF TokenExpires, stored, HonestInv, Honest
<1>3. ASSUME NEW c \in Allowlist \cup {Null}, Deploy(c) PROVE HonestInv'
  BY <1>3 DEF Deploy, HonestInv, Honest
<1>4. CASE UNCHANGED vars
  BY <1>4 DEF vars, stored, HonestInv, Honest
<1> QED
  BY <1>1, <1>2, <1>3, <1>4 DEF Next, Acts

\* Registration: Keycloak's part identifies, and of two only the first.
LEMMA RegisterIdentifies ==
  ASSUME IInv, NEW r \in Request, RegisterIdentity(r)
  PROVE  AccountsOf!Next \/ UNCHANGED AccountsOf!state
<1>1. /\ email[r] \in Email /\ identities' = identities \cup {email[r]}
      /\ UNCHANGED <<users, lost, admin, sessions, reconciled, adminTokens, config, allowed>>
  BY DEF RegisterIdentity, history, IInv, RequestInv, Knows
<1>2. CASE email[r] \in identities
  BY <1>1, <1>2
  DEF AccountsOf!state, AccountsOf!register, AccountsOf!login, AccountsOf!deployment
<1>3. CASE email[r] \notin identities
  BY <1>1, <1>3
  DEF AccountsOf!Next, AccountsOf!Identify, AccountsOf!login, AccountsOf!deployment
<1> QED
  BY <1>2, <1>3

\* The user row opens the account of an identity that is awaited, without the flag.
LEMMA CreateOpens ==
  ASSUME IInv, NEW r \in Request, CreateUser(r)
  PROVE  AccountsOf!Next
<1>1. pc[r] \in Provisioning /\ email[r] \in Email
  BY DEF CreateUser, Provisioning, IInv, RequestInv, Knows
<1>2. email[r] \in identities \ (users \cup lost) /\ email[r] \notin admin
  BY <1>1 DEF IInv, ProvisionedOnce, StoreInv
<1>3. /\ users' = users \cup {email[r]} /\ admin' = admin
      /\ UNCHANGED <<identities, lost, sessions, reconciled, adminTokens, config, allowed>>
  BY <1>2 DEF CreateUser, EmailConflict, Insert, SetAdmin, NewUserFlag, history
<1> QED
  BY <1>1, <1>2, <1>3
  DEF AccountsOf!Next, AccountsOf!Open, AccountsOf!Awaited, AccountsOf!login,
      AccountsOf!deployment

\* A saved flag appoints or dismisses, as the allowlist says.
LEMMA SetAppointsOrDismisses ==
  ASSUME IInv, NEW r \in Request, SetUserPlatformAdmin(r)
  PROVE  AccountsOf!Next
<1>1. /\ email[r] \in Email /\ email[r] \in users
      /\ config # Null /\ (flag[r] <=> email[r] \in config)
  BY DEF SetUserPlatformAdmin, IInv, RequestInv, Knows, LoggedIn
<1>2. UNCHANGED <<identities, users, lost, sessions, reconciled, adminTokens, config, allowed>>
  BY DEF SetUserPlatformAdmin, history
<1>3. CASE email[r] \in config
  <2>1. admin' = admin \cup {email[r]}
    BY <1>1, <1>3 DEF SetUserPlatformAdmin, SetAdmin
  <2> QED
    BY <1>1, <1>2, <1>3, <2>1
    DEF AccountsOf!Next, AccountsOf!Appoint, AccountsOf!Listed, AccountsOf!register,
        AccountsOf!login, AccountsOf!deployment
<1>4. CASE email[r] \notin config
  <2>1. admin' = admin \ {email[r]}
    BY <1>1, <1>4 DEF SetUserPlatformAdmin, SetAdmin
  <2> QED
    BY <1>1, <1>2, <1>4, <2>1
    DEF AccountsOf!Next, AccountsOf!Dismiss, AccountsOf!Unlisted, AccountsOf!register,
        AccountsOf!login, AccountsOf!deployment
<1> QED
  BY <1>3, <1>4

\* A login that ends finds the stored flag as the allowlist has it, and signs it.
LEMMA FinishLogsIn ==
  ASSUME IInv, HonestInv, NEW r \in Request, LoginFinish(r)
  PROVE  AccountsOf!Next
<1>1. pc[r] = "loginFinish" /\ email[r] \in Email /\ email[r] \in users
  BY DEF LoginFinish, IInv, RequestInv, Knows, LoggedIn
<1>2. /\ config # Null => (email[r] \in admin <=> email[r] \in config)
      /\ flag[r] <=> email[r] \in admin
  BY <1>1 DEF IInv, RequestInv, Knows, Agrees, HonestInv, Honest
<1>3. adminTokens' = adminTokens \cup ({email[r]} \cap admin)
  BY <1>2 DEF LoginFinish, Sign
<1>4. /\ sessions' = sessions \cup {email[r]} /\ reconciled' = reconciled \cup {email[r]}
      /\ UNCHANGED <<identities, users, lost, admin, config, allowed>>
  BY DEF LoginFinish
<1> QED
  BY <1>1, <1>2, <1>3, <1>4
  DEF AccountsOf!Next, AccountsOf!LogIn, AccountsOf!Listed, AccountsOf!Unlisted,
      AccountsOf!register, AccountsOf!deployment

\* A refresh renews for an admin or for somebody the allowlist leaves out.
LEMMA SignRenews ==
  ASSUME IInv, HonestInv, NEW r \in Request, RefreshSign(r)
  PROVE  AccountsOf!Next \/ UNCHANGED AccountsOf!state
<1>1. pc[r] = "refreshSign" /\ email[r] \in Email /\ email[r] \in sessions
  BY DEF RefreshSign, IInv, RequestInv, Knows, HonestInv, Honest
<1>2. UNCHANGED <<identities, users, lost, admin, sessions, reconciled, config, allowed>>
  BY DEF RefreshSign, stored, history
<1>3. CASE flag[r]
  <2>1. /\ email[r] \in admin \/ (config # Null /\ email[r] \notin config)
        /\ email[r] \in allowed
    BY <1>1, <1>3 DEF HonestInv, Honest, IInv, AdminsWereAllowed
  <2>2. adminTokens' = adminTokens \cup {email[r]}
    BY <1>3 DEF RefreshSign, Sign
  <2> QED
    BY <1>1, <1>2, <2>1, <2>2
    DEF AccountsOf!Next, AccountsOf!Renew, AccountsOf!Unlisted, AccountsOf!register,
        AccountsOf!deployment
<1>4. CASE ~flag[r]
  <2>1. adminTokens' = adminTokens
    BY <1>4 DEF RefreshSign, Sign
  <2> QED
    BY <1>2, <2>1
    DEF AccountsOf!state, AccountsOf!register, AccountsOf!login, AccountsOf!deployment
<1> QED
  BY <1>3, <1>4

\* A failure abandons what the request had provisioned.
LEMMA CrashAbandons ==
  ASSUME IInv, NEW r \in Request, Crash(r)
  PROVE  AccountsOf!Next \/ UNCHANGED AccountsOf!state
<1>1. /\ lost' = lost \cup {e \in Email : ProvisionedBy(r, e)}
      /\ UNCHANGED <<identities, users, admin, sessions, reconciled, adminTokens, config,
                     allowed>>
  BY DEF Crash, stored
<1>2. CASE pc[r] \in Provisioning
  <2>1. email[r] \in Email /\ email[r] \in identities \ (users \cup lost)
    BY <1>2 DEF IInv, RequestInv, Knows, Provisioning, ProvisionedOnce
  <2>2. lost' = lost \cup {email[r]}
    BY <1>1, <1>2, <2>1 DEF ProvisionedBy
  <2> QED
    BY <1>1, <2>1, <2>2
    DEF AccountsOf!Next, AccountsOf!Abandon, AccountsOf!Awaited, AccountsOf!login,
        AccountsOf!deployment
<1>3. CASE pc[r] \notin Provisioning
  <2>1. lost' = lost
    BY <1>1, <1>3 DEF ProvisionedBy
  <2> QED
    BY <1>1, <2>1
    DEF AccountsOf!state, AccountsOf!register, AccountsOf!login, AccountsOf!deployment
<1> QED
  BY <1>2, <1>3

\* A deployment interrupts the registrations under way.
LEMMA DeployDeploys ==
  ASSUME IInv, NEW c \in Allowlist \cup {Null}, Deploy(c)
  PROVE  AccountsOf!Next
<1> DEFINE I == {e \in Email : \E r \in Request : ProvisionedBy(r, e)}
<1>1. I \in SUBSET Email /\ I \subseteq identities \ (users \cup lost)
  BY DEF IInv, ProvisionedOnce, ProvisionedBy
<1>2. /\ config' = c /\ allowed' = allowed \cup (IF c = Null THEN {} ELSE c)
      /\ lost' = lost \cup I /\ reconciled' = {}
      /\ UNCHANGED <<identities, users, admin, sessions, adminTokens>>
  BY DEF Deploy, stored
<1> HIDE DEF I
<1>3. AccountsOf!Deploy(c, I)
  BY <1>1, <1>2 DEF AccountsOf!Deploy, AccountsOf!Awaited
<1> QED
  BY <1>1, <1>3 DEF AccountsOf!Next, AccountsOf!Deploy, Allowlist

\* Every other step of a request is between two operations.
LEMMA OthersStutter ==
  ASSUME NEW r \in Request, Acts(r), ~RegisterIdentity(r), ~CreateUser(r),
         ~SetUserPlatformAdmin(r), ~LoginFinish(r), ~RefreshSign(r), ~Crash(r)
  PROVE  UNCHANGED AccountsOf!state
<1>1. UNCHANGED <<stored, adminTokens, config, history>>
  <2>1. CASE Step(r)
    BY <2>1
    DEF Step, PreCheck, AssertUserEmailAvailable, VerifyCredentials, LoginLookup, Reconcile,
        SetLoad, RefreshLookup
  <2>2. CASE \E e \in Email : StartRegister(r, e) \/ StartLogin(r, e) \/ StartRefresh(r, e)
    BY <2>2 DEF StartRegister, StartLogin, StartRefresh, Start
  <2> QED
    BY <2>1, <2>2 DEF Acts
<1> QED
  BY <1>1
  DEF stored, history, AccountsOf!state, AccountsOf!register, AccountsOf!login,
      AccountsOf!deployment

\* The handlers implement the accounts: for any number of people, requests and deployments,
\* accounts and privileges change by atomic operations only.
THEOREM AccountsRefinement == Spec => ImplementsAccounts
<1>1. Init => HonestInv /\ AccountsOf!Init
  BY DEF Init, HonestInv, Honest, AccountsOf!Init
<1>2. IInv /\ HonestInv /\ [Next]_vars => [AccountsOf!Next]_AccountsOf!state
  <2> SUFFICES ASSUME IInv, HonestInv, [Next]_vars
               PROVE  AccountsOf!Next \/ UNCHANGED AccountsOf!state
    OBVIOUS
  <2>1. ASSUME NEW r \in Request, Acts(r)
        PROVE  AccountsOf!Next \/ UNCHANGED AccountsOf!state
    BY <2>1, RegisterIdentifies, CreateOpens, SetAppointsOrDismisses, FinishLogsIn,
       SignRenews, CrashAbandons, OthersStutter
  <2>2. ASSUME NEW e \in Email, TokenExpires(e) PROVE AccountsOf!Next
    BY <2>2
    DEF TokenExpires, stored, history, AccountsOf!Next, AccountsOf!Expire,
        AccountsOf!register, AccountsOf!deployment
  <2>3. ASSUME NEW c \in Allowlist \cup {Null}, Deploy(c) PROVE AccountsOf!Next
    BY <2>3, DeployDeploys
  <2>4. CASE UNCHANGED vars
    BY <2>4
    DEF vars, stored, history, AccountsOf!state, AccountsOf!register, AccountsOf!login,
        AccountsOf!deployment
  <2> QED
    BY <2>1, <2>2, <2>3, <2>4 DEF Next, Acts
<1>3. IInv /\ HonestInv /\ [Next]_vars => HonestInv'
  BY StepHonest
<1> QED
  BY <1>1, <1>2, <1>3, Invariance, PTL DEF Spec, ImplementsAccounts, AccountsOf!Spec
=============================================================================
