------------------------- MODULE AppRegistryProofs -------------------------
(***************************************************************************)
(* The app context keeps its promises for any slugs, requests and number   *)
(* of apps, and implements the catalogue.  What the properties need is     *)
(* that ids to come are unused, and that a creation which has yet to       *)
(* publish is the one that stored its app.                                 *)
(***************************************************************************)
EXTENDS AppRegistry, TLAPS

\* Ids are handed out in order: nothing is stored under one to come.
FreshInv == \A a \in AppId : a >= nextApp => apps[a] = Null

\* A creation has a slug until it ends; one that is about to publish has stored it
\* under its own id.
RequestInv ==
    \A r \in Request :
      /\ pc[r] # "idle" => slug[r] \in Slug
      /\ pc[r] = "publish" <=> app[r] # 0
      /\ pc[r] = "publish" => apps[app[r]] = slug[r]

IInv == TypeOK /\ FreshInv /\ RequestInv /\ UniqueAppSlugs /\ AnnouncedAppsAreStored
          /\ UnannouncedOnlyByFailure

-----------------------------------------------------------------------------
\* The invariant holds of the empty table that the migration leaves.
LEMMA InitIInv == Init => IInv
  BY AppsAssumption DEF Init, IInv, TypeOK, FreshInv, RequestInv, UniqueAppSlugs,
     AnnouncedAppsAreStored, UnannouncedOnlyByFailure, AppId

\* What a save does: ids to come are unused, so it leaves every stored app as it is.
LEMMA SaveIsFresh ==
  ASSUME IInv, NEW r \in Request, SaveApp(r)
  PROVE  /\ nextApp \in AppId /\ nextApp' = nextApp + 1 /\ apps[nextApp] = Null
         /\ \/ /\ apps' = apps /\ app' = [app EXCEPT ![r] = 0]
               /\ pc' = [pc EXCEPT ![r] = "idle"] /\ slug' = [slug EXCEPT ![r] = Null]
            \/ /\ apps' = [apps EXCEPT ![nextApp] = slug[r]]
               /\ app' = [app EXCEPT ![r] = nextApp]
               /\ pc' = [pc EXCEPT ![r] = "publish"] /\ slug' = slug
<1>1. nextApp \in AppId /\ nextApp' = nextApp + 1 /\ apps[nextApp] = Null
  BY AppsAssumption DEF SaveApp, IInv, TypeOK, FreshInv, AppId
<1> QED
  BY <1>1 DEF SaveApp, Saved, NewId, End

\* Every step of a creation, a read or a failure preserves it.
LEMMA StepIInv == IInv /\ [Next]_vars => IInv'
<1> SUFFICES ASSUME IInv, [Next]_vars
             PROVE  IInv'
  OBVIOUS
<1> USE AppsAssumption DEF IInv, AppId
<1>1. ASSUME NEW r \in Request, NEW s \in Slug, StartCreateApp(r, s)
      PROVE  IInv'
  BY <1>1 DEF StartCreateApp, TypeOK, FreshInv, RequestInv, UniqueAppSlugs,
     AnnouncedAppsAreStored, UnannouncedOnlyByFailure
<1>2. ASSUME NEW r \in Request, AssertAppSlugAvailable(r)
      PROVE  IInv'
  <2>1. /\ builder' \in 0..MaxApps /\ apps' = apps /\ nextApp' = nextApp
        /\ events' = events /\ lost' = lost /\ pc[r] = "check"
    BY <1>2 DEF AssertAppSlugAvailable, TypeOK
  <2>2. CASE pc' = [pc EXCEPT ![r] = "save"] /\ slug' = slug /\ app' = app
    BY <2>1, <2>2 DEF TypeOK, FreshInv, RequestInv, UniqueAppSlugs,
       AnnouncedAppsAreStored, UnannouncedOnlyByFailure
  <2>3. CASE End(r)
    BY <2>1, <2>3 DEF End, TypeOK, FreshInv, RequestInv, UniqueAppSlugs,
       AnnouncedAppsAreStored, UnannouncedOnlyByFailure
  <2> QED
    BY <1>2, <2>2, <2>3 DEF AssertAppSlugAvailable, locals
<1>3. ASSUME NEW r \in Request, SaveApp(r)
      PROVE  IInv'
  <2>1. builder' = nextApp /\ events' = events /\ lost' = lost /\ pc[r] = "save"
    BY <1>3 DEF SaveApp, NewId
  <2>2. slug[r] \in Slug /\ app[r] = 0
    BY <2>1 DEF TypeOK, RequestInv
  <2>3. nextApp \in AppId /\ nextApp' = nextApp + 1 /\ apps[nextApp] = Null
    BY <1>3, SaveIsFresh
  <2>4. UniqueAppSlugs'
    BY <1>3 DEF SaveApp, Saved, SlugConflict, NewId, TypeOK, UniqueAppSlugs
  <2>5. CASE /\ apps' = apps /\ app' = [app EXCEPT ![r] = 0]
             /\ pc' = [pc EXCEPT ![r] = "idle"] /\ slug' = [slug EXCEPT ![r] = Null]
    <3>1. TypeOK' /\ FreshInv' /\ RequestInv'
      BY <2>1, <2>2, <2>3, <2>5 DEF TypeOK, FreshInv, RequestInv
    <3>2. AnnouncedAppsAreStored' /\ UnannouncedOnlyByFailure'
      BY <2>1, <2>5 DEF TypeOK, AnnouncedAppsAreStored, UnannouncedOnlyByFailure
    <3> QED
      BY <2>4, <3>1, <3>2
  <2>6. CASE /\ apps' = [apps EXCEPT ![nextApp] = slug[r]]
             /\ app' = [app EXCEPT ![r] = nextApp]
             /\ pc' = [pc EXCEPT ![r] = "publish"] /\ slug' = slug
    <3>1. TypeOK' /\ FreshInv'
      BY <2>1, <2>2, <2>3, <2>6 DEF TypeOK, FreshInv
    <3>2. RequestInv'
      BY <2>1, <2>2, <2>3, <2>6 DEF TypeOK, RequestInv
    <3>3. AnnouncedAppsAreStored'
      BY <2>1, <2>3, <2>6 DEF TypeOK, AnnouncedAppsAreStored
    <3>4. UnannouncedOnlyByFailure'
      BY <2>1, <2>2, <2>3, <2>6 DEF TypeOK, UnannouncedOnlyByFailure
    <3> QED
      BY <2>4, <3>1, <3>2, <3>3, <3>4
  <2> QED
    BY <1>3, <2>5, <2>6, SaveIsFresh
<1>4. ASSUME NEW r \in Request, PublishEvents(r)
      PROVE  IInv'
  <2>1. TypeOK' /\ FreshInv' /\ RequestInv' /\ UniqueAppSlugs'
    BY <1>4 DEF PublishEvents, Uncommitted, End, TypeOK, FreshInv, RequestInv,
       UniqueAppSlugs
  <2>2. AnnouncedAppsAreStored' /\ UnannouncedOnlyByFailure'
    BY <1>4 DEF PublishEvents, Uncommitted, End, TypeOK, RequestInv,
       AnnouncedAppsAreStored, UnannouncedOnlyByFailure
  <2> QED
    BY <2>1, <2>2
<1>5. ASSUME NEW r \in Request, Crash(r)
      PROVE  IInv'
  <2>1. /\ apps' = apps /\ nextApp' = nextApp /\ builder' = builder /\ events' = events
        /\ pc' = [pc EXCEPT ![r] = "idle"] /\ slug' = [slug EXCEPT ![r] = Null]
        /\ app' = [app EXCEPT ![r] = 0] /\ lost' = lost \cup ({app[r]} \ {0})
    BY <1>5 DEF Crash, End
  <2>2. TypeOK'
    <3>1. app[r] = 0 \/ app[r] \in AppId
      BY DEF TypeOK
    <3>2. lost' \subseteq AppId
      <4> HIDE DEF AppId
      <4> QED
        BY <2>1, <3>1, Zenon DEF TypeOK
    <3> QED
      BY <2>1, <3>2 DEF TypeOK
  <2>3. FreshInv' /\ UniqueAppSlugs' /\ AnnouncedAppsAreStored'
    BY <2>1 DEF FreshInv, UniqueAppSlugs, AnnouncedAppsAreStored
  <2>4. RequestInv'
    BY <2>1 DEF TypeOK, RequestInv
  <2>5. UnannouncedOnlyByFailure'
    BY <2>1 DEF TypeOK, RequestInv, UnannouncedOnlyByFailure
  <2> QED
    BY <2>2, <2>3, <2>4, <2>5
<1>6. ASSUME NEW a \in AppId, LoadApp(a)
      PROVE  IInv'
  BY <1>6 DEF LoadApp, locals, TypeOK, FreshInv, RequestInv, UniqueAppSlugs,
     AnnouncedAppsAreStored, UnannouncedOnlyByFailure
<1>7. CASE UNCHANGED vars
  BY <1>7 DEF vars, locals, TypeOK, FreshInv, RequestInv, UniqueAppSlugs,
     AnnouncedAppsAreStored, UnannouncedOnlyByFailure
<1> QED
  BY <1>1, <1>2, <1>3, <1>4, <1>5, <1>6, <1>7 DEF Next

\* The invariant holds in every reachable state.
LEMMA Invariance == Spec => []IInv
  BY InitIInv, StepIInv, PTL DEF Spec

-----------------------------------------------------------------------------
\* Type correctness: ids, builder and program points stay what they are.
THEOREM TypeCorrect == Spec => []TypeOK
  BY Invariance, PTL DEF IInv

\* Creations that race past the slug check leave one app with the slug, whatever
\* their number.
THEOREM SlugsAreUnique == Spec => []UniqueAppSlugs
  BY Invariance, PTL DEF IInv

\* The bus never announces an app that the constraint has rejected.
THEOREM EventsAreTrue == Spec => []AnnouncedAppsAreStored
  BY Invariance, PTL DEF IInv

\* Only a failure between save and publication leaves an app unannounced.
THEOREM EventsAreComplete == Spec => []UnannouncedOnlyByFailure
  BY Invariance, PTL DEF IInv

\* No creation overwrites an app, whatever the shared builder was last used for.
THEOREM AppsStay == Spec => AppsArePermanent
<1>1. IInv /\ [Next]_vars => [\A a \in AppId : apps[a] # Null => apps'[a] = apps[a]]_vars
  <2> SUFFICES ASSUME IInv, [Next]_vars, NEW a \in AppId, apps[a] # Null
               PROVE  apps'[a] = apps[a]
    OBVIOUS
  <2>1. ASSUME NEW r \in Request, SaveApp(r)
        PROVE  apps'[a] = apps[a]
    BY <2>1, SaveIsFresh DEF IInv, TypeOK
  <2>2. ASSUME NEW r \in Request, ~SaveApp(r), Next
        PROVE  apps'[a] = apps[a]
    BY <2>2, <2>1 DEF Next, StartCreateApp, AssertAppSlugAvailable, PublishEvents, Crash, LoadApp
  <2> QED
    BY <2>1, <2>2 DEF Next, LoadApp, vars
<1> QED
  BY <1>1, Invariance, PTL DEF Spec, AppsArePermanent

-----------------------------------------------------------------------------
(* Refinement: table and bus, seen as the catalogue.                       *)

\* No two creations are about to publish one app.
OneCreatorEach ==
    \A r, q \in Request : pc[r] = "publish" /\ pc[q] = "publish" /\ app[r] = app[q] => r = q

\* A creation that has its own app left the others to theirs: an id that is taken is not
\* handed out again.
LEMMA StepOneCreator ==
  ASSUME IInv, OneCreatorEach, [Next]_vars
  PROVE  OneCreatorEach'
<1>1. ASSUME NEW r \in Request, SaveApp(r)
      PROVE  OneCreatorEach'
  <2>1. \A q \in Request : pc[q] = "publish" => app[q] # nextApp
    <3>1. apps[nextApp] = Null
      BY <1>1, SaveIsFresh
    <3>2. \A q \in Request : pc[q] = "publish" => apps[app[q]] # Null
      BY AppsAssumption DEF IInv, RequestInv
    <3> QED
      BY <3>1, <3>2
  <2> QED
    BY <1>1, <2>1, SaveIsFresh DEF IInv, TypeOK, OneCreatorEach
<1>2. ASSUME NEW r \in Request, PublishEvents(r) \/ Crash(r)
      PROVE  OneCreatorEach'
  BY <1>2 DEF PublishEvents, Crash, End, IInv, TypeOK, OneCreatorEach
<1>3. ASSUME NEW r \in Request, NEW s \in Slug, StartCreateApp(r, s)
      PROVE  OneCreatorEach'
  BY <1>3 DEF StartCreateApp, IInv, TypeOK, OneCreatorEach
<1>4. ASSUME NEW r \in Request, AssertAppSlugAvailable(r)
      PROVE  OneCreatorEach'
  BY <1>4 DEF AssertAppSlugAvailable, End, locals, IInv, TypeOK, OneCreatorEach
<1>5. ASSUME NEW a \in AppId, LoadApp(a)
      PROVE  OneCreatorEach'
  BY <1>5 DEF LoadApp, locals, OneCreatorEach
<1>6. CASE UNCHANGED vars
  BY <1>6 DEF vars, locals, OneCreatorEach
<1> QED
  BY <1>1, <1>2, <1>3, <1>4, <1>5, <1>6 DEF Next

\* A request that ends a creation of its own takes one id out of those to be announced.
LEMMA EndTakesOne ==
  ASSUME IInv, OneCreatorEach, NEW r \in Request, End(r)
  PROVE  /\ pc[r] = "publish" => app[r] \in Pending /\ Pending' = Pending \ {app[r]}
         /\ pc[r] # "publish" => Pending' = Pending
<1>1. /\ pc'[r] = "idle"
      /\ \A q \in Request \ {r} : pc'[q] = pc[q] /\ app'[q] = app[q]
  BY DEF End, IInv, TypeOK
<1>2. Pending' = {app[q] : q \in {p \in Request \ {r} : pc[p] = "publish"}}
  BY <1>1 DEF Pending
<1>3. CASE pc[r] = "publish"
  <2>1. app[r] \in Pending
    BY <1>3 DEF Pending
  <2>2. \A q \in Request \ {r} : pc[q] = "publish" => app[q] # app[r]
    BY <1>3 DEF OneCreatorEach
  <2>3. Pending' = Pending \ {app[r]}
    BY <1>2, <1>3, <2>2 DEF Pending
  <2> QED
    BY <1>3, <2>1, <2>3
<1>4. CASE pc[r] # "publish"
  BY <1>2, <1>4 DEF Pending
<1> QED
  BY <1>3, <1>4

\* A save that UNIQUE(slug) lets through registers an app; one that it rejects cannot be seen.
LEMMA SaveRegisters ==
  ASSUME IInv, OneCreatorEach, NEW r \in Request, SaveApp(r)
  PROVE  Catalogue!Next \/ UNCHANGED Catalogue!state
<1> DEFINE a == nextApp
           s == slug[r]
<1>1. /\ pc[r] = "save" /\ s \in Slug /\ a \in AppId /\ apps[a] = Null
      /\ events' = events /\ lost' = lost
  BY SaveIsFresh DEF SaveApp, IInv, RequestInv
<1>2. CASE SlugConflict(a, s) /\ End(r) /\ apps' = apps
  <2>1. Pending' = Pending
    BY <1>1, <1>2, EndTakesOne
  <2>2. Rows' = Rows
    BY <1>2 DEF Rows, Registered
  <2> QED
    BY <1>1, <2>1, <2>2 DEF Catalogue!state
<1>3. CASE /\ ~SlugConflict(a, s) /\ apps' = [apps EXCEPT ![a] = s]
           /\ app' = [app EXCEPT ![r] = a] /\ pc' = [pc EXCEPT ![r] = "publish"]
  <2>1. /\ pc'[r] = "publish" /\ app'[r] = a
        /\ \A q \in Request \ {r} : pc'[q] = pc[q] /\ app'[q] = app[q]
    BY <1>3 DEF IInv, TypeOK
  <2>2. Pending' = Pending \cup {a}
    BY <1>1, <2>1 DEF Pending
  <2>3. /\ apps'[a] = s /\ s # Null
        /\ \A o \in AppId \ {a} : apps'[o] = apps[o]
    BY <1>1, <1>3, AppsAssumption DEF IInv, TypeOK
  <2>4. Rows' = Rows \cup {<<a, s>>}
    BY <1>1, <2>3 DEF Rows, Registered
  <2>5. \A e \in Rows : e[1] # a /\ e[2] # s
    BY <1>1, <1>3 DEF Rows, Registered, SlugConflict
  <2>6. Catalogue!Register(a, s)
    BY <1>1, <2>2, <2>4, <2>5 DEF Catalogue!Register
  <2> QED
    BY <1>1, <2>6 DEF Catalogue!Next, Catalogue!Register
<1> QED
  BY <1>2, <1>3 DEF SaveApp, Saved, NewId

\* A publication announces the app of its creation, as it is stored.
LEMMA PublishAnnounces ==
  ASSUME IInv, OneCreatorEach, NEW r \in Request, PublishEvents(r)
  PROVE  Catalogue!Next
<1> DEFINE a == app[r]
           s == slug[r]
<1>1. /\ pc[r] = "publish" /\ End(r) /\ apps' = apps /\ lost' = lost
      /\ events' = events \cup {<<a, s>>}
  BY DEF PublishEvents, Uncommitted
<1>2. a \in AppId /\ s \in Slug /\ apps[a] = s /\ s # Null
  BY <1>1, AppsAssumption DEF IInv, TypeOK, RequestInv, AppId
<1>3. a \in Pending /\ Pending' = Pending \ {a}
  BY <1>1, EndTakesOne
<1>4. Rows' = Rows /\ <<a, s>> \in Rows
  BY <1>1, <1>2 DEF Rows, Registered
<1>5. Catalogue!Announce(a, s)
  BY <1>1, <1>3, <1>4 DEF Catalogue!Announce
<1> QED
  BY <1>2, <1>5 DEF Catalogue!Next, Catalogue!Announce

\* A failure between save and publication gives the announcement up; elsewhere it cannot be
\* seen.
LEMMA CrashGivesUp ==
  ASSUME IInv, OneCreatorEach, NEW r \in Request, Crash(r)
  PROVE  Catalogue!Next \/ UNCHANGED Catalogue!state
<1> DEFINE a == app[r]
<1>1. /\ End(r) /\ apps' = apps /\ events' = events /\ lost' = lost \cup ({a} \ {0})
  BY DEF Crash
<1>2. Rows' = Rows
  BY <1>1 DEF Rows, Registered
<1>3. CASE pc[r] = "publish"
  <2>1. a \in AppId /\ a # 0
    BY <1>3, AppsAssumption DEF IInv, TypeOK, RequestInv, AppId
  <2>2. a \in Pending /\ Pending' = Pending \ {a}
    BY <1>1, <1>3, EndTakesOne
  <2>3. lost' = lost \cup {a}
    BY <1>1, <2>1
  <2>4. Catalogue!GiveUp(a)
    BY <1>1, <1>2, <2>2, <2>3 DEF Catalogue!GiveUp
  <2> QED
    BY <2>1, <2>4 DEF Catalogue!Next, Catalogue!GiveUp
<1>4. CASE pc[r] # "publish"
  <2>1. a = 0
    BY <1>4 DEF IInv, RequestInv
  <2>2. Pending' = Pending /\ lost' = lost
    BY <1>1, <1>4, <2>1, EndTakesOne
  <2> QED
    BY <1>1, <1>2, <2>2 DEF Catalogue!state
<1> QED
  BY <1>3, <1>4

\* Every other step stutters.
LEMMA OthersStutter ==
  ASSUME IInv, OneCreatorEach, NEW r \in Request,
         (\E s \in Slug : StartCreateApp(r, s)) \/ AssertAppSlugAvailable(r)
  PROVE  UNCHANGED Catalogue!state
<1>1. apps' = apps /\ events' = events /\ lost' = lost
  BY DEF StartCreateApp, AssertAppSlugAvailable
<1>2. Rows' = Rows
  BY <1>1 DEF Rows, Registered
<1>3. Pending' = Pending
  <2>1. CASE End(r) /\ pc[r] # "publish"
    BY <2>1, EndTakesOne
  <2>2. CASE /\ app' = app /\ pc[r] # "publish"
             /\ \E l \in {"check", "save"} : pc' = [pc EXCEPT ![r] = l]
    <3>1. \A q \in Request : pc'[q] = "publish" <=> pc[q] = "publish"
      BY <2>2 DEF IInv, TypeOK
    <3> QED
      BY <2>2, <3>1 DEF Pending
  <2> QED
    BY <2>1, <2>2 DEF StartCreateApp, AssertAppSlugAvailable, locals
<1> QED
  BY <1>1, <1>2, <1>3 DEF Catalogue!state

\* The handlers implement the catalogue: whatever runs at the same time and wherever it
\* fails, an app is registered, and announced or given up, in atomic steps.
THEOREM CatalogueRefinement == Spec => ImplementsCatalogue
<1>1. Init => OneCreatorEach /\ Catalogue!Init
  BY DEF Init, OneCreatorEach, Rows, Pending, Registered, Catalogue!Init
<1>2. IInv /\ OneCreatorEach /\ [Next]_vars => [Catalogue!Next]_Catalogue!state
  <2> SUFFICES ASSUME IInv, OneCreatorEach, [Next]_vars
               PROVE  Catalogue!Next \/ UNCHANGED Catalogue!state
    OBVIOUS
  <2>1. CASE UNCHANGED vars
    BY <2>1 DEF vars, locals, Rows, Pending, Registered, Catalogue!state
  <2>2. ASSUME NEW a \in AppId, LoadApp(a) PROVE UNCHANGED Catalogue!state
    BY <2>2 DEF LoadApp, locals, Rows, Pending, Registered, Catalogue!state
  <2> QED
    BY <2>1, <2>2, SaveRegisters, PublishAnnounces, CrashGivesUp, OthersStutter DEF Next
<1>3. IInv /\ OneCreatorEach /\ [Next]_vars => OneCreatorEach'
  BY StepOneCreator
<1> QED
  BY <1>1, <1>2, <1>3, Invariance, PTL DEF Spec, ImplementsCatalogue, Catalogue!Spec
=============================================================================
