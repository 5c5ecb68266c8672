----------------------------- MODULE AppRegistry -----------------------------
(***************************************************************************)
(* The app context: CreateAppCommandHandler checks that a slug is free and *)
(* saves the app, in two autocommitted queries, next to other creations    *)
(* and to reads.  repo.save() writes by id: it inserts a row, or           *)
(* overwrites the one that has the id.  AppBuilder, through which every    *)
(* app is built and loaded, is one object shared by all requests.  The     *)
(* AppCreatedEvent is published after the save, in no transaction with it. *)
(***************************************************************************)
EXTENDS Integers, FiniteSets

CONSTANTS Slug,     \* app slugs
          Request,  \* concurrent request slots
          MaxApps,  \* bound: apps ever registered
          Null      \* no row, no slug

AppId == 1..MaxApps

ASSUME AppsAssumption ==
    MaxApps \in Nat /\ IsFiniteSet(Request) /\ Null \notin Slug

VARIABLES
    apps,     \* table app: id -> slug, or Null
    nextApp,  \* next id that will be generated
    builder,  \* id last given to the shared AppBuilder, 0 if none was
    pc,       \* where each request is
    slug,     \* the slug each request asks for
    app,      \* the app each request has saved, 0 if none
    events,   \* AppCreatedEvents on the bus: <<id, slug>>
    lost      \* history: apps whose creation failed between save and publication

locals == <<slug, app>>
vars == <<apps, nextApp, builder, pc, locals, events, lost>>

TypeOK ==
    /\ apps \in [AppId -> Slug \cup {Null}]
    /\ nextApp \in 1..(MaxApps + 1)
    /\ builder \in 0..MaxApps
    /\ pc \in [Request -> {"idle", "check", "save", "publish"}]
    /\ slug \in [Request -> Slug \cup {Null}]
    /\ app \in [Request -> 0..MaxApps]
    /\ events \subseteq AppId \X Slug
    /\ lost \subseteq AppId

Init ==
    /\ apps = [a \in AppId |-> Null]
    /\ nextApp = 1 /\ builder = 0
    /\ pc = [r \in Request |-> "idle"]
    /\ slug = [r \in Request |-> Null]
    /\ app = [r \in Request |-> 0]
    /\ events = {} /\ lost = {}

-----------------------------------------------------------------------------
\* Mutants: no UNIQUE(slug); withId is not called; a row that is not there is
\* mapped all the same.
SlugConflictIgnored(a, s) == FALSE
NewIdLeftOver == IF builder = 0 THEN nextApp ELSE builder
LoadAppUnchecked(a) ==
    /\ builder' = IF apps[a] = Null THEN Null ELSE a
    /\ UNCHANGED <<apps, nextApp, pc, locals, events, lost>>

\* UNIQUE(slug) rejects writing s as app a.
SlugConflict(a, s) == \E o \in AppId \ {a} : apps[o] = s

\* CreateAppCommandHandler calls withId(UuidValueObject.generate()).
NewId == nextApp

End(r) ==
    /\ pc' = [pc EXCEPT ![r] = "idle"]
    /\ slug' = [slug EXCEPT ![r] = Null]
    /\ app' = [app EXCEPT ![r] = 0]

\* Bound: every creation under way has an id left.
StartCreateApp(r, s) ==
    /\ pc[r] = "idle"
    /\ nextApp + Cardinality({q \in Request : pc[q] \in {"check", "save"}}) =< MaxApps
    /\ pc' = [pc EXCEPT ![r] = "check"]
    /\ slug' = [slug EXCEPT ![r] = s]
    /\ UNCHANGED <<apps, nextApp, builder, app, events, lost>>

\* A row that is found is loaded through the builder, and the answer is 409.
AssertAppSlugAvailable(r) ==
    /\ pc[r] = "check"
    /\ \/ /\ \A a \in AppId : apps[a] # slug[r]
          /\ pc' = [pc EXCEPT ![r] = "save"]
          /\ UNCHANGED <<builder, locals>>
       \/ /\ \E a \in AppId : apps[a] = slug[r] /\ builder' = a
          /\ End(r)
    /\ UNCHANGED <<apps, nextApp, events, lost>>

\* repo.save(): the rows after writing slug s as app a.
Saved(a, s) == [apps EXCEPT ![a] = s]

\* Mutant: publishEvents before save.
SaveAppAnnounced(r) ==
    /\ pc[r] = "save"
    /\ builder' = NewId
    /\ nextApp' = nextApp + 1
    /\ events' = events \cup {<<NewId, slug[r]>>}
    /\ apps' = IF SlugConflict(NewId, slug[r]) THEN apps ELSE Saved(NewId, slug[r])
    /\ End(r)
    /\ UNCHANGED lost

\* Build and save; a violated constraint is answered 500.  StartCreateApp has left an
\* id for it.
SaveApp(r) ==
    /\ pc[r] = "save" /\ nextApp =< MaxApps
    /\ builder' = NewId
    /\ nextApp' = nextApp + 1
    /\ \/ SlugConflict(NewId, slug[r]) /\ End(r) /\ UNCHANGED apps
       \/ /\ ~SlugConflict(NewId, slug[r])
          /\ apps' = Saved(NewId, slug[r])
          /\ app' = [app EXCEPT ![r] = NewId]
          /\ pc' = [pc EXCEPT ![r] = "publish"]
          /\ UNCHANGED slug
    /\ UNCHANGED <<events, lost>>

\* Mutants: the repository's return value, which has no uncommitted events, is
\* passed to publishEvents; the event is built from what the builder holds by then.
UncommittedOfSaved(r) == {}
UncommittedOfBuilder(r) == {<<builder, slug[r]>>}

\* The event that create() applied to the aggregate.
Uncommitted(r) == {<<app[r], slug[r]>>}

\* publishEvents, and the answer.
PublishEvents(r) ==
    /\ pc[r] = "publish"
    /\ events' = events \cup Uncommitted(r)
    /\ End(r)
    /\ UNCHANGED <<apps, nextApp, builder, lost>>

\* Queries and tenancy's assertAppExists load an app through the builder.
LoadApp(a) ==
    /\ apps[a] # Null
    /\ builder' = a
    /\ UNCHANGED <<apps, nextApp, pc, locals, events, lost>>

\* The process dies, or a query or the publication fails: what was saved stays.
Crash(r) ==
    /\ pc[r] # "idle"
    /\ End(r)
    /\ lost' = lost \cup ({app[r]} \ {0})
    /\ UNCHANGED <<apps, nextApp, builder, events>>

Next ==
    \/ \E r \in Request :
         \/ \E s \in Slug : StartCreateApp(r, s)
         \/ AssertAppSlugAvailable(r)
         \/ SaveApp(r)
         \/ PublishEvents(r)
         \/ Crash(r)
    \/ \E a \in AppId : LoadApp(a)

Spec == Init /\ [][Next]_vars

-----------------------------------------------------------------------------
\* Creations that all found the slug free leave one app with it.
UniqueAppSlugs ==
    \A a, b \in AppId : apps[a] # Null /\ apps[a] = apps[b] => a = b

\* A registered app stays as it is: no creation, whatever was built or loaded
\* through the shared builder before it, overwrites another app.  (The tenancy
\* model relies on it: an app that was found once exists when the tenant is saved.)
AppsArePermanent ==
    [][\A a \in AppId : apps[a] # Null => apps'[a] = apps[a]]_vars

\* Consumers of the bus never hear of an app that is not stored as announced: a
\* creation that passes the check and then loses the race for its slug at the
\* constraint announces nothing.
AnnouncedAppsAreStored == \A e \in events : apps[e[1]] = e[2]

\* An app goes unannounced only while its creation is still at work or because it
\* failed in the gap between save and publication, which nothing repairs.
UnannouncedOnlyByFailure ==
    \A a \in AppId : apps[a] # Null =>
      \/ <<a, apps[a]>> \in events
      \/ a \in lost
      \/ \E r \in Request : pc[r] = "publish" /\ app[r] = a

-----------------------------------------------------------------------------
(* What this promises to readers and to consumers of the events.           *)

Registered == {a \in AppId : apps[a] # Null}

\* The stored apps, and those whose creation is still to publish.
Rows == {<<a, apps[a]>> : a \in Registered}
Pending == {app[r] : r \in {q \in Request : pc[q] = "publish"}}

Catalogue == INSTANCE AppCatalogue WITH
    Id <- AppId,
    Name <- Slug,
    catalogue <- Rows,
    pending <- Pending,
    announced <- events,
    givenUp <- lost

\* Interleaved at their awaits, through one shared builder and failing anywhere, creations
\* change table and bus only by the atomic operations of AppCatalogue: no other step can
\* be seen, an app is announced by the creation that stored it and by no second one, and
\* one that was given up is never announced.
ImplementsCatalogue == Catalogue!Spec
=============================================================================
