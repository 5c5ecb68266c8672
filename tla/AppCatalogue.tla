---------------------------- MODULE AppCatalogue -----------------------------
(***************************************************************************)
(* What the app context promises to its readers and to the consumers of    *)
(* its events, with every operation one atomic step.  An app is registered *)
(* under an id and a slug that no other app has, and stays.  Then it is    *)
(* announced, once and as it was registered, or its announcement is given  *)
(* up for good.                                                            *)
(***************************************************************************)
CONSTANTS Id, Name

VARIABLES catalogue,  \* <<id, name>> of the registered apps
          pending,    \* ids of apps that are still to be announced
          announced,  \* <<id, name>> of the announced apps
          givenUp     \* ids of apps that will not be announced

state == <<catalogue, pending, announced, givenUp>>

Init == catalogue = {} /\ pending = {} /\ announced = {} /\ givenUp = {}

Register(a, n) ==
    /\ \A e \in catalogue : e[1] # a /\ e[2] # n
    /\ catalogue' = catalogue \cup {<<a, n>>}
    /\ pending' = pending \cup {a}
    /\ UNCHANGED <<announced, givenUp>>

Announce(a, n) ==
    /\ a \in pending /\ <<a, n>> \in catalogue
    /\ pending' = pending \ {a}
    /\ announced' = announced \cup {<<a, n>>}
    /\ UNCHANGED <<catalogue, givenUp>>

GiveUp(a) ==
    /\ a \in pending
    /\ pending' = pending \ {a}
    /\ givenUp' = givenUp \cup {a}
    /\ UNCHANGED <<catalogue, announced>>

Next ==
    \/ \E a \in Id, n \in Name : Register(a, n) \/ Announce(a, n)
    \/ \E a \in Id : GiveUp(a)

Spec == Init /\ [][Next]_state
=============================================================================
