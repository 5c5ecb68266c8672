------------------------------ MODULE Accounts -------------------------------
(***************************************************************************)
(* What registration, login and deployments promise together, with every   *)
(* operation one atomic step.  A person gets an identity and then, once,   *)
(* an account without privileges, or the registration has failed and the   *)
(* identity never gets one.  An account's privilege is changed towards the *)
(* deployed list only, a login leaves it as the list says and issues a     *)
(* token for what is then stored, and only a renewal may still carry a     *)
(* privilege that the list does not give any more.                         *)
(***************************************************************************)
CONSTANTS Person, None

VARIABLES identities,  \* who can prove their identity
          accounts,    \* who has an account
          abandoned,   \* whose registration failed after the identity was made
          admins,      \* accounts with the privilege
          loggedIn,    \* who has logged in at some time
          settled,     \* who has logged in since the last deployment
          privileged,  \* who holds a valid token with the privilege
          list,        \* the deployed list of admins, or None
          listed       \* who was on a list at some time

register == <<identities, accounts, abandoned>>
login == <<loggedIn, settled, privileged>>
deployment == <<list, listed>>
state == <<register, admins, login, deployment>>

\* An identity whose account is still to come.
Awaited == identities \ (accounts \cup abandoned)

Listed(p) == list # None /\ p \in list
Unlisted(p) == list # None /\ p \notin list

Init ==
    /\ identities = {} /\ accounts = {} /\ abandoned = {} /\ admins = {}
    /\ loggedIn = {} /\ settled = {} /\ privileged = {}
    /\ list = None /\ listed = {}

Identify(p) ==
    /\ p \notin identities
    /\ identities' = identities \cup {p}
    /\ UNCHANGED <<accounts, abandoned, admins, login, deployment>>

Open(p) ==
    /\ p \in Awaited
    /\ accounts' = accounts \cup {p}
    /\ UNCHANGED <<identities, abandoned, admins, login, deployment>>

Abandon(p) ==
    /\ p \in Awaited
    /\ abandoned' = abandoned \cup {p}
    /\ UNCHANGED <<identities, accounts, admins, login, deployment>>

Appoint(p) ==
    /\ p \in accounts /\ Listed(p)
    /\ admins' = admins \cup {p}
    /\ UNCHANGED <<register, login, deployment>>

Dismiss(p) ==
    /\ p \in accounts /\ Unlisted(p)
    /\ admins' = admins \ {p}
    /\ UNCHANGED <<register, login, deployment>>

LogIn(p) ==
    /\ p \in accounts
    /\ Listed(p) => p \in admins
    /\ Unlisted(p) => p \notin admins
    /\ loggedIn' = loggedIn \cup {p}
    /\ settled' = settled \cup {p}
    /\ privileged' = privileged \cup ({p} \cap admins)
    /\ UNCHANGED <<register, admins, deployment>>

\* A renewed token carries the privilege of an admin, or of somebody who is being
\* dismissed and was listed before.
Renew(p) ==
    /\ p \in loggedIn
    /\ p \in admins \/ (Unlisted(p) /\ p \in listed)
    /\ privileged' = privileged \cup {p}
    /\ UNCHANGED <<register, admins, loggedIn, settled, deployment>>

Expire(p) ==
    /\ privileged' = privileged \ {p}
    /\ UNCHANGED <<register, admins, loggedIn, settled, deployment>>

\* A new list; registrations that it interrupts have failed.
Deploy(l, interrupted) ==
    /\ interrupted \subseteq Awaited
    /\ list' = l
    /\ listed' = listed \cup (IF l = None THEN {} ELSE l)
    /\ abandoned' = abandoned \cup interrupted
    /\ settled' = {}
    /\ UNCHANGED <<identities, accounts, admins, loggedIn, privileged>>

Next ==
    \/ \E p \in Person :
         Identify(p) \/ Open(p) \/ Abandon(p) \/ Appoint(p) \/ Dismiss(p) \/ LogIn(p)
           \/ Renew(p) \/ Expire(p)
    \/ \E l \in (SUBSET Person) \cup {None}, interrupted \in SUBSET Person :
         Deploy(l, interrupted)

Spec == Init /\ [][Next]_state
=============================================================================
