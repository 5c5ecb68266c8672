---------------------------- MODULE RefreshTokens ----------------------------
(***************************************************************************)
(* What refresh-token rotation promises, with every operation one atomic   *)
(* step: a token comes into being by a login or in exchange for a live     *)
(* token of the same user, which is spent by it; a token is live until it  *)
(* is exchanged or invalidated together with other tokens of its user, and *)
(* never becomes live again.                                               *)
(***************************************************************************)
CONSTANTS Token, Owner, None

VARIABLES live,   \* tokens that can be exchanged
          spent,  \* tokens that were exchanged or invalidated
          issued, \* tokens that a login created
          next,   \* the token that a token was exchanged for, or None
          owner   \* the user a token was created for, or None

tokens == <<live, spent, issued, next, owner>>

Fresh(t) == t \notin live \cup spent

Init ==
    /\ live = {} /\ spent = {} /\ issued = {}
    /\ next = [t \in Token |-> None]
    /\ owner = [t \in Token |-> None]

\* A login starts a chain.
Issue(t, u) ==
    /\ Fresh(t)
    /\ live' = live \cup {t}
    /\ issued' = issued \cup {t}
    /\ owner' = [owner EXCEPT ![t] = u]
    /\ UNCHANGED <<spent, next>>

\* A refresh exchanges t for n.
Exchange(t, n) ==
    /\ t \in live /\ Fresh(n)
    /\ live' = (live \ {t}) \cup {n}
    /\ spent' = spent \cup {t}
    /\ next' = [next EXCEPT ![t] = n]
    /\ owner' = [owner EXCEPT ![n] = owner[t]]
    /\ UNCHANGED issued

\* Reuse was detected: tokens of one user are invalidated.
Invalidate(u, S) ==
    /\ S \subseteq {t \in live : owner[t] = u}
    /\ live' = live \ S
    /\ spent' = spent \cup S
    /\ UNCHANGED <<issued, next, owner>>

Next ==
    \/ \E t \in Token, u \in Owner : Issue(t, u)
    \/ \E t, n \in Token : Exchange(t, n)
    \/ \E u \in Owner : \E S \in SUBSET live : Invalidate(u, S)

Spec == Init /\ [][Next]_tokens
=============================================================================
