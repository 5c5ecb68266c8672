---------------------------- MODULE TenantAccess -----------------------------
(***************************************************************************)
(* What the tenancy context promises about access, with every operation    *)
(* one atomic step.  A tenant is reserved and closed to everybody until it *)
(* is founded with an owner.  From then on users are admitted, each once,  *)
(* and roles never change and never disappear alone: an owner's deletion   *)
(* takes all roles of the tenant, and none of another.  A tenant whose     *)
(* deletion has started may be removed, and revived, but not with a role   *)
(* in it.  Tokens are granted what is stored.                              *)
(***************************************************************************)
CONSTANTS Tenant, Member, Rank

VARIABLES present,  \* tenants that are stored
          founded,  \* tenants that were given an owner
          closing,  \* tenants whose deletion was started
          roles,    \* <<tenant, member, rank>>
          granted   \* <<tenant, rank>> pairs in the valid tokens of each member

access == <<present, founded, closing, roles, granted>>

OfOthers(t) == {m \in roles : m[1] # t}

Held(u) == {<<m[1], m[3]>> : m \in {n \in roles : n[2] = u}}

Init ==
    /\ present = {} /\ founded = {} /\ closing = {} /\ roles = {}
    /\ granted = [u \in Member |-> {}]

Reserve(t) ==
    /\ t \notin present \cup founded
    /\ present' = present \cup {t}
    /\ UNCHANGED <<founded, closing, roles, granted>>

Found(t, u) ==
    /\ t \in present \ founded
    /\ founded' = founded \cup {t}
    /\ roles' = roles \cup {<<t, u, "OWNER">>}
    /\ UNCHANGED <<present, closing, granted>>

Admit(t, u, rank) ==
    /\ t \in present \cap founded
    /\ \A other \in Rank : <<t, u, other>> \notin roles
    /\ roles' = roles \cup {<<t, u, rank>>}
    /\ UNCHANGED <<present, founded, closing, granted>>

\* The deletion by u, who owns the tenant unless another deletion was faster.
Close(t, u) ==
    /\ <<t, u, "OWNER">> \in roles \/ t \in closing
    /\ closing' = closing \cup {t}
    /\ roles' = OfOthers(t)
    /\ UNCHANGED <<present, founded, granted>>

Remove(t) ==
    /\ t \in closing
    /\ present' = present \ {t}
    /\ roles' = OfOthers(t)
    /\ UNCHANGED <<founded, closing, granted>>

\* An update that began before the removal stores the tenant again.
Revive(t) ==
    /\ t \in closing \ present
    /\ present' = present \cup {t}
    /\ UNCHANGED <<founded, closing, roles, granted>>

\* A new token, beside the earlier ones or after they have expired.
Grant(u) ==
    /\ \E earlier \in {{}, granted[u]} :
         granted' = [granted EXCEPT ![u] = earlier \cup Held(u)]
    /\ UNCHANGED <<present, founded, closing, roles>>

Next ==
    \/ \E t \in Tenant : Reserve(t) \/ Remove(t) \/ Revive(t)
    \/ \E t \in Tenant, u \in Member :
         Found(t, u) \/ Close(t, u) \/ \E rank \in Rank : Admit(t, u, rank)
    \/ \E u \in Member : Grant(u)

Spec == Init /\ [][Next]_access
=============================================================================
