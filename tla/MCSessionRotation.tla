------------------------- MODULE MCSessionRotation -------------------------
(***************************************************************************)
(* SessionRotation for TLC: symmetry, and the documented property of whole *)
(* chains, which follows the replaced_by_session_id links.                 *)
(***************************************************************************)
EXTENDS SessionRotation, TLC

RequestSymmetry == Permutations(Request)
Symmetry == Permutations(Request) \cup Permutations(User)

\* The rows that rotations starting from s have created.
Descendants(s) ==
    LET chain[x \in SessionId] ==
          IF replacedBy[x] = Null THEN {} ELSE {replacedBy[x]} \cup chain[replacedBy[x]]
    IN chain[s]

\* openspec/specs/auth-session-rotation/spec.md:42: on reuse the system "MUST
\* invalidate every session/token record in that chain - the original session and
\* every descendant token issued through prior rotations - so none can ever be
\* redeemed again".  Stated at the moment the replaying request gets its 401.
ReuseInvalidatesTheChain ==
    \A r \in Request : pc[r] = "reused" => Descendants(token[r]) \subseteq revoked
=============================================================================
