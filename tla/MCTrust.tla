------------------------------ MODULE MCTrust -------------------------------
(* Instances of Trust for TLC. *)
EXTENDS Trust, TLC

CONSTANTS g0, g1, g2, p1, p2, v1, v2, d1, d2

\* What an earlier run may have left for p1: nothing, an approval, a revocation.
Plain == [active |-> p1, of |-> [p \in Profiles |-> v1]]
Receipt(id, revoked) == [review |-> id, revoked |-> revoked, print |-> Plain]
With(f) == [state |-> "ledger", profiles |-> f]
FirstRun == {NoDisk}
Decided(revoked) == With([p \in {p1} |-> Receipt(g0, revoked)])
AnyRun == {NoDisk, Decided(FALSE), Decided(TRUE)}

\* g0 is used before the run starts; the others are interchangeable.
Symmetry == Permutations(Daemons) \cup Permutations(Requests) \cup Permutations(Reviews \ {g0})
=============================================================================
