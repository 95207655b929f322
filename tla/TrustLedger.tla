---------------------------- MODULE TrustLedger -----------------------------
(***************************************************************************)
(* What the trust ledger promises, as one variable that changes at once:   *)
(* a profile is undecided, blocked, or approved by one review; a review    *)
(* approves once, for one profile; a decision about some profiles leaves   *)
(* the others alone; a loss of power takes back at most decisions nobody   *)
(* was told of.                                                            *)
(***************************************************************************)
CONSTANTS Profiles, Reviews, Undecided, Blocked

VARIABLES decision,  \* [Profiles -> {Undecided, Blocked} \cup Reviews]
          kept,      \* the decisions that survive a loss of power
          spent      \* reviews that have approved

Decisions == [Profiles -> {Undecided, Blocked} \cup Reviews]

Init ==
  /\ decision \in Decisions /\ kept = decision
  /\ spent \subseteq Reviews
  /\ \A p \in Profiles : decision[p] \in Reviews => decision[p] \in spent

Approve(p, id) ==
  /\ id \notin spent
  /\ decision' = [decision EXCEPT ![p] = id]
  /\ spent' = spent \cup {id}
  /\ UNCHANGED kept

Block(S) ==
  /\ decision' = [p \in Profiles |-> IF p \in S THEN Blocked ELSE decision[p]]
  /\ UNCHANGED <<kept, spent>>

Persist == kept' = decision /\ UNCHANGED <<decision, spent>>

PowerLoss == decision' = kept /\ UNCHANGED <<kept, spent>>

Removal ==
  /\ decision' = [p \in Profiles |-> Undecided] /\ kept' = decision'
  /\ UNCHANGED spent

Next ==
  \/ \E p \in Profiles, id \in Reviews : Approve(p, id)
  \/ \E S \in SUBSET Profiles : Block(S)
  \/ Persist \/ PowerLoss \/ Removal

Spec == Init /\ [][Next]_<<decision, kept, spent>>
=============================================================================
