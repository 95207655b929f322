----------------------------- MODULE TrustStore -----------------------------
(***************************************************************************)
(* The pure part of the MCP trust store (src/src/mcp/trust.rs) and of its  *)
(* ledger on disk (src/src/mcp/trust_disk.rs): one operator per method,    *)
(* taking a store and returning the store it leaves behind.                *)
(*                                                                         *)
(* A configuration is what the reviewed files hold together; a receipt     *)
(* pins all of it ("print", the SHA-256 of every file).  The servers a     *)
(* profile resolves to are one version per profile.  "receipts" is not a   *)
(* field: every assignment to it in the code sets it to the contents of    *)
(* "disk", so Receipts(m) reads it from there.  "storage" is always set,   *)
(* because every handler syncs first.                                      *)
(*                                                                         *)
(* A definition named for what it gets wrong (SyncForgetsRemoval) is used  *)
(* by no module: it is the next definition with one fault, kept to show    *)
(* that a property notices the fault.                                      *)
(***************************************************************************)
EXTENDS FiniteSets, Naturals

CONSTANTS Profiles,    \* profile names the configuration defines
          Reviews,     \* review ids (Uuid::new_v4)
          Versions,    \* what a profile may resolve to
          MaxReviews,  \* MAX_REVIEWS: pending reviews, and decided profiles
          None         \* no review, no version, no profile

ASSUME NoneIsNoReview == None \notin Reviews
ASSUME LimitIsPositive == MaxReviews \in Nat \ {0}
ASSUME ProfilesAreFinite == IsFiniteSet(Profiles)

Configs == [active : Profiles, of : [Profiles -> Versions]]

(* The maps from some elements of D to elements of R. *)
Partial(D, R) == UNION {[S -> R] : S \in SUBSET D}

(* A receipt records a review; or a block of a profile that had none, which *)
(* pins no file and carries an id no review has.                            *)
BlockReceipt == [review |-> None, revoked |-> TRUE, print |-> None]
ReceiptType == [review : Reviews, revoked : BOOLEAN, print : Configs] \cup {BlockReceipt}
Ledgers == Partial(Profiles, ReceiptType)
Empty == [p \in {} |-> None]

(* What trust_disk::read finds: no directory (Ok(None)), a directory with   *)
(* no ledger (an error), or a ledger.                                       *)
Disks == [state : {"absent", "bare", "ledger"}, profiles : Ledgers]
NoDisk == [state |-> "absent", profiles |-> Empty]

Grants == Partial(Profiles, [id : Reviews, resolution : Versions])
Pendings == Partial(Reviews, [profile : Profiles, contents : Configs, expired : BOOLEAN])

Stores == [disk : Disks, grants : Grants, revoked : SUBSET Profiles, pending : Pendings]
NewStore == [disk |-> NoDisk, grants |-> Empty, revoked |-> {}, pending |-> Empty]

-----------------------------------------------------------------------------
(* Maps. *)
Put(f, x, y) == [z \in DOMAIN f \cup {x} |-> IF z = x THEN y ELSE f[z]]
Without(f, S) == [z \in DOMAIN f \ S |-> f[z]]

Receipts(m) == m.disk.profiles

(* decode: a ledger of more profiles is refused, by a read and by a save.   *)
Decodes(ledger) == Cardinality(DOMAIN ledger) <= MaxReviews

ApprovedId(m, p) == IF p \in DOMAIN m.grants THEN m.grants[p].id ELSE None

(* A handler goes on only while the profile is not revoked and its grant    *)
(* is the one it captured.                                                  *)
GrantUnchanged(m, p, id) == ApprovedId(m, p) = id

TrustUnchanged(m, p, id) == p \notin m.revoked /\ ApprovedId(m, p) = id

-----------------------------------------------------------------------------
(* sync *)
SyncForgetsRemoval(m, disk) ==
  /\ disk.state # "bare"
  /\ disk = m.disk \/ Decodes(disk.profiles)

SyncOk(m, disk) ==
  /\ disk.state # "bare"
  /\ ~(m.disk.state = "ledger" /\ disk.state = "absent")
  /\ disk = m.disk \/ Decodes(disk.profiles)

SameProfile(m, disk, p) == p \in DOMAIN Receipts(m)

SameReceipt(m, disk, p) == p \in DOMAIN Receipts(m) /\ Receipts(m)[p] = disk.profiles[p]

RestoresAnything(receipt, config) == receipt.print # None

(* restore: every source still hashes to what the receipt pins. *)
Restores(receipt, config) == receipt.print = config

Restorable(m, disk, config) ==
  {p \in DOMAIN disk.profiles :
     /\ ~disk.profiles[p].revoked
     /\ IF SameReceipt(m, disk, p) THEN p \in DOMAIN m.grants
                                   ELSE Restores(disk.profiles[p], config)}

Sync(m, disk, config) ==
  IF disk = m.disk THEN m
  ELSE LET granted == Restorable(m, disk, config)
       IN [m EXCEPT
            !.disk = disk,
            !.grants = [p \in granted |->
                          IF SameReceipt(m, disk, p) THEN m.grants[p]
                          ELSE [id |-> disk.profiles[p].review, resolution |-> config.of[p]]],
            !.revoked = DOMAIN disk.profiles \ granted]

-----------------------------------------------------------------------------
(* stage: expired reviews go first, then the new one if there is room.      *)
Fresh(pending) == Without(pending, {id \in DOMAIN pending : pending[id].expired})

Stage(m, id, p, contents) ==
  LET kept == Fresh(m.pending)
  IN IF Cardinality(DOMAIN kept) >= MaxReviews THEN [m EXCEPT !.pending = kept]
     ELSE [m EXCEPT !.pending =
             Put(kept, id, [profile |-> p, contents |-> contents, expired |-> FALSE])]

Expire(m, id) == [m EXCEPT !.pending[id].expired = TRUE]

(* cancel, and the removal approve begins with. *)
Cancel(m, id) == [m EXCEPT !.pending = Without(@, {id})]

-----------------------------------------------------------------------------
(* approve *)
RoomBesideGrants(m, p) ==
  Cardinality(DOMAIN m.grants) < MaxReviews \/ p \in DOMAIN m.grants \cup m.revoked

RoomFor(m, p) ==
  \/ Cardinality(DOMAIN m.grants) + Cardinality(m.revoked) < MaxReviews
  \/ p \in DOMAIN m.grants \cup m.revoked

Approvable(m, id, config) ==
  /\ id \in DOMAIN m.pending
  /\ ~m.pending[id].expired
  /\ m.pending[id].contents = config
  /\ RoomFor(m, m.pending[id].profile)

ApprovedLedger(m, id) ==
  LET review == m.pending[id]
  IN Put(Receipts(m), review.profile,
         [review |-> id, revoked |-> FALSE, print |-> review.contents])

AfterApprove(m, ledger, p, id, resolution) ==
  [m EXCEPT !.disk = [state |-> "ledger", profiles |-> ledger],
            !.revoked = @ \ {p},
            !.grants = Put(@, p, [id |-> id, resolution |-> resolution])]

BlockedOnlyIfKnown(m, scope) ==
  [p \in DOMAIN Receipts(m) \cup scope |->
     IF p \notin scope THEN Receipts(m)[p]
     ELSE IF p \in DOMAIN Receipts(m) THEN [Receipts(m)[p] EXCEPT !.revoked = TRUE]
     ELSE [BlockReceipt EXCEPT !.revoked = FALSE]]

(* revoke, and block_profiles, which adds a receipt where there is none. *)
BlockedLedger(m, scope) ==
  [p \in DOMAIN Receipts(m) \cup scope |->
     IF p \notin scope THEN Receipts(m)[p]
     ELSE IF p \in DOMAIN Receipts(m) THEN [Receipts(m)[p] EXCEPT !.revoked = TRUE]
     ELSE BlockReceipt]

AfterRevoke(m, ledger, scope) ==
  [m EXCEPT !.disk = [state |-> "ledger", profiles |-> ledger],
            !.grants = Without(@, scope),
            !.revoked = @ \cup scope]

AfterBlock(m, ledger, scope) ==
  [AfterRevoke(m, ledger, scope) EXCEPT
     !.pending = Without(@, {id \in DOMAIN @ : @[id].profile \in scope})]

-----------------------------------------------------------------------------
(* save: the comparison under the lock.  A save that has just made the      *)
(* directory takes the ledger for absent without reading it.                *)
SaveOverAnything(m, disk, created) == created \/ disk.state # "bare"

SaveMatches(m, disk, created) ==
  IF created THEN m.disk = NoDisk ELSE disk.state # "bare" /\ disk = m.disk
=============================================================================
