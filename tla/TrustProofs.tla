---------------------------- MODULE TrustProofs -----------------------------
(***************************************************************************)
(* Proofs about Trust, for any sets of daemons, requests and reviews, any  *)
(* finite set of profiles, any bounds and any limit:                       *)
(*   TrustTypesHold           Spec => []TypeOK                             *)
(*   StoresAlwaysAgree        Spec => []StoreAgrees                        *)
(*   PublicationIsUnderTrust  Spec => PublishedUnderLiveTrust              *)
(*   RemovalStopsPublication  Spec => NoPublicationWithoutLedger           *)
(*   SavesFit                 Spec => []LedgerFits                         *)
(*   LedgerImplements         Spec => LedgerIsAtomic                       *)
(*   DecisionsKept            Spec => []DecisionsSurvive                   *)
(*   SessionsAsReviewed       Spec => []AttachedAsReviewed                 *)
(*   UnreviewedRunsFiles      Spec => UnreviewedIsCurrent                  *)
(* The inductive invariant Inv adds to the first two what a request knows  *)
(* at each pc, that one request at a time is inside a daemon's mutex, and  *)
(* that the ledger a save is about to write was made from the store as it  *)
(* still is, and is within the limit.  LedgerInv adds to Inv what every    *)
(* copy of a receipt and of a review says (ShownInv), that a review is     *)
(* spent once (SpendInv), and where a save has got to (SaveInv).           *)
(***************************************************************************)
EXTENDS Trust, FiniteSetTheorems, TLAPS

-----------------------------------------------------------------------------
(* Partial maps. *)

(* A partial map is a function on a subset of D, with values in R. *)
LEMMA PartialMap ==
  ASSUME NEW D, NEW R, NEW f
  PROVE  f \in Partial(D, R) <=> /\ DOMAIN f \subseteq D
                                 /\ f = [x \in DOMAIN f |-> f[x]]
                                 /\ \A x \in DOMAIN f : f[x] \in R
  BY DEF Partial

(* Put and Without return partial maps. *)
LEMMA PutPartial ==
  ASSUME NEW D, NEW R, NEW f \in Partial(D, R), NEW x \in D, NEW y \in R
  PROVE  Put(f, x, y) \in Partial(D, R)
<1> DEFINE g == Put(f, x, y)
<1>1. DOMAIN f \subseteq D /\ \A z \in DOMAIN f : f[z] \in R
  BY PartialMap
<1>2. /\ DOMAIN g = DOMAIN f \cup {x} /\ g = [z \in DOMAIN g |-> g[z]]
      /\ g[x] = y /\ \A z \in DOMAIN f \ {x} : g[z] = f[z]
  BY DEF Put
<1>3. \A z \in DOMAIN g : g[z] \in R
  BY <1>1, <1>2
<1>4. DOMAIN g \subseteq D
  BY <1>1, <1>2
<1> HIDE DEF g
<1>5. g \in Partial(D, R)
  BY <1>2, <1>3, <1>4, PartialMap
<1> QED BY <1>5 DEF g

LEMMA WithoutPartial ==
  ASSUME NEW D, NEW R, NEW f \in Partial(D, R), NEW S
  PROVE  Without(f, S) \in Partial(D, R)
<1> DEFINE g == Without(f, S)
<1>1. DOMAIN f \subseteq D /\ \A z \in DOMAIN f : f[z] \in R
  BY PartialMap
<1>2. /\ DOMAIN g = DOMAIN f \ S /\ g = [z \in DOMAIN g |-> g[z]]
      /\ \A z \in DOMAIN f \ S : g[z] = f[z]
  BY DEF Without
<1>3. DOMAIN g \subseteq D /\ \A z \in DOMAIN g : g[z] \in R
  BY <1>1, <1>2
<1> HIDE DEF g
<1>4. g \in Partial(D, R)
  BY <1>2, <1>3, PartialMap
<1> QED BY <1>4 DEF g

LEMMA EmptyPartial ==
  ASSUME NEW D, NEW R
  PROVE  Empty \in Partial(D, R) /\ DOMAIN Empty = {}
<1>1. Empty = [x \in DOMAIN Empty |-> Empty[x]] /\ DOMAIN Empty = {}
  BY DEF Empty
<1> QED BY <1>1, PartialMap

-----------------------------------------------------------------------------
(* The invariant. *)

(* A store agrees with its ledger, and could read it back. *)
Sound(m) == Agrees(m) /\ Decodes(Receipts(m))
StoresSound == \A d \in Daemons : Sound(store[d])

(* What a request knows at its pc, apart from the types. *)
Knows(q) ==
  /\ q.pc # "idle" => q.home \in Daemons
  /\ q.pc \in Opening \cup {"inspected", "discovered", "revoking"} => q.profile \in Profiles
  /\ q.pc \in {"inspected", "discovered"} => q.seen \in Configs
  /\ q.pc \in {"approving", "cancelling"} => q.review \in Reviews
  /\ q.pc \in Editing => q.job = "edit"

(* The ledger a save writes differs from the receipts of its store only in  *)
(* its scope: there an approval puts the receipt its grant will match, and  *)
(* any other decision only revoked ones.                                    *)
Approves(q) ==
  /\ q.profile \in Profiles /\ q.review \in Reviews /\ q.version \in Versions
  /\ q.scope = {q.profile}
  /\ ~q.next[q.profile].revoked
  /\ q.next[q.profile].review = q.review
  /\ q.next[q.profile].print.of[q.profile] = q.version

Prepared(q, receipts) ==
  /\ DOMAIN q.next = DOMAIN receipts \cup q.scope
  /\ \A p \in DOMAIN receipts \ q.scope : q.next[p] = receipts[p]
  /\ Decodes(q.next)
  /\ q.job # "none"
  /\ q.job = "approve" => Approves(q)
  /\ q.job # "approve" => \A p \in q.scope : q.next[p].revoked

Ready(q, receipts) == q.pc \in Saving => Prepared(q, receipts)

Exclusive ==
  \A r, s \in Requests :
    r # s /\ req[r].pc \in Holding /\ req[s].pc \in Holding => req[r].home # req[s].home

RequestsKnow == \A r \in Requests : Knows(req[r]) /\ Ready(req[r], Receipts(Store(r)))

Inv == TypeOK /\ StoresSound /\ Exclusive /\ RequestsKnow

-----------------------------------------------------------------------------
(* The operations on a store keep its type and its agreement with the       *)
(* ledger it loaded.                                                        *)

LEMMA LedgerFacts ==
  ASSUME NEW f \in Ledgers
  PROVE  /\ DOMAIN f \subseteq Profiles
         /\ \A p \in DOMAIN f : f[p] \in ReceiptType
  BY PartialMap DEF Ledgers

LEMMA GrantFacts ==
  ASSUME NEW f \in Grants
  PROVE  \A p \in DOMAIN f : f[p] \in [id : Reviews, resolution : Versions]
<1> DEFINE R == [id : Reviews, resolution : Versions]
<1>1. f \in Partial(Profiles, R)
  BY DEF Grants
<1> HIDE DEF R
<1>2. \A p \in DOMAIN f : f[p] \in R
  BY <1>1, PartialMap
<1> QED BY <1>2 DEF R

LEMMA LiveReceipt ==
  ASSUME NEW q \in ReceiptType, ~q.revoked
  PROVE  q.review \in Reviews /\ q.print \in Configs
  BY DEF ReceiptType, BlockReceipt

LEMMA StoreFacts ==
  ASSUME NEW m \in Stores
  PROVE  /\ m.disk \in Disks /\ Receipts(m) \in Ledgers
         /\ m.grants \in Grants /\ m.revoked \in SUBSET Profiles /\ m.pending \in Pendings
  BY DEF Stores, Receipts, Disks

LEMMA BlockIsReceipt ==
  /\ BlockReceipt \in ReceiptType /\ BlockReceipt.revoked
  /\ [BlockReceipt EXCEPT !.revoked = TRUE] = BlockReceipt
<1>1. BlockReceipt \in ReceiptType /\ BlockReceipt.revoked
  BY DEF BlockReceipt, ReceiptType
<1>2. PICK b \in [review : {None}, revoked : BOOLEAN, print : {None}] : b = BlockReceipt
  BY DEF BlockReceipt
<1>3. b.revoked = TRUE
  BY <1>2 DEF BlockReceipt
<1>4. [b EXCEPT !.revoked = TRUE] = b
  BY <1>3
<1> QED BY <1>1, <1>2, <1>4

LEMMA NewStoreFits == NewStore \in Stores /\ Sound(NewStore)
<1>1. Empty \in Ledgers /\ Empty \in Grants /\ Empty \in Pendings /\ DOMAIN Empty = {}
  BY EmptyPartial DEF Ledgers, Grants, Pendings
<1>2. NewStore \in Stores
  BY <1>1 DEF NewStore, NoDisk, Stores, Disks
<1>3. Sound(NewStore)
  BY <1>1, FS_EmptySet, LimitIsPositive DEF NewStore, NoDisk, Sound, Agrees, Decodes, Receipts
<1> QED BY <1>2, <1>3

(* A sync that succeeds leaves a store that holds the ledger on disk. *)
LEMMA SyncFits ==
  ASSUME NEW m \in Stores, Sound(m), NEW dk \in Disks, NEW c \in Configs, SyncOk(m, dk)
  PROVE  /\ Sync(m, dk, c) \in Stores
         /\ Sound(Sync(m, dk, c))
         /\ Sync(m, dk, c).disk = dk
<1>1. CASE dk = m.disk
  BY <1>1 DEF Sync
<1>2. CASE dk # m.disk
  <2> DEFINE granted == Restorable(m, dk, c)
             g == [p \in granted |->
                     IF SameReceipt(m, dk, p) THEN m.grants[p]
                     ELSE [id |-> dk.profiles[p].review, resolution |-> c.of[p]]]
             S == Sync(m, dk, c)
  <2>1. /\ dk.profiles \in Ledgers
        /\ DOMAIN dk.profiles \subseteq Profiles
        /\ \A p \in DOMAIN dk.profiles : dk.profiles[p] \in ReceiptType
    BY LedgerFacts DEF Disks
  <2>2. granted \subseteq DOMAIN dk.profiles
    BY DEF Restorable
  <2>3. S = [m EXCEPT !.disk = dk, !.grants = g, !.revoked = DOMAIN dk.profiles \ granted]
    BY <1>2 DEF Sync
  <2>4. ASSUME NEW p \in granted
        PROVE  /\ g[p] \in [id : Reviews, resolution : Versions]
               /\ ~dk.profiles[p].revoked
               /\ g[p].id = dk.profiles[p].review
               /\ g[p].resolution = dk.profiles[p].print.of[p]
    <3>1. dk.profiles[p].review \in Reviews /\ dk.profiles[p].print \in Configs /\ p \in Profiles
          /\ ~dk.profiles[p].revoked
      BY <2>1, <2>2, LiveReceipt DEF Restorable
    <3>2. CASE SameReceipt(m, dk, p)
      <4>1. p \in DOMAIN m.grants /\ g[p] = m.grants[p] /\ Receipts(m)[p] = dk.profiles[p]
        BY <3>2 DEF Restorable, SameReceipt
      <4>2. m.grants[p] \in [id : Reviews, resolution : Versions]
        BY <4>1, StoreFacts, GrantFacts
      <4> QED BY <3>1, <4>1, <4>2 DEF Sound, Agrees
    <3>3. CASE ~SameReceipt(m, dk, p)
      <4>1. dk.profiles[p].print = c
        BY <3>3 DEF Restorable, Restores
      <4>2. c.of[p] \in Versions
        BY <3>1 DEF Configs
      <4>3. g[p] = [id |-> dk.profiles[p].review, resolution |-> c.of[p]]
        BY <3>3
      <4> QED BY <3>1, <4>1, <4>2, <4>3
    <3> QED BY <3>2, <3>3
  <2>5. g = [p \in DOMAIN g |-> g[p]] /\ DOMAIN g = granted
    OBVIOUS
  <2> HIDE DEF g, granted
  <2>6. g \in Grants
    <3> DEFINE R == [id : Reviews, resolution : Versions]
    <3>1. \A p \in DOMAIN g : g[p] \in R
      BY <2>4, <2>5
    <3> HIDE DEF R
    <3>2. g \in Partial(Profiles, R)
      BY <2>1, <2>2, <2>5, <3>1, PartialMap
    <3> QED BY <3>2 DEF R, Grants
  <2>7. /\ S.disk = dk /\ S.grants = g /\ S.revoked = DOMAIN dk.profiles \ granted
        /\ S \in Stores
    BY <2>1, <2>3, <2>6 DEF Stores
  <2> HIDE DEF S
  <2>8. Sound(S)
    BY <1>2, <2>2, <2>4, <2>5, <2>7 DEF Sound, Agrees, Receipts, SyncOk
  <2> QED BY <2>7, <2>8 DEF S
<1> QED BY <1>1, <1>2

(* The pending reviews have no part in the agreement. *)
LEMMA PendingOnly ==
  ASSUME NEW m \in Stores, Sound(m), NEW f \in Pendings
  PROVE  /\ [m EXCEPT !.pending = f] \in Stores
         /\ Sound([m EXCEPT !.pending = f])
         /\ [m EXCEPT !.pending = f].disk = m.disk
  BY DEF Stores, Sound, Agrees, Receipts

LEMMA PendingFacts ==
  ASSUME NEW f \in Pendings
  PROVE  /\ DOMAIN f \subseteq Reviews
         /\ \A id \in DOMAIN f : f[id] \in [profile : Profiles, contents : Configs, expired : BOOLEAN]
<1> DEFINE R == [profile : Profiles, contents : Configs, expired : BOOLEAN]
<1>1. f \in Partial(Reviews, R)
  BY DEF Pendings
<1> HIDE DEF R
<1>2. DOMAIN f \subseteq Reviews /\ \A p \in DOMAIN f : f[p] \in R
  BY <1>1, PartialMap
<1> QED BY <1>2 DEF R

LEMMA StageFits ==
  ASSUME NEW m \in Stores, Sound(m), NEW id \in Reviews, NEW p \in Profiles, NEW c \in Configs
  PROVE  /\ Stage(m, id, p, c) \in Stores /\ Sound(Stage(m, id, p, c))
         /\ Stage(m, id, p, c).disk = m.disk
<1> DEFINE R == [profile : Profiles, contents : Configs, expired : BOOLEAN]
           kept == Fresh(m.pending)
           new == [profile |-> p, contents |-> c, expired |-> FALSE]
<1>1. new \in R /\ m.pending \in Partial(Reviews, R)
  BY DEF Stores, Pendings
<1> HIDE DEF R, new
<1>2. kept \in Partial(Reviews, R)
  BY <1>1, WithoutPartial DEF Fresh
<1> HIDE DEF kept
<1>3. Put(kept, id, new) \in Partial(Reviews, R)
  BY <1>1, <1>2, PutPartial
<1>4. kept \in Pendings /\ Put(kept, id, new) \in Pendings
  BY <1>2, <1>3 DEF R, Pendings
<1>5. \/ Stage(m, id, p, c) = [m EXCEPT !.pending = kept]
      \/ Stage(m, id, p, c) = [m EXCEPT !.pending = Put(kept, id, new)]
  BY DEF Stage, kept, new
<1>6. CASE Stage(m, id, p, c) = [m EXCEPT !.pending = kept]
  BY <1>4, <1>6, PendingOnly
<1>7. CASE Stage(m, id, p, c) = [m EXCEPT !.pending = Put(kept, id, new)]
  BY <1>4, <1>7, PendingOnly
<1> QED BY <1>5, <1>6, <1>7

LEMMA CancelFits ==
  ASSUME NEW m \in Stores, Sound(m), NEW id
  PROVE  /\ Cancel(m, id) \in Stores /\ Sound(Cancel(m, id))
         /\ Cancel(m, id).disk = m.disk
<1> DEFINE f == Without(m.pending, {id})
<1>1. f \in Pendings
  <2> DEFINE R == [profile : Profiles, contents : Configs, expired : BOOLEAN]
  <2>1. m.pending \in Partial(Reviews, R)
    BY DEF Stores, Pendings
  <2> HIDE DEF R
  <2>2. f \in Partial(Reviews, R)
    BY <2>1, WithoutPartial
  <2> QED BY <2>2 DEF R, Pendings
<1>2. Cancel(m, id) = [m EXCEPT !.pending = f]
  BY DEF Cancel
<1> HIDE DEF f
<1> QED BY <1>1, <1>2, PendingOnly

LEMMA ExpireFits ==
  ASSUME NEW m \in Stores, Sound(m), NEW id \in DOMAIN m.pending
  PROVE  /\ Expire(m, id) \in Stores /\ Sound(Expire(m, id))
         /\ Expire(m, id).disk = m.disk
<1> DEFINE R == [profile : Profiles, contents : Configs, expired : BOOLEAN]
           old == m.pending
           f == [old EXCEPT ![id] = [old[id] EXCEPT !.expired = TRUE]]
<1>1. old \in Partial(Reviews, R)
  BY DEF Stores, Pendings
<1>2. DOMAIN old \subseteq Reviews /\ \A x \in DOMAIN old : old[x] \in R
  <2> HIDE DEF old, R
  <2> QED BY <1>1, PartialMap
<1>3. [old[id] EXCEPT !.expired = TRUE] \in R
  BY <1>2
<1>4. f = [x \in DOMAIN f |-> f[x]] /\ DOMAIN f = DOMAIN old
      /\ \A x \in DOMAIN f : f[x] = IF x = id THEN [old[id] EXCEPT !.expired = TRUE] ELSE old[x]
  OBVIOUS
<1>5. Expire(m, id) = [m EXCEPT !.pending = f]
  BY StoreFacts DEF Expire, Stores
<1> HIDE DEF f, R, old
<1>6. \A x \in DOMAIN f : f[x] \in R
  BY <1>2, <1>3, <1>4
<1>7. f \in Partial(Reviews, R)
  BY <1>2, <1>4, <1>6, PartialMap
<1>8. f \in Pendings
  BY <1>7 DEF R, Pendings
<1> QED BY <1>5, <1>8, PendingOnly

-----------------------------------------------------------------------------
(* What a decision prepares, and what it leaves behind when it is saved.    *)

LEMMA LedgerOf ==
  ASSUME NEW f, DOMAIN f \subseteq Profiles, f = [p \in DOMAIN f |-> f[p]],
         \A p \in DOMAIN f : f[p] \in ReceiptType
  PROVE  f \in Ledgers
  BY PartialMap DEF Ledgers

(* The receipts L differ from those of m inside S only. *)
Differs(L, m, S) ==
  /\ DOMAIN L = DOMAIN Receipts(m) \cup S
  /\ \A p \in DOMAIN Receipts(m) \ S : L[p] = Receipts(m)[p]

LEMMA ApprovedLedgerFits ==
  ASSUME NEW m \in Stores, NEW id \in DOMAIN m.pending, NEW p, p = m.pending[id].profile,
         NEW v, v = m.pending[id].contents.of[p], NEW L, L = ApprovedLedger(m, id)
  PROVE  /\ p \in Profiles /\ id \in Reviews /\ v \in Versions
         /\ L \in Ledgers /\ Differs(L, m, {p})
         /\ ~L[p].revoked /\ L[p].review = id /\ L[p].print.of[p] = v
<1> DEFINE new == [review |-> id, revoked |-> FALSE, print |-> m.pending[id].contents]
<1>1. /\ m.pending[id] \in [profile : Profiles, contents : Configs, expired : BOOLEAN]
      /\ id \in Reviews
  BY PendingFacts, StoreFacts
<1>2. new \in ReceiptType
  BY <1>1 DEF ReceiptType
<1>3. p \in Profiles /\ m.pending[id].contents.of[p] \in Versions
  BY <1>1 DEF Configs
<1>4. ApprovedLedger(m, id) = Put(Receipts(m), p, new)
  BY DEF ApprovedLedger
<1>5. Receipts(m) \in Partial(Profiles, ReceiptType)
  BY StoreFacts DEF Ledgers
<1> HIDE DEF new
<1>6. Put(Receipts(m), p, new) \in Partial(Profiles, ReceiptType)
  BY <1>2, <1>3, <1>5, PutPartial
<1>9. /\ DOMAIN Put(Receipts(m), p, new) = DOMAIN Receipts(m) \cup {p}
      /\ Put(Receipts(m), p, new)[p] = new
      /\ \A z \in DOMAIN Receipts(m) \ {p} : Put(Receipts(m), p, new)[z] = Receipts(m)[z]
  BY DEF Put
<1>7. ApprovedLedger(m, id) \in Ledgers
  BY <1>4, <1>6 DEF Ledgers
<1>8. ~L[p].revoked /\ L[p].review = id /\ L[p].print.of[p] = v
  BY <1>4, <1>9 DEF new
<1>10. Differs(L, m, {p})
  BY <1>4, <1>9 DEF Differs
<1> QED BY <1>1, <1>3, <1>7, <1>8, <1>10

LEMMA BlockedLedgerFits ==
  ASSUME NEW m \in Stores, NEW S \in SUBSET Profiles, NEW K, K = BlockedLedger(m, S)
  PROVE  /\ K \in Ledgers /\ Differs(K, m, S)
         /\ \A p \in S : K[p].revoked
<1> DEFINE L == BlockedLedger(m, S)
<1>1. DOMAIN Receipts(m) \subseteq Profiles /\ \A p \in DOMAIN Receipts(m) : Receipts(m)[p] \in ReceiptType
  BY StoreFacts, LedgerFacts
<1>2. L = [p \in DOMAIN L |-> L[p]] /\ DOMAIN L = DOMAIN Receipts(m) \cup S
  BY DEF BlockedLedger
<1>3. \A p \in DOMAIN L : L[p] = IF p \notin S THEN Receipts(m)[p]
        ELSE IF p \in DOMAIN Receipts(m) THEN [Receipts(m)[p] EXCEPT !.revoked = TRUE]
        ELSE BlockReceipt
  BY DEF BlockedLedger
<1> HIDE DEF L
<1>4. ASSUME NEW p \in DOMAIN L PROVE L[p] \in ReceiptType /\ (p \in S => L[p].revoked)
  <2>1. CASE p \notin S
    BY <1>1, <1>2, <1>3, <2>1
  <2>2. CASE p \in S /\ p \in DOMAIN Receipts(m)
    <3> PICK old : old = Receipts(m)[p]
      OBVIOUS
    <3>1. L[p] = [old EXCEPT !.revoked = TRUE] /\ old \in ReceiptType
      BY <1>1, <1>3, <2>2
    <3>2. CASE old = BlockReceipt
      <4>1. L[p] = BlockReceipt
        BY <3>1, <3>2, BlockIsReceipt
      <4> QED BY <4>1, BlockIsReceipt
    <3>3. CASE old \in [review : Reviews, revoked : BOOLEAN, print : Configs]
      BY <3>1, <3>3 DEF ReceiptType
    <3> QED BY <2>2, <3>1, <3>2, <3>3 DEF ReceiptType
  <2>3. CASE p \in S /\ p \notin DOMAIN Receipts(m)
    <3>1. L[p] = BlockReceipt
      BY <1>3, <2>3
    <3> QED BY <3>1, BlockIsReceipt
  <2> QED BY <2>1, <2>2, <2>3
<1>5. L \in Ledgers
  BY <1>1, <1>2, <1>4, LedgerOf
<1>6. Differs(L, m, S) /\ \A p \in S : L[p].revoked
  BY <1>2, <1>3, <1>4 DEF Differs
<1> QED BY <1>5, <1>6 DEF L

LEMMA ApprovalFits ==
  ASSUME NEW m \in Stores, Sound(m), NEW q \in RequestType, Prepared(q, Receipts(m)),
         Approves(q),
         NEW n, n = AfterApprove(m, q.next, q.profile, q.review, q.version)
  PROVE  n \in Stores /\ Sound(n)
<1> PICK p : p = q.profile
  OBVIOUS
<1> DEFINE R == [id : Reviews, resolution : Versions]
           grant == [id |-> q.review, resolution |-> q.version]
           old == m.grants
           g == Put(old, p, grant)
<1>1. p \in Profiles /\ grant \in R /\ old \in Partial(Profiles, R)
  BY DEF Approves, Stores, Grants
<1>2. n = [m EXCEPT !.disk = [state |-> "ledger", profiles |-> q.next],
                    !.revoked = @ \ {p}, !.grants = g]
  BY DEF AfterApprove
<1> HIDE DEF R
<1>3. g \in Partial(Profiles, R)
  <2> HIDE DEF grant, old
  <2> QED BY <1>1, PutPartial
<1>9. DOMAIN g = DOMAIN old \cup {p} /\ g[p] = grant /\ \A z \in DOMAIN old \ {p} : g[z] = old[z]
  BY DEF Put
<1> HIDE DEF g
<1>4. g \in Grants
  BY <1>3 DEF R, Grants
<1>5. [state |-> "ledger", profiles |-> q.next] \in Disks
  BY DEF Disks, RequestType
<1>6. /\ n \in Stores /\ Receipts(n) = q.next /\ n.grants = g /\ n.revoked = m.revoked \ {p}
  <2> DEFINE dk == [state |-> "ledger", profiles |-> q.next]
  <2>1. dk \in Disks /\ dk.profiles = q.next
    BY <1>5
  <2>2. n = [m EXCEPT !.disk = dk, !.revoked = m.revoked \ {p}, !.grants = g]
    BY <1>2
  <2> HIDE DEF dk
  <2>3. n \in Stores /\ n.disk = dk /\ n.grants = g /\ n.revoked = m.revoked \ {p}
    BY <1>4, <2>1, <2>2 DEF Stores
  <2> QED BY <2>1, <2>3 DEF Receipts
<1>7. /\ DOMAIN q.next = DOMAIN Receipts(m) \cup {p}
      /\ \A z \in DOMAIN Receipts(m) \ {p} : q.next[z] = Receipts(m)[z]
      /\ ~q.next[p].revoked /\ q.next[p].review = q.review /\ q.next[p].print.of[p] = q.version
      /\ Decodes(q.next)
  BY DEF Prepared, Approves
<1>8. Sound(n)
  BY <1>6, <1>7, <1>9 DEF Sound, Agrees
<1> QED BY <1>6, <1>8

LEMMA BlockFits ==
  ASSUME NEW m \in Stores, Sound(m), NEW q \in RequestType, Prepared(q, Receipts(m)),
         q.job # "approve", NEW n,
         n = AfterRevoke(m, q.next, q.scope) \/ n = AfterBlock(m, q.next, q.scope)
  PROVE  n \in Stores /\ Sound(n)
<1> PICK S \in SUBSET Profiles : S = q.scope
  BY DEF RequestType
<1> DEFINE g == Without(m.grants, S)
           o == [m EXCEPT !.disk = [state |-> "ledger", profiles |-> q.next],
                          !.grants = g, !.revoked = @ \cup S]
           f == Without(o.pending, {id \in DOMAIN o.pending : o.pending[id].profile \in S})
<1>1. n = o \/ n = [o EXCEPT !.pending = f]
  BY DEF AfterRevoke, AfterBlock
<1>2. g \in Grants /\ DOMAIN g = DOMAIN m.grants \ S
      /\ \A z \in DOMAIN m.grants \ S : g[z] = m.grants[z]
  <2> DEFINE R == [id : Reviews, resolution : Versions]
             old == m.grants
  <2>1. old \in Partial(Profiles, R)
    BY DEF Stores, Grants
  <2> HIDE DEF R, old
  <2>2. Without(old, S) \in Partial(Profiles, R)
    BY <2>1, WithoutPartial
  <2>3. g \in Grants
    BY <2>2 DEF R, old, Grants
  <2> QED BY <2>3 DEF Without
<1> HIDE DEF g
<1>3. [state |-> "ledger", profiles |-> q.next] \in Disks
  BY DEF Disks, RequestType
<1>4. /\ o \in Stores /\ Receipts(o) = q.next /\ o.grants = g /\ o.revoked = m.revoked \cup S
      /\ o.pending = m.pending
  BY <1>2, <1>3 DEF Stores, Receipts
<1>5. /\ DOMAIN q.next = DOMAIN Receipts(m) \cup S
      /\ \A z \in DOMAIN Receipts(m) \ S : q.next[z] = Receipts(m)[z]
      /\ \A z \in S : q.next[z].revoked
      /\ Decodes(q.next)
  BY DEF Prepared
<1> HIDE DEF o
<1>6. Sound(o)
  BY <1>2, <1>4, <1>5 DEF Sound, Agrees
<1>7. f \in Pendings
  <2> DEFINE R == [profile : Profiles, contents : Configs, expired : BOOLEAN]
  <2>1. o.pending \in Partial(Reviews, R)
    BY <1>4 DEF Stores, Pendings
  <2> HIDE DEF R
  <2>2. f \in Partial(Reviews, R)
    BY <2>1, WithoutPartial
  <2> QED BY <2>2 DEF R, Pendings
<1> HIDE DEF f
<1> QED BY <1>1, <1>4, <1>6, <1>7, PendingOnly

-----------------------------------------------------------------------------
(* A step of one request. *)

Rest ==
  /\ disk \in Disks /\ durable \in Disks
  /\ config \in Configs
  /\ issued \subseteq Reviews
  /\ reviewed \in Partial(Reviews, [profile : Profiles, contents : Configs])
  /\ spent \subseteq Reviews /\ dead \subseteq Reviews
  /\ owed \in Ledgers
  /\ used \in [starts : Nat, edits : Nat, crashes : Nat, removals : Nat]

LEMMA RestOfTypes ==
  TypeOK <=> Rest /\ store \in [Daemons -> Stores] /\ req \in [Requests -> RequestType]
  BY DEF TypeOK, Rest

LEMMA RestStays ==
  ASSUME Rest, UNCHANGED <<files, issued, history, used>>
  PROVE  Rest'
  BY DEF Rest, files, history

(* No other request is inside the mutex of daemon d. *)
Alone(r, d) == \A s \in Requests \ {r} : req[s].home = d => req[s].pc \notin Holding

(* Request r becomes q and the store of daemon d becomes m. *)
Fits(r, q, d, m) ==
  /\ q \in RequestType /\ Knows(q)
  /\ q.pc # "idle" => q.home = d
  /\ m \in Stores /\ Sound(m)
  /\ Ready(q, Receipts(m))
  /\ q.pc \in Holding \/ m.disk # store[d].disk => Alone(r, d)

LEMMA StepFits ==
  ASSUME Inv, NEW r \in Requests, NEW q, NEW d \in Daemons, NEW m, Fits(r, q, d, m),
         req' = [req EXCEPT ![r] = q], store' = [store EXCEPT ![d] = m], Rest'
  PROVE  Inv'
<1>1. /\ store \in [Daemons -> Stores] /\ req \in [Requests -> RequestType]
      /\ q \in RequestType /\ m \in Stores
  BY RestOfTypes DEF Inv, Fits
<1>2. store' \in [Daemons -> Stores] /\ req' \in [Requests -> RequestType]
  BY <1>1
<1>3. req'[r] = q /\ \A s \in Requests \ {r} : req'[s] = req[s]
  BY <1>1
<1>4. store'[d] = m /\ \A e \in Daemons \ {d} : store'[e] = store[e]
  BY <1>1
<1>5. TypeOK'
  BY <1>2, RestOfTypes DEF TypeOK, Rest
<1>6. StoresSound'
  <2> SUFFICES ASSUME NEW e \in Daemons PROVE Sound(store'[e])
    BY DEF StoresSound, Sound, Agrees, Receipts
  <2>1. Sound(m) /\ Sound(store[e])
    BY DEF Inv, StoresSound, Fits
  <2> QED BY <1>4, <2>1
<1>7. Exclusive'
  <2> SUFFICES ASSUME NEW s \in Requests, NEW t \in Requests, s # t,
                      req'[s].pc \in Holding, req'[t].pc \in Holding,
                      req'[s].home = req'[t].home
               PROVE  FALSE
    BY DEF Exclusive
  <2>1. s = r \/ t = r
    BY <1>3 DEF Inv, Exclusive
  <2>2. q.pc \in Holding
    BY <1>3, <2>1
  <2>3. q.home = d /\ Alone(r, d)
    BY <2>2 DEF Fits, Holding, Saving, Editing
  <2> QED BY <1>3, <2>1, <2>3 DEF Alone
<1>8. RequestsKnow'
  <2> SUFFICES ASSUME NEW s \in Requests
               PROVE  Knows(req'[s]) /\ Ready(req'[s], store'[req'[s].home].disk.profiles)
    BY DEF RequestsKnow, Store, Receipts
  <2>1. CASE s = r
    <3>1. req'[s] = q /\ Knows(q) /\ Ready(q, m.disk.profiles)
      BY <1>3, <2>1 DEF Fits, Receipts
    <3>2. CASE q.pc = "idle"
      BY <3>1, <3>2 DEF Ready, Saving
    <3>3. CASE q.pc # "idle"
      <4>1. store'[q.home] = m
        BY <1>4, <3>3 DEF Fits
      <4> QED BY <3>1, <4>1
    <3> QED BY <3>2, <3>3
  <2>2. CASE s # r
    <3>1. req'[s] = req[s]
      BY <1>3, <2>2
    <3>2. Knows(req[s]) /\ Ready(req[s], store[req[s].home].disk.profiles)
      BY DEF Inv, RequestsKnow, Store, Receipts
    <3>3. req[s].pc \in Saving => req[s].home \in Daemons
      BY <3>2 DEF Knows, Saving
    <3>4. req[s].pc \in Saving => store'[req[s].home].disk = store[req[s].home].disk
      <4> SUFFICES ASSUME req[s].pc \in Saving
                   PROVE  store'[req[s].home].disk = store[req[s].home].disk
        OBVIOUS
      <4>1. CASE req[s].home = d
        <5>1. m.disk = store[d].disk
          BY <2>2, <4>1 DEF Fits, Alone, Holding
        <5> QED BY <1>4, <4>1, <5>1
      <4>2. CASE req[s].home # d
        BY <1>4, <3>3, <4>2
      <4> QED BY <4>1, <4>2
    <3> QED BY <3>1, <3>2, <3>4 DEF Ready
  <2> QED BY <2>1, <2>2
<1> QED BY <1>5, <1>6, <1>7, <1>8 DEF Inv

LEMMA RequestFacts ==
  ASSUME Inv, NEW r \in Requests
  PROVE  /\ Rest /\ req[r] \in RequestType
         /\ Knows(req[r]) /\ Ready(req[r], Receipts(Store(r)))
         /\ req[r].pc # "idle" =>
              /\ req[r].home \in Daemons
              /\ Store(r) \in Stores /\ Sound(Store(r))
         /\ req[r].pc \in Holding \/ MutexFree(req[r].home) => Alone(r, req[r].home)
<1>1. /\ Rest /\ store \in [Daemons -> Stores] /\ req \in [Requests -> RequestType]
  BY RestOfTypes DEF Inv
<1>2. Knows(req[r]) /\ Ready(req[r], Receipts(Store(r)))
  BY DEF Inv, RequestsKnow
<1>3. req[r].pc # "idle" => /\ req[r].home \in Daemons
                            /\ Store(r) \in Stores /\ Sound(Store(r))
  BY <1>1, <1>2 DEF Knows, Store, Inv, StoresSound
<1>4. req[r].pc \in Holding \/ MutexFree(req[r].home) => Alone(r, req[r].home)
  BY DEF Inv, Exclusive, MutexFree, Alone
<1> QED BY <1>1, <1>2, <1>3, <1>4

LEMMA DaemonFacts ==
  ASSUME Inv, NEW d \in Daemons
  PROVE  store[d] \in Stores /\ Sound(store[d])
  BY RestOfTypes DEF Inv, StoresSound

LEMMA IdleFits ==
  ASSUME NEW r, NEW d, NEW m \in Stores, Sound(m), m.disk # store[d].disk => Alone(r, d)
  PROVE  Fits(r, Idle, d, m)
<1>1. Empty \in Ledgers
  BY EmptyPartial DEF Ledgers
<1>2. Idle \in RequestType /\ Idle.pc = "idle"
  BY <1>1 DEF Idle, RequestType
<1>3. Knows(Idle) /\ Ready(Idle, Receipts(m)) /\ Idle.pc \notin Holding
  BY <1>2 DEF Knows, Ready, Opening, Editing, Saving, Holding
<1> QED BY <1>2, <1>3 DEF Fits

(* The request ends: its own work is dropped, the store may have changed.   *)
LEMMA EndFits ==
  ASSUME Inv, NEW r \in Requests, NEW d \in Daemons, NEW m \in Stores, Sound(m),
         m.disk # store[d].disk => Alone(r, d),
         Ends(r), store' = [store EXCEPT ![d] = m], Rest'
  PROVE  Inv'
  BY IdleFits, StepFits DEF Ends

LEMMA EndStaysFit ==
  ASSUME Inv, NEW r \in Requests, req[r].pc # "idle", Ends(r), UNCHANGED store, Rest'
  PROVE  Inv'
<1> PICK d \in Daemons : d = req[r].home
  BY RequestFacts
<1>1. store' = [store EXCEPT ![d] = store[d]]
  BY RestOfTypes DEF Inv
<1> QED BY <1>1, DaemonFacts, EndFits

(* The request becomes q, inside the mutex if q holds it. *)
LEMMA MoveFits ==
  ASSUME Inv, NEW r \in Requests, req[r].pc # "idle", NEW q \in RequestType, Knows(q),
         q.home = req[r].home, Ready(q, Receipts(Store(r))),
         q.pc \in Holding => req[r].pc \in Holding \/ MutexFree(req[r].home),
         req' = [req EXCEPT ![r] = q], UNCHANGED store, Rest'
  PROVE  Inv'
<1> PICK d \in Daemons : d = req[r].home
  BY RequestFacts
<1>1. store' = [store EXCEPT ![d] = store[d]]
  BY RestOfTypes DEF Inv
<1>2. Fits(r, q, d, store[d])
  BY RequestFacts, DaemonFacts DEF Fits, Store
<1> QED BY <1>1, <1>2, StepFits

(* Only the pc changes. *)
At(r, pc) == [req[r] EXCEPT !.pc = pc]

LEMMA AtFits ==
  ASSUME Inv, NEW r \in Requests, req[r].pc # "idle",
         NEW pc \in Opening \cup Deciding \cup Editing \cup Saving,
         pc \in Opening => req[r].pc \in Opening,
         pc = "discovered" => req[r].pc = "inspected",
         pc \notin {"inspected", "approving", "cancelling", "revoking"},
         pc \in Editing => req[r].job = "edit",
         pc \in Saving => req[r].pc \in Saving
  PROVE  /\ At(r, pc) \in RequestType /\ Knows(At(r, pc)) /\ At(r, pc).home = req[r].home
         /\ At(r, pc).pc = pc
         /\ \A receipts : Ready(req[r], receipts) => Ready(At(r, pc), receipts)
<1> PICK q \in RequestType : q = req[r]
  BY RequestFacts
<1> PICK n : n = At(r, pc)
  OBVIOUS
<1>1. /\ n \in RequestType /\ n.pc = pc /\ n.home = q.home /\ n.profile = q.profile
      /\ n.review = q.review /\ n.version = q.version /\ n.seen = q.seen /\ n.job = q.job
      /\ n.scope = q.scope /\ n.next = q.next
  BY DEF At, RequestType
<1>2. Knows(q) /\ q.pc # "idle"
  BY RequestFacts
<1>3. Knows(n)
  BY <1>1, <1>2 DEF Knows, Opening, Editing, Saving, Deciding
<1>4. \A receipts : Ready(q, receipts) => Ready(n, receipts)
  BY <1>1 DEF Ready, Prepared, Approves
<1> QED BY <1>1, <1>3, <1>4

LEMMA GoFits ==
  ASSUME Inv, NEW r \in Requests, req[r].pc # "idle",
         NEW pc \in Opening \cup Deciding \cup Editing \cup Saving,
         pc \in Opening => req[r].pc \in Opening,
         pc = "discovered" => req[r].pc = "inspected",
         pc \notin {"inspected", "approving", "cancelling", "revoking"},
         pc \in Editing => req[r].job = "edit",
         pc \in Saving => req[r].pc \in Saving,
         pc \in Holding => req[r].pc \in Holding \/ MutexFree(req[r].home),
         Goes(r, pc), NEW d, d = req[r].home, NEW m \in Stores, Sound(m),
         m.disk # store[d].disk => Alone(r, d),
         pc \in Saving => m.disk = store[d].disk,
         store' = [store EXCEPT ![d] = m], Rest'
  PROVE  Inv'
<1> PICK q : q = At(r, pc)
  OBVIOUS
<1>1. /\ q \in RequestType /\ Knows(q) /\ q.home = d /\ q.pc = pc
      /\ \A receipts : Ready(req[r], receipts) => Ready(q, receipts)
  BY AtFits
<1>2. d \in Daemons /\ Ready(req[r], Receipts(store[d]))
  BY RequestFacts DEF Store
<1>3. Ready(q, Receipts(m))
  BY <1>1, <1>2 DEF Ready, Receipts
<1>4. pc \in Holding => Alone(r, d)
  BY RequestFacts
<1>5. Fits(r, q, d, m)
  BY <1>1, <1>3, <1>4 DEF Fits
<1>6. req' = [req EXCEPT ![r] = q]
  BY DEF Goes, At
<1> QED BY <1>2, <1>5, <1>6, StepFits

LEMMA SyncedFits ==
  ASSUME Inv, NEW d \in Daemons, Syncs(d)
  PROVE  Synced(d) \in Stores /\ Sound(Synced(d)) /\ Synced(d).disk = disk
  BY DaemonFacts, RestOfTypes, SyncFits DEF Inv, Rest, Synced, Syncs

LEMMA StartFits ==
  ASSUME Inv, NEW r \in Requests, NEW d \in Daemons, NEW kind,
         NEW q \in RequestType, Knows(q), q.home = d, q.pc \notin Saving, Starts(r, kind, q),
         NEW m \in Stores, Sound(m), store' = [store EXCEPT ![d] = m],
         q.pc \in Holding \/ m.disk # store[d].disk => MutexFree(d),
         UNCHANGED <<files, issued, history>>
  PROVE  Inv'
<1>1. Rest'
  BY RestOfTypes DEF Inv, Rest, Starts, files, history
<1>2. Fits(r, q, d, m)
  BY DEF Fits, Ready, MutexFree, Alone
<1> QED BY <1>1, <1>2, StepFits DEF Starts

-----------------------------------------------------------------------------
(* open_session. *)

LEMMA LookupFits ==
  ASSUME Inv, NEW r \in Requests, NEW d \in Daemons, NEW p \in Profiles, Lookup(r, d, p)
  PROVE  Inv'
<1> DEFINE granted == p \in DOMAIN Synced(d).grants
           pc == IF granted THEN "loaded" ELSE "looked"
           id == ApprovedId(Synced(d), p)
           version == IF granted THEN Synced(d).grants[p].resolution ELSE None
           q == [Idle EXCEPT !.pc = pc, !.home = d, !.profile = p, !.review = id, !.version = version]
<1>1. MutexFree(d) /\ Starts(r, "open", q) /\ UNCHANGED <<files, issued, history>>
      /\ store' = [store EXCEPT ![d] = Synced(d)]
  BY DEF Lookup, Syncs
<1>2. Synced(d) \in Stores /\ Sound(Synced(d))
  BY SyncedFits DEF Lookup
<1>3. id \in Reviews \cup {None} /\ version \in Versions \cup {None}
  BY <1>2, StoreFacts, GrantFacts DEF ApprovedId
<1>4. pc \in {"looked", "loaded"}
  OBVIOUS
<1> HIDE DEF pc, id, version, granted
<1>5. /\ q \in RequestType /\ q.pc = pc /\ q.home = d /\ q.profile = p
  <2>1. Empty \in Ledgers
    BY EmptyPartial DEF Ledgers
  <2> QED BY <1>3, <1>4, <2>1 DEF RequestType, Idle, Opening
<1> HIDE DEF q
<1>6. Knows(q) /\ q.pc \notin Saving
  BY <1>4, <1>5 DEF Knows, Opening, Editing, Saving
<1> QED BY <1>1, <1>2, <1>5, <1>6, StartFits

LEMMA LoadProfileFits ==
  ASSUME Inv, NEW r \in Requests, LoadProfile(r)
  PROVE  Inv'
<1> PICK v : v = config.of[req[r].profile]
  OBVIOUS
<1> PICK old \in RequestType : old = req[r]
  BY RequestFacts
<1> PICK q : q = [old EXCEPT !.pc = "loaded", !.version = v]
  OBVIOUS
<1>1. old.pc = "looked" /\ Knows(old)
  BY RequestFacts DEF LoadProfile
<1>2. config \in Configs /\ old.profile \in Profiles
  BY <1>1, RequestFacts DEF Rest, Knows, Opening
<1>3. v \in Versions
  BY <1>2 DEF Configs
<1>4. q \in RequestType /\ q.pc = "loaded" /\ q.home = old.home /\ q.profile = old.profile
  BY <1>3 DEF RequestType, Opening
<1>5. Knows(q) /\ Ready(q, Receipts(Store(r)))
  BY <1>1, <1>4 DEF Knows, Ready, Opening, Editing, Saving
<1>6. req' = [req EXCEPT ![r] = q] /\ UNCHANGED store
  BY DEF LoadProfile
<1>7. Rest'
  BY RequestFacts, RestStays DEF LoadProfile
<1>8. old.pc \in Holding
  BY <1>1 DEF Holding
<1> QED BY <1>1, <1>4, <1>5, <1>6, <1>7, <1>8, MoveFits

(* A sync, and then another pc. *)
LEMMA SyncAndGo ==
  ASSUME Inv, NEW r \in Requests, req[r].pc # "idle", Syncs(req[r].home),
         req[r].pc \in Holding \/ MutexFree(req[r].home),
         NEW pc \in Opening \cup {"discovered"}, Goes(r, pc),
         pc \notin Holding,
         pc \in Opening => req[r].pc \in Opening,
         pc = "discovered" => req[r].pc = "inspected",
         Rest'
  PROVE  Inv'
<1> PICK d \in Daemons : d = req[r].home
  BY RequestFacts
<1>1. Synced(d) \in Stores /\ Sound(Synced(d)) /\ Alone(r, d)
      /\ store' = [store EXCEPT ![d] = Synced(d)]
  BY SyncedFits, RequestFacts DEF Syncs
<1>2. /\ pc \in Opening \cup Deciding \cup Editing \cup Saving
      /\ pc \notin {"inspected", "approving", "cancelling", "revoking"}
      /\ pc \notin Editing /\ pc \notin Saving
  BY DEF Opening, Deciding, Editing, Saving
<1> QED BY <1>1, <1>2, GoFits

LEMMA SyncAndEnd ==
  ASSUME Inv, NEW r \in Requests, req[r].pc # "idle", Syncs(req[r].home),
         req[r].pc \in Holding \/ MutexFree(req[r].home), Ends(r), Rest'
  PROVE  Inv'
<1> PICK d \in Daemons : d = req[r].home
  BY RequestFacts
<1>1. Synced(d) \in Stores /\ Sound(Synced(d)) /\ Alone(r, d)
      /\ store' = [store EXCEPT ![d] = Synced(d)]
  BY SyncedFits, RequestFacts DEF Syncs
<1> QED BY <1>1, EndFits

LEMMA SyncAndCheckFits ==
  ASSUME Inv, NEW r \in Requests, req[r].pc \in Opening,
         req[r].pc \in Holding \/ MutexFree(req[r].home),
         NEW pc \in {"captured", "open"}, SyncAndCheck(r, pc), Rest'
  PROVE  Inv'
<1>1. req[r].pc # "idle" /\ pc \in Opening /\ pc \notin Holding
  BY DEF Opening, Holding, Editing, Saving
<1>2. CASE Syncs(req[r].home) /\ Goes(r, pc)
  BY <1>1, <1>2, SyncAndGo
<1>3. CASE Syncs(req[r].home) /\ Ends(r)
  BY <1>1, <1>3, SyncAndEnd
<1>4. CASE Ends(r) /\ UNCHANGED store
  BY <1>1, <1>4, EndStaysFit
<1> QED BY <1>2, <1>3, <1>4 DEF SyncAndCheck

(* The pc moves inside Opening, outside the mutex. *)
LEMMA OpeningGoes ==
  ASSUME Inv, NEW r \in Requests, req[r].pc \in Opening, NEW pc \in {"resynced", "attaching"},
         Goes(r, pc), UNCHANGED store, Rest'
  PROVE  Inv'
<1> PICK d \in Daemons : d = req[r].home
  BY RequestFacts DEF Opening
<1>1. store' = [store EXCEPT ![d] = store[d]]
  BY RestOfTypes DEF Inv
<1>2. /\ req[r].pc # "idle" /\ pc \in Opening /\ pc \notin Editing \cup Saving \cup Holding
      /\ pc \notin Deciding
  BY DEF Opening, Deciding, Editing, Saving, Holding
<1> QED BY <1>1, <1>2, DaemonFacts, GoFits DEF Deciding

LEMMA OpeningFits ==
  ASSUME Inv, NEW r \in Requests,
         Capture(r) \/ Resync(r) \/ BeginAttach(r) \/ Publish(r) \/ GiveUp(r)
  PROVE  Inv'
<1>1. CASE Capture(r)
  <2>1. Rest'
    BY <1>1, RequestFacts, RestStays DEF Capture
  <2> QED BY <1>1, <2>1, SyncAndCheckFits DEF Capture, Opening, Holding
<1>2. CASE Publish(r)
  <2>1. Rest'
    BY <1>2, RequestFacts, RestStays DEF Publish
  <2> QED BY <1>2, <2>1, SyncAndCheckFits DEF Publish, Opening
<1>3. CASE Resync(r)
  <2>1. Rest' /\ req[r].pc = "captured" /\ MutexFree(req[r].home)
    BY <1>3, RequestFacts, RestStays DEF Resync
  <2>2. CASE Syncs(req[r].home) /\ Goes(r, "resynced")
    BY <2>1, <2>2, SyncAndGo DEF Opening, Holding, Editing, Saving
  <2>3. CASE Ends(r) /\ UNCHANGED store
    BY <2>1, <2>3, EndStaysFit
  <2> QED BY <1>3, <2>2, <2>3 DEF Resync
<1>4. CASE BeginAttach(r)
  <2>1. Rest' /\ req[r].pc = "resynced" /\ UNCHANGED store
    BY <1>4, RequestFacts, RestStays DEF BeginAttach
  <2>2. CASE Goes(r, "attaching")
    BY <2>1, <2>2, OpeningGoes DEF Opening
  <2>3. CASE Ends(r)
    BY <2>1, <2>3, EndStaysFit
  <2> QED BY <1>4, <2>2, <2>3 DEF BeginAttach
<1>5. CASE GiveUp(r)
  <2>1. Rest' /\ req[r].pc # "idle"
    BY <1>5, RequestFacts, RestStays DEF GiveUp
  <2> QED BY <1>5, <2>1, EndStaysFit DEF GiveUp
<1> QED BY <1>1, <1>2, <1>3, <1>4, <1>5

-----------------------------------------------------------------------------
(* Discovery and reviews. *)

LEMMA InspectFits ==
  ASSUME Inv, NEW r \in Requests, NEW d \in Daemons, NEW p \in Profiles, Inspect(r, d, p)
  PROVE  Inv'
<1> PICK c : c = config
  OBVIOUS
<1> DEFINE q == [Idle EXCEPT !.pc = "inspected", !.home = d, !.profile = p, !.seen = c]
<1>1. Starts(r, "review", q) /\ UNCHANGED <<files, issued, history>> /\ UNCHANGED store
  BY DEF Inspect
<1>2. c \in Configs
  BY RestOfTypes DEF Inv, Rest
<1>3. q \in RequestType /\ q.pc = "inspected" /\ q.home = d /\ q.profile = p /\ q.seen = c
  <2>1. Empty \in Ledgers
    BY EmptyPartial DEF Ledgers
  <2> QED BY <1>2, <2>1 DEF RequestType, Idle, Deciding
<1> HIDE DEF q
<1>4. Knows(q) /\ q.pc \notin Saving /\ q.pc \notin Holding
  BY <1>2, <1>3 DEF Knows, Opening, Editing, Saving, Holding
<1> PICK m : m = store[d]
  OBVIOUS
<1>5. store' = [store EXCEPT ![d] = m] /\ m.disk = store[d].disk
  BY <1>1, RestOfTypes DEF Inv
<1>6. m \in Stores /\ Sound(m)
  BY DaemonFacts
<1> QED BY <1>1, <1>3, <1>4, <1>5, <1>6, StartFits

LEMMA DiscoverFits ==
  ASSUME Inv, NEW r \in Requests, Discover(r)
  PROVE  Inv'
<1>1. Rest' /\ req[r].pc = "inspected" /\ MutexFree(req[r].home)
  BY RequestFacts, RestStays DEF Discover
<1>2. CASE Syncs(req[r].home) /\ Goes(r, "discovered")
  BY <1>1, <1>2, SyncAndGo DEF Opening, Holding, Editing, Saving
<1>3. CASE Ends(r) /\ UNCHANGED store
  BY <1>1, <1>3, EndStaysFit
<1> QED BY <1>2, <1>3 DEF Discover

LEMMA StageReviewFits ==
  ASSUME Inv, NEW r \in Requests, StageReview(r)
  PROVE  Inv'
<1> PICK q : q = req[r]
  OBVIOUS
<1>1. q.pc = "discovered" /\ q.profile \in Profiles /\ q.seen \in Configs /\ q.home \in Daemons
  BY RequestFacts DEF StageReview, Knows, Opening
<1>2. PICK id \in Reviews \ issued :
        /\ SetStore(r, Stage(Store(r), id, q.profile, q.seen))
        /\ issued' = issued \cup {id}
        /\ reviewed' = Put(reviewed, id, [profile |-> q.profile, contents |-> q.seen])
  BY DEF StageReview
<1> DEFINE m == Stage(Store(r), id, q.profile, q.seen)
           R == [profile : Profiles, contents : Configs]
           y == [profile |-> q.profile, contents |-> q.seen]
<1>3. m \in Stores /\ Sound(m) /\ m.disk = store[q.home].disk
  BY <1>1, RequestFacts, StageFits DEF Store
<1>4. store' = [store EXCEPT ![q.home] = m]
  BY <1>2 DEF SetStore
<1>5. Rest'
  <2>1. Rest /\ y \in R
    BY <1>1, RequestFacts
  <2>2. reviewed \in Partial(Reviews, R)
    BY <2>1 DEF Rest
  <2>3. reviewed' = Put(reviewed, id, y)
    BY <1>2
  <2> HIDE DEF R, y
  <2>4. reviewed' \in Partial(Reviews, R)
    BY <2>1, <2>2, <2>3, PutPartial
  <2> QED BY <1>2, <2>1, <2>4 DEF Rest, StageReview, files, R
<1> HIDE DEF m
<1> QED BY <1>1, <1>3, <1>4, <1>5, EndFits DEF StageReview

LEMMA CancelReviewFits ==
  ASSUME Inv, NEW r \in Requests, CancelReview(r)
  PROVE  Inv'
<1> DEFINE m == Cancel(Store(r), req[r].review)
<1>1. req[r].pc = "cancelling" /\ req[r].home \in Daemons
  BY RequestFacts DEF CancelReview
<1>2. m \in Stores /\ Sound(m) /\ m.disk = store[req[r].home].disk
  BY <1>1, RequestFacts, CancelFits DEF Store
<1>3. store' = [store EXCEPT ![req[r].home] = m] /\ Ends(r)
  BY DEF CancelReview, SetStore
<1>4. Rest'
  BY RequestFacts, RestStays DEF CancelReview
<1> HIDE DEF m
<1> QED BY <1>1, <1>2, <1>3, <1>4, EndFits

-----------------------------------------------------------------------------
(* Decisions. *)

LEMMA DecideFits ==
  ASSUME Inv, NEW r \in Requests, NEW d \in Daemons, NEW kind, NEW q \in RequestType,
         q.home = d, Knows(q), q.pc \notin Saving, Decide(r, kind, q)
  PROVE  Inv'
<1>1. /\ MutexFree(d) /\ Starts(r, kind, q) /\ UNCHANGED <<files, issued, history>>
      /\ store' = [store EXCEPT ![d] = Synced(d)] /\ Syncs(d)
  BY DEF Decide, Syncs
<1> QED BY <1>1, SyncedFits, StartFits

LEMMA DecisionsFit ==
  ASSUME Inv, NEW r \in Requests, NEW d \in Daemons
  PROVE  /\ \A p \in Profiles : DecideRevoke(r, d, p) => Inv'
         /\ \A id \in Reviews : DecideApprove(r, d, id) \/ DecideCancel(r, d, id) => Inv'
<1>1. Empty \in Ledgers
  BY EmptyPartial DEF Ledgers
<1>2. ASSUME NEW p \in Profiles, DecideRevoke(r, d, p) PROVE Inv'
  <2> DEFINE q == [Idle EXCEPT !.pc = "revoking", !.home = d, !.profile = p]
  <2>1. q \in RequestType /\ q.pc = "revoking" /\ q.home = d /\ q.profile = p
    BY <1>1 DEF RequestType, Idle, Deciding
  <2>2. Decide(r, "revoke", q)
    BY <1>2 DEF DecideRevoke
  <2> HIDE DEF q
  <2>3. Knows(q) /\ q.pc \notin Saving
    BY <2>1 DEF Knows, Opening, Editing, Saving
  <2> QED BY <2>1, <2>2, <2>3, DecideFits
<1>3. ASSUME NEW id \in Reviews, NEW pc \in {"approving", "cancelling"}, NEW kind,
             Decide(r, kind, [Idle EXCEPT !.pc = pc, !.home = d, !.review = id])
      PROVE  Inv'
  <2> DEFINE q == [Idle EXCEPT !.pc = pc, !.home = d, !.review = id]
  <2>1. q \in RequestType /\ q.pc = pc /\ q.home = d /\ q.review = id
    BY <1>1 DEF RequestType, Idle, Deciding
  <2>2. Decide(r, kind, q)
    BY <1>3
  <2> HIDE DEF q
  <2>3. Knows(q) /\ q.pc \notin Saving
    BY <2>1 DEF Knows, Opening, Editing, Saving
  <2> QED BY <2>1, <2>2, <2>3, DecideFits
<1> QED BY <1>2, <1>3 DEF DecideApprove, DecideCancel

(* What approve and block_profiles test leaves room for what they decide. *)
LEMMA RoomSuffices ==
  ASSUME NEW m \in Stores, Sound(m), NEW p \in Profiles, RoomFor(m, p)
  PROVE  Cardinality(DOMAIN Receipts(m) \cup {p}) <= MaxReviews
<1> PICK G : G = DOMAIN m.grants
  OBVIOUS
<1> PICK V : V = m.revoked
  OBVIOUS
<1> PICK D : D = DOMAIN Receipts(m)
  OBVIOUS
<1>1. /\ D = G \cup V /\ G \cap V = {} /\ Cardinality(D) <= MaxReviews /\ D \subseteq Profiles
  BY StoreFacts, LedgerFacts DEF Sound, Agrees, Decodes
<1>2. /\ IsFiniteSet(G) /\ IsFiniteSet(V) /\ IsFiniteSet(D)
      /\ Cardinality(D) = Cardinality(G) + Cardinality(V)
      /\ Cardinality(G) \in Nat /\ Cardinality(V) \in Nat
  <2>1. IsFiniteSet(G) /\ IsFiniteSet(V) /\ IsFiniteSet(D)
    BY <1>1, ProfilesAreFinite, FS_Subset
  <2>2. Cardinality(G \cap V) = 0
    BY <1>1, FS_EmptySet
  <2>3. Cardinality(G) \in Nat /\ Cardinality(V) \in Nat
    BY <2>1, FS_CardinalityType
  <2>4. Cardinality(G \cup V) = Cardinality(G) + Cardinality(V) - Cardinality(G \cap V)
    BY <2>1, FS_Union
  <2> QED BY <1>1, <2>1, <2>2, <2>3, <2>4
<1>3. CASE p \in G \cup V
  <2>1. D \cup {p} = D
    BY <1>1, <1>3
  <2> QED BY <1>1, <2>1
<1>4. CASE Cardinality(G) + Cardinality(V) < MaxReviews
  <2>1. Cardinality(D \cup {p}) = Cardinality(D) \/ Cardinality(D \cup {p}) = Cardinality(D) + 1
    BY <1>2, FS_AddElement
  <2>2. Cardinality(D \cup {p}) \in Nat
    BY <1>2, FS_AddElement, FS_CardinalityType
  <2> QED BY <1>2, <1>4, <2>1, <2>2, LimitIsPositive
<1> QED BY <1>3, <1>4 DEF RoomFor

(* An approval prepares a ledger that its grant will match. *)
Approving(old, m, id) ==
  [old EXCEPT !.pc = "save", !.job = "approve", !.profile = m.pending[id].profile,
              !.version = m.pending[id].contents.of[m.pending[id].profile],
              !.scope = {m.pending[id].profile}, !.next = ApprovedLedger(m, id)]

LEMMA ApprovalPrepares ==
  ASSUME NEW old \in RequestType, old.home \in Daemons, NEW m \in Stores,
         NEW id \in DOMAIN m.pending, old.review = id,
         Sound(m), RoomFor(m, m.pending[id].profile),
         NEW q, q = Approving(old, m, id)
  PROVE  q \in RequestType /\ Knows(q) /\ Ready(q, Receipts(m)) /\ q.pc = "save" /\ q.home = old.home
<1> PICK p : p = m.pending[id].profile
  OBVIOUS
<1> PICK v : v = m.pending[id].contents.of[p]
  OBVIOUS
<1> PICK L : L = ApprovedLedger(m, id)
  OBVIOUS
<1>1. /\ p \in Profiles /\ id \in Reviews /\ v \in Versions
      /\ L \in Ledgers /\ Differs(L, m, {p})
      /\ ~L[p].revoked /\ L[p].review = id /\ L[p].print.of[p] = v
  BY ApprovedLedgerFits
<1>2. {p} \in SUBSET Profiles
  BY <1>1
<1>3. q = [old EXCEPT !.pc = "save", !.job = "approve", !.profile = p, !.version = v,
                      !.scope = {p}, !.next = L]
  BY DEF Approving
<1>4. /\ q \in RequestType /\ q.pc = "save" /\ q.home = old.home /\ q.job = "approve" /\ q.review = id
      /\ q.profile = p /\ q.version = v /\ q.scope = {p} /\ q.next = L
  BY <1>1, <1>2, <1>3 DEF RequestType, Saving
<1>5. Approves(q)
  BY <1>1, <1>4 DEF Approves
<1>6. Decodes(L)
  BY <1>1, RoomSuffices DEF Decodes, Differs
<1>8. Ready(q, Receipts(m))
  BY <1>1, <1>4, <1>5, <1>6 DEF Ready, Prepared, Differs
<1>7. Knows(q)
  BY <1>4 DEF Knows, Opening, Editing
<1> QED BY <1>4, <1>7, <1>8

LEMMA ApproveFits ==
  ASSUME Inv, NEW r \in Requests, Approve(r)
  PROVE  Inv'
<1> DEFINE id == req[r].review
           d == req[r].home
           m == store[d]
           n == Cancel(m, id)
           q == Approving(req[r], m, id)
<1>1. /\ req[r] \in RequestType /\ req[r].pc = "approving" /\ d \in Daemons /\ Alone(r, d)
      /\ m \in Stores /\ Sound(m)
  BY RequestFacts DEF Approve, Store
<1>2. n \in Stores /\ Sound(n) /\ Receipts(n) = Receipts(m)
  BY <1>1, CancelFits DEF Receipts
<1>3. store' = [store EXCEPT ![d] = n] /\ Rest'
  BY RequestFacts, RestStays DEF Approve, SetStore, Store
<1>4. CASE Ends(r)
  <2> HIDE DEF n, d
  <2> QED BY <1>1, <1>2, <1>3, <1>4, EndFits
<1>5. CASE ~Ends(r)
  <2>1. /\ id \in DOMAIN m.pending /\ req' = [req EXCEPT ![r] = q]
        /\ RoomFor(m, m.pending[id].profile)
    BY <1>5 DEF Approve, Approvable, Approving, Store
  <2>2. q \in RequestType /\ Knows(q) /\ Ready(q, Receipts(m)) /\ q.pc = "save" /\ q.home = d
    <3> HIDE DEF m, id
    <3> QED BY <1>1, <2>1, ApprovalPrepares DEF id
  <2> HIDE DEF q, n, m, d, id
  <2>3. Fits(r, q, d, n)
    BY <1>1, <1>2, <2>2 DEF Fits
  <2> QED BY <1>1, <1>3, <2>1, <2>3, StepFits
<1> QED BY <1>4, <1>5

(* A revocation or an edit prepares a ledger that blocks its scope. *)
Blocking(old, m, S, job) ==
  [old EXCEPT !.pc = "save", !.job = job, !.scope = S, !.next = BlockedLedger(m, S)]

LEMMA BlockPrepares ==
  ASSUME NEW old \in RequestType, old.home \in Daemons, NEW m \in Stores,
         NEW S \in SUBSET Profiles, NEW job \in {"revoke", "edit"},
         Cardinality(DOMAIN Receipts(m) \cup S) <= MaxReviews,
         NEW q, q = Blocking(old, m, S, job)
  PROVE  q \in RequestType /\ Knows(q) /\ Ready(q, Receipts(m)) /\ q.pc = "save" /\ q.home = old.home
<1> PICK L : L = BlockedLedger(m, S)
  OBVIOUS
<1>1. L \in Ledgers /\ Differs(L, m, S) /\ \A p \in S : L[p].revoked
  BY BlockedLedgerFits
<1>2. /\ q \in RequestType /\ q.pc = "save" /\ q.home = old.home /\ q.job = job
      /\ q.scope = S /\ q.next = L
  BY <1>1 DEF RequestType, Saving, Blocking
<1>3. Knows(q)
  BY <1>2 DEF Knows, Opening, Editing
<1>4. Decodes(L)
  BY <1>1 DEF Decodes, Differs
<1>5. Ready(q, Receipts(m))
  BY <1>1, <1>2, <1>4 DEF Ready, Prepared, Differs
<1> QED BY <1>2, <1>3, <1>5

LEMMA RevokeFits ==
  ASSUME Inv, NEW r \in Requests, Revoke(r)
  PROVE  Inv'
<1> DEFINE d == req[r].home
           S == {req[r].profile}
           q == Blocking(req[r], store[d], S, "revoke")
<1>1. /\ req[r] \in RequestType /\ req[r].pc = "revoking" /\ MutexFree(d) /\ d \in Daemons
      /\ S \in SUBSET Profiles /\ store[d] \in Stores /\ UNCHANGED store
  BY RequestFacts DEF Revoke, Knows, Store
<1>2. Rest'
  BY RequestFacts, RestStays DEF Revoke
<1>3. CASE Ends(r)
  BY <1>1, <1>2, <1>3, EndStaysFit
<1>4. CASE ~Ends(r)
  <2>1. req' = [req EXCEPT ![r] = q] /\ req[r].profile \in DOMAIN Receipts(store[d])
    BY <1>4 DEF Revoke, Store, Blocking
  <2>3. Cardinality(DOMAIN Receipts(store[d]) \cup S) <= MaxReviews
    <3>1. DOMAIN Receipts(store[d]) \cup S = DOMAIN Receipts(store[d])
      BY <2>1
    <3> QED BY <1>1, <3>1, DaemonFacts DEF Sound, Decodes
  <2> HIDE DEF S
  <2>2. q \in RequestType /\ Knows(q) /\ Ready(q, Receipts(store[d])) /\ q.pc = "save" /\ q.home = d
    BY <1>1, <2>3, BlockPrepares
  <2> HIDE DEF q
  <2> QED BY <1>1, <1>2, <2>1, <2>2, MoveFits DEF Store
<1> QED BY <1>3, <1>4

-----------------------------------------------------------------------------
(* The editors. *)

LEMMA BeginEditFits ==
  ASSUME Inv, NEW r \in Requests, NEW d \in Daemons, NEW S \in Scopes, BeginEdit(r, d, S)
  PROVE  Inv'
<1> PICK c : c = config
  OBVIOUS
<1> DEFINE q == [Idle EXCEPT !.pc = "editing", !.home = d, !.job = "edit", !.scope = S, !.seen = c]
<1>1. /\ Starts(r, "edit", q) /\ UNCHANGED <<files, issued, history>> /\ UNCHANGED store
      /\ MutexFree(d)
  BY DEF BeginEdit
<1>2. c \in Configs /\ Empty \in Ledgers /\ S \in SUBSET Profiles
  BY RestOfTypes, EmptyPartial DEF Inv, Rest, Ledgers, Scopes
<1>3. q \in RequestType /\ q.pc = "editing" /\ q.home = d /\ q.job = "edit"
  BY <1>2 DEF RequestType, Idle, Editing
<1> HIDE DEF q
<1>4. Knows(q) /\ q.pc \notin Saving
  BY <1>3 DEF Knows, Opening, Editing, Saving
<1> PICK m : m = store[d]
  OBVIOUS
<1>5. store' = [store EXCEPT ![d] = m] /\ m.disk = store[d].disk
  BY <1>1, RestOfTypes DEF Inv
<1>6. m \in Stores /\ Sound(m)
  BY DaemonFacts
<1> QED BY <1>1, <1>3, <1>4, <1>5, <1>6, StartFits

LEMMA EditPrepares ==
  ASSUME NEW old \in RequestType, old.job = "edit", NEW m
  PROVE  [old EXCEPT !.pc = "save", !.next = BlockedLedger(m, old.scope)]
           = Blocking(old, m, old.scope, "edit")
<1> PICK L : L = BlockedLedger(m, old.scope)
  OBVIOUS
<1>1. [old EXCEPT !.pc = "save", !.next = L]
        = [old EXCEPT !.pc = "save", !.job = "edit", !.scope = old.scope, !.next = L]
  BY DEF RequestType
<1> QED BY <1>1 DEF Blocking

LEMMA BlockForEditFits ==
  ASSUME Inv, NEW r \in Requests, BlockForEdit(r)
  PROVE  Inv'
<1> DEFINE d == req[r].home
           m == Synced(d)
           S == req[r].scope
           q == Blocking(req[r], m, S, "edit")
<1>1. /\ req[r] \in RequestType /\ req[r].pc = "editing" /\ req[r].job = "edit" /\ d \in Daemons
      /\ Alone(r, d)
  BY RequestFacts DEF BlockForEdit, Knows, Editing, Holding
<1>2. S \in SUBSET Profiles
  BY <1>1 DEF RequestType
<1>3. Rest'
  BY RequestFacts, RestStays DEF BlockForEdit
<1>4. CASE Ends(r) /\ UNCHANGED store
  BY <1>1, <1>3, <1>4, EndStaysFit
<1>5. CASE Syncs(d)
  <2>1. m \in Stores /\ Sound(m) /\ store' = [store EXCEPT ![d] = m]
    BY <1>1, <1>5, SyncedFits DEF Syncs
  <2>2. CASE Ends(r)
    <3> HIDE DEF m, d
    <3> QED BY <1>1, <1>3, <2>1, <2>2, EndFits
  <2>3. CASE Goes(r, "blocked")
    <3> HIDE DEF m, d
    <3>1. "blocked" \in Editing /\ "blocked" \notin Opening \cup Saving \cup Deciding
          /\ req[r].pc \in Holding
      BY <1>1 DEF Opening, Deciding, Editing, Saving, Holding
    <3> QED BY <1>1, <1>3, <2>1, <2>3, <3>1, GoFits DEF d
  <2>4. CASE ~Ends(r) /\ ~Goes(r, "blocked")
    <3>1. /\ req' = [req EXCEPT ![r] = [req[r] EXCEPT !.pc = "save", !.next = BlockedLedger(m, S)]]
          /\ ~(Cardinality(DOMAIN Receipts(m) \cup S) > MaxReviews)
      BY <2>4 DEF BlockForEdit
    <3>5. Cardinality(DOMAIN Receipts(m) \cup S) <= MaxReviews
      <4>1. DOMAIN Receipts(m) \subseteq Profiles
        BY <2>1, StoreFacts, LedgerFacts
      <4>2. IsFiniteSet(DOMAIN Receipts(m) \cup S)
        BY <1>2, <4>1, ProfilesAreFinite, FS_Subset
      <4> QED BY <3>1, <4>2, FS_CardinalityType, LimitIsPositive
    <3> HIDE DEF m
    <3>2. req' = [req EXCEPT ![r] = q]
      BY <1>1, <3>1, EditPrepares
    <3>3. q \in RequestType /\ Knows(q) /\ Ready(q, Receipts(m)) /\ q.pc = "save" /\ q.home = d
      <4> HIDE DEF S
      <4> QED BY <1>1, <1>2, <2>1, <3>5, BlockPrepares
    <3> HIDE DEF q, d, S
    <3>4. Fits(r, q, d, m)
      BY <1>1, <2>1, <3>3 DEF Fits
    <3> QED BY <1>1, <1>3, <2>1, <3>2, <3>4, StepFits
  <2> QED BY <2>2, <2>3, <2>4
<1> QED BY <1>4, <1>5 DEF BlockForEdit

LEMMA WriteConfigFits ==
  ASSUME Inv, NEW r \in Requests, WriteConfig(r)
  PROVE  Inv'
<1>1. Rest'
  BY RequestFacts DEF WriteConfig, Rest, history, Edited
<1> QED BY <1>1, EndStaysFit DEF WriteConfig

-----------------------------------------------------------------------------
(* A save. *)

LEMMA SaveGoes ==
  ASSUME Inv, NEW r \in Requests, req[r].pc \in Saving, NEW pc \in Saving,
         Goes(r, pc), UNCHANGED store, Rest'
  PROVE  Inv'
<1> DEFINE d == req[r].home
<1>1. req[r].pc # "idle" /\ pc \in Saving /\ pc \notin Opening \cup Deciding \cup Editing
      /\ req[r].pc \in Holding
  BY DEF Opening, Deciding, Editing, Saving, Holding
<1>2. d \in Daemons
  BY <1>1, RequestFacts
<1>3. store' = [store EXCEPT ![d] = store[d]] /\ store[d] \in Stores /\ Sound(store[d])
  BY <1>2, DaemonFacts, RestOfTypes DEF Inv
<1> HIDE DEF d
<1> QED BY <1>1, <1>2, <1>3, GoFits DEF d, Deciding

LEMMA SaveStepsFit ==
  ASSUME Inv, NEW r \in Requests,
         MakeDirectory(r) \/ TakeLock(r) \/ Compare(r) \/ Rename(r) \/ SaveFails(r)
  PROVE  Inv'
<1>1. CASE MakeDirectory(r)
  <2> DEFINE b == disk.state = "absent"
             q == [req[r] EXCEPT !.pc = "made", !.created = b]
  <2>1. /\ req[r] \in RequestType /\ req[r].pc = "save" /\ Knows(req[r])
        /\ Ready(req[r], Receipts(Store(r)))
    BY <1>1, RequestFacts DEF MakeDirectory
  <2>2. req' = [req EXCEPT ![r] = q] /\ UNCHANGED store
    BY <1>1 DEF MakeDirectory
  <2>3. Rest'
    <3>1. disk' \in Disks
      BY <1>1, RequestFacts DEF Rest, Disks, MakeDirectory
    <3> QED BY <1>1, <3>1, RequestFacts DEF Rest, MakeDirectory, history
  <2>4. b \in BOOLEAN
    OBVIOUS
  <2> HIDE DEF b
  <2>5. /\ q \in RequestType /\ q.pc = "made" /\ q.home = req[r].home /\ q.profile = req[r].profile
        /\ q.review = req[r].review /\ q.version = req[r].version /\ q.job = req[r].job
        /\ q.scope = req[r].scope /\ q.next = req[r].next
    BY <2>1, <2>4 DEF RequestType, Saving
  <2> HIDE DEF q
  <2>6. Knows(q) /\ Ready(q, Receipts(Store(r)))
    BY <2>1, <2>5 DEF Knows, Ready, Prepared, Approves, Opening, Editing, Saving
  <2>7. req[r].pc \in Holding /\ req[r].pc # "idle"
    BY <2>1 DEF Holding, Saving
  <2> QED BY <2>2, <2>3, <2>5, <2>6, <2>7, MoveFits
<1>2. CASE TakeLock(r)
  <2>1. Rest' /\ req[r].pc = "made" /\ UNCHANGED store
    BY <1>2, RequestFacts, RestStays DEF TakeLock
  <2>2. CASE Goes(r, "locked")
    BY <2>1, <2>2, SaveGoes DEF Saving
  <2>3. CASE Ends(r)
    BY <2>1, <2>3, EndStaysFit
  <2> QED BY <1>2, <2>2, <2>3 DEF TakeLock
<1>3. CASE Compare(r)
  <2>1. Rest' /\ req[r].pc = "locked" /\ UNCHANGED store
    BY <1>3, RequestFacts, RestStays DEF Compare
  <2>2. CASE Goes(r, "written")
    BY <2>1, <2>2, SaveGoes DEF Saving
  <2>3. CASE Ends(r)
    BY <2>1, <2>3, EndStaysFit
  <2> QED BY <1>3, <2>2, <2>3 DEF Compare
<1>4. CASE Rename(r)
  <2>1. req[r].pc = "written" /\ Goes(r, "renamed") /\ UNCHANGED store
    BY <1>4 DEF Rename
  <2>2. req[r] \in RequestType /\ req[r].next \in Ledgers
    BY RequestFacts DEF RequestType
  <2>3. Live(req[r].next) \subseteq Reviews
    BY <2>2, LedgerFacts, LiveReceipt DEF Live
  <2>4. Without(owed, req[r].scope) \in Ledgers
    BY RequestFacts, WithoutPartial DEF Rest, Ledgers
  <2>5. [state |-> "ledger", profiles |-> req[r].next] \in Disks
    BY <2>2 DEF Disks
  <2>6. Rest'
    BY <1>4, <2>3, <2>4, <2>5, RequestFacts DEF Rest, Rename
  <2> QED BY <2>1, <2>6, SaveGoes DEF Saving
<1>5. CASE SaveFails(r)
  <2>1. Rest' /\ req[r].pc # "idle" /\ Ends(r) /\ UNCHANGED store
    BY <1>5, RequestFacts, RestStays DEF SaveFails, Saving
  <2> QED BY <2>1, EndStaysFit
<1> QED BY <1>1, <1>2, <1>3, <1>4, <1>5

LEMMA OwedFits ==
  ASSUME NEW f \in Ledgers, NEW g \in Ledgers, NEW S, S \subseteq DOMAIN g,
         NEW h, h = [p \in DOMAIN f \cup S |-> IF p \in S THEN g[p] ELSE f[p]]
  PROVE  h \in Ledgers
<1>1. h = [p \in DOMAIN h |-> h[p]] /\ DOMAIN h \subseteq Profiles
  BY LedgerFacts
<1>2. \A p \in DOMAIN h : h[p] \in ReceiptType
  BY LedgerFacts
<1> QED BY <1>1, <1>2, LedgerOf

LEMMA AfterSaveFits ==
  ASSUME Inv, NEW r \in Requests, req[r].pc = "renamed"
  PROVE  AfterSave(r) \in Stores /\ Sound(AfterSave(r))
<1> DEFINE q == req[r]
           m == Store(r)
<1>1. /\ q \in RequestType /\ m \in Stores /\ Sound(m) /\ Prepared(q, Receipts(m))
  BY RequestFacts DEF Ready, Saving
<1>2. q.job \in {"approve", "revoke", "edit"}
  BY <1>1 DEF RequestType, Prepared
<1> HIDE DEF m
<1>3. CASE q.job = "approve"
  <2>1. Approves(q)
    BY <1>1, <1>3 DEF Prepared
  <2>2. AfterSave(r) = AfterApprove(m, q.next, q.profile, q.review, q.version)
    BY <1>3 DEF AfterSave, m
  <2> HIDE DEF q
  <2> QED BY <1>1, <2>1, <2>2, ApprovalFits
<1>4. CASE q.job = "revoke"
  <2>1. AfterSave(r) = AfterRevoke(m, q.next, q.scope)
    BY <1>4 DEF AfterSave, m
  <2> HIDE DEF q
  <2> QED BY <1>1, <1>4, <2>1, BlockFits
<1>5. CASE q.job = "edit"
  <2>1. AfterSave(r) = AfterBlock(m, q.next, q.scope)
    BY <1>5 DEF AfterSave, m
  <2> HIDE DEF q
  <2> QED BY <1>1, <1>5, <2>1, BlockFits
<1> QED BY <1>2, <1>3, <1>4, <1>5

LEMMA SyncDirectoryFits ==
  ASSUME Inv, NEW r \in Requests, SyncDirectory(r)
  PROVE  Inv'
<1> DEFINE d == req[r].home
           n == AfterSave(r)
<1>1. /\ req[r].pc = "renamed" /\ req[r].pc \in Holding /\ req[r] \in RequestType
      /\ Prepared(req[r], Receipts(Store(r))) /\ d \in Daemons /\ Alone(r, d)
  BY RequestFacts DEF SyncDirectory, Holding, Saving, Ready
<1>2. n \in Stores /\ Sound(n) /\ store' = [store EXCEPT ![d] = n]
  BY <1>1, AfterSaveFits DEF SyncDirectory, SetStore
<1>3. Rest'
  <2>1. req[r].next \in Ledgers /\ req[r].scope \subseteq DOMAIN req[r].next
    BY <1>1 DEF RequestType, Prepared
  <2>2. owed' \in Ledgers
    BY <2>1, RequestFacts, OwedFits DEF Rest, SyncDirectory
  <2>3. dead' \subseteq Reviews
    BY RequestFacts DEF Rest, SyncDirectory
  <2> QED BY <2>2, <2>3, RequestFacts DEF Rest, SyncDirectory
<1> HIDE DEF n, d
<1>4. CASE req[r].job = "edit" /\ Goes(r, "blocked")
  <2>1. "blocked" \in Editing /\ "blocked" \notin Opening \cup Saving \cup Deciding
    BY DEF Opening, Deciding, Editing, Saving
  <2> QED BY <1>1, <1>2, <1>3, <1>4, <2>1, GoFits DEF d
<1>5. CASE Ends(r)
  BY <1>1, <1>2, <1>3, <1>5, EndFits
<1> QED BY <1>4, <1>5 DEF SyncDirectory

-----------------------------------------------------------------------------
(* The environment. *)

LEMMA EnvironmentFits ==
  ASSUME Inv, store' \in [Daemons -> Stores], req' \in [Requests -> RequestType],
         \A d \in Daemons : Sound(store'[d]),
         \A s \in Requests : req'[s] = req[s] \/ req'[s] = Idle,
         \A s \in Requests : req'[s].pc \in Saving =>
           store'[req[s].home].disk = store[req[s].home].disk,
         Rest'
  PROVE  Inv'
<1>1. TypeOK'
  BY RestOfTypes DEF TypeOK, Rest
<1>2. StoresSound'
  BY DEF StoresSound, Sound, Agrees, Receipts
<1>3. Idle.pc = "idle" /\ "idle" \notin Holding \cup Saving \cup Opening \cup Deciding \cup Editing
  BY DEF Idle, Holding, Saving, Opening, Deciding, Editing
<1>4. Exclusive'
  BY <1>3 DEF Inv, Exclusive
<1>5. ASSUME NEW s \in Requests
      PROVE  Knows(req'[s]) /\ Ready(req'[s], store'[req'[s].home].disk.profiles)
  <2>1. CASE req'[s] = Idle
    BY <1>3, <2>1 DEF Knows, Ready, Deciding
  <2>2. CASE req'[s] = req[s]
    <3>1. Knows(req[s]) /\ Ready(req[s], store[req[s].home].disk.profiles)
      BY DEF Inv, RequestsKnow, Store, Receipts
    <3> QED BY <2>2, <3>1 DEF Ready
  <2> QED BY <2>1, <2>2
<1>6. RequestsKnow'
  BY <1>5 DEF RequestsKnow, Store, Receipts
<1> QED BY <1>1, <1>2, <1>4, <1>6 DEF Inv

LEMMA EnvironmentKeeps ==
  ASSUME Inv, Environment
  PROVE  Inv'
<1>1. /\ Rest /\ store \in [Daemons -> Stores] /\ req \in [Requests -> RequestType]
      /\ \A d \in Daemons : Sound(store[d])
  BY RestOfTypes DEF Inv, StoresSound
<1>2. ASSUME NEW d \in Daemons, NEW m \in Stores, Sound(m),
             m.disk # store[d].disk => MutexFree(d),
             store' = [store EXCEPT ![d] = m], UNCHANGED req, Rest'
      PROVE  Inv'
  <2>1. store' \in [Daemons -> Stores] /\ \A e \in Daemons : store'[e] = IF e = d THEN m ELSE store[e]
    BY <1>1, <1>2
  <2>2. \A e \in Daemons : Sound(store'[e])
    <3> SUFFICES ASSUME NEW e \in Daemons PROVE Sound(store'[e])
      OBVIOUS
    <3>1. CASE e = d
      BY <1>2, <2>1, <3>1
    <3>2. CASE e # d
      BY <1>1, <2>1, <3>2
    <3> QED BY <3>1, <3>2
  <2>3. ASSUME NEW s \in Requests, req[s].pc \in Saving
        PROVE  store'[req[s].home].disk = store[req[s].home].disk
    <3>1. req[s].home \in Daemons /\ req[s].pc \in Holding
      BY <2>3, RequestFacts DEF Saving, Holding
    <3>2. CASE req[s].home = d
      BY <1>2, <2>1, <3>1, <3>2 DEF MutexFree
    <3>3. CASE req[s].home # d
      BY <2>1, <3>1, <3>3
    <3> QED BY <3>2, <3>3
  <2> QED BY <1>1, <1>2, <2>1, <2>2, <2>3, EnvironmentFits
<1>3. ASSUME NEW D \in SUBSET Daemons, NEW NewDisk, Rest', req' = Fallen(D),
             store' \in [Daemons -> Stores],
             \A e \in Daemons : store'[e] = IF e \in D THEN NewStore ELSE store[e]
      PROVE  Inv'
  <2>1. \A e \in Daemons : Sound(store'[e])
    <3> SUFFICES ASSUME NEW e \in Daemons PROVE Sound(store'[e])
      OBVIOUS
    <3>1. CASE e \in D
      BY <1>3, <3>1, NewStoreFits
    <3>2. CASE e \notin D
      BY <1>1, <1>3, <3>2
    <3> QED BY <3>1, <3>2
  <2>2. Idle \in RequestType /\ Idle.pc = "idle"
    BY EmptyPartial DEF Idle, RequestType, Ledgers
  <2>3. /\ req' \in [Requests -> RequestType]
        /\ \A s \in Requests : req'[s] = IF req[s].home \in D THEN Idle ELSE req[s]
    BY <1>1, <1>3, <2>2 DEF Fallen
  <2>4. ASSUME NEW s \in Requests, req'[s].pc \in Saving
        PROVE  store'[req[s].home].disk = store[req[s].home].disk
    <3>1. req[s].home \notin D /\ req[s].pc \in Saving
      BY <2>2, <2>3, <2>4 DEF Saving
    <3>2. req[s].home \in Daemons
      BY <3>1, RequestFacts DEF Saving
    <3> QED BY <1>3, <3>1, <3>2
  <2> QED BY <1>3, <2>1, <2>3, <2>4, EnvironmentFits
<1>4. ASSUME NEW d \in Daemons, NEW id \in Reviews, ReviewExpires(d, id) PROVE Inv'
  <2> DEFINE m == Expire(store[d], id)
  <2>1. m \in Stores /\ Sound(m) /\ m.disk = store[d].disk
    BY <1>1, <1>4, ExpireFits DEF ReviewExpires
  <2>2. store' = [store EXCEPT ![d] = m] /\ UNCHANGED req /\ Rest'
    BY <1>1, <1>4, RestStays DEF ReviewExpires
  <2> HIDE DEF m
  <2> QED BY <1>2, <2>1, <2>2
<1>5. ASSUME NEW d \in Daemons, ListTrust(d) PROVE Inv'
  <2> DEFINE m == Synced(d)
  <2>1. m \in Stores /\ Sound(m)
    BY <1>5, SyncedFits DEF ListTrust
  <2>2. store' = [store EXCEPT ![d] = m] /\ UNCHANGED req /\ Rest' /\ MutexFree(d)
    BY <1>1, <1>5, RestStays DEF ListTrust, Syncs
  <2> HIDE DEF m
  <2> QED BY <1>2, <2>1, <2>2
<1>6. ASSUME NEW d \in Daemons, DaemonCrash(d) PROVE Inv'
  <2>1. Rest' /\ req' = Fallen({d})
    BY <1>1, <1>6 DEF DaemonCrash, Crashes, Rest, files, history
  <2>2. /\ store' \in [Daemons -> Stores]
        /\ \A e \in Daemons : store'[e] = IF e \in {d} THEN NewStore ELSE store[e]
    BY <1>1, <1>6, NewStoreFits DEF DaemonCrash
  <2> QED BY <1>3, <2>1, <2>2
<1>7. ASSUME PowerLoss PROVE Inv'
  <2>1. Rest' /\ req' = Fallen(Daemons)
    BY <1>1, <1>7 DEF PowerLoss, Crashes, Rest, history
  <2>2. /\ store' \in [Daemons -> Stores]
        /\ \A e \in Daemons : store'[e] = IF e \in Daemons THEN NewStore ELSE store[e]
    BY <1>1, <1>7, NewStoreFits DEF PowerLoss
  <2> QED BY <1>3, <2>1, <2>2
<1>8. ASSUME RemoveDirectory \/ OutsideEdit PROVE Inv'
  <2>1. Empty \in Ledgers /\ NoDisk \in Disks
    BY EmptyPartial DEF Ledgers, NoDisk, Disks
  <2>2. Rest' /\ UNCHANGED <<store, req>>
    BY <1>1, <1>8, <2>1 DEF RemoveDirectory, OutsideEdit, Rest, history
  <2> QED BY <1>1, <2>2, EnvironmentFits
<1> QED BY <1>4, <1>5, <1>6, <1>7, <1>8 DEF Environment

-----------------------------------------------------------------------------
(* The invariant holds. *)

LEMMA InitFits ==
  ASSUME Init
  PROVE  Inv
<1>1. /\ disk \in Disks /\ config \in Configs /\ disk.profiles \in Ledgers
  BY InitialLedgersWereWritten DEF Init, Disks
<1>2. spent \subseteq Reviews
  BY <1>1, LedgerFacts DEF Init, ReceiptType, BlockReceipt
<1>3. reviewed \in Partial(Reviews, [profile : Profiles, contents : Configs])
  <2> DEFINE R == [profile : Profiles, contents : Configs]
             P(id) == CHOOSE q \in DOMAIN disk.profiles : disk.profiles[q].review = id
             y(id) == [profile |-> P(id), contents |-> disk.profiles[P(id)].print]
  <2>1. reviewed = [id \in spent |-> y(id)]
    BY DEF Init
  <2>2. ASSUME NEW id \in spent PROVE y(id) \in R
    <3>1. /\ P(id) \in DOMAIN disk.profiles /\ disk.profiles[P(id)].review = id /\ id # None
      BY DEF Init
    <3>2. P(id) \in Profiles /\ disk.profiles[P(id)] \in ReceiptType
      BY <1>1, <3>1, LedgerFacts
    <3> HIDE DEF P
    <3>3. disk.profiles[P(id)].print \in Configs
      BY <3>1, <3>2 DEF ReceiptType, BlockReceipt
    <3> QED BY <3>2, <3>3
  <2> HIDE DEF R, y
  <2>3. /\ DOMAIN reviewed \subseteq Reviews /\ reviewed = [id \in DOMAIN reviewed |-> reviewed[id]]
        /\ \A id \in DOMAIN reviewed : reviewed[id] \in R
    BY <1>2, <2>1, <2>2
  <2>4. reviewed \in Partial(Reviews, R)
    BY <2>3, PartialMap
  <2> QED BY <2>4 DEF R
<1>4. Rest
  BY <1>1, <1>2, <1>3 DEF Init, Rest
<1>5. Idle \in RequestType /\ Idle.pc = "idle"
  BY EmptyPartial DEF Idle, RequestType, Ledgers
<1>6. store \in [Daemons -> Stores] /\ \A d \in Daemons : store[d] = NewStore
  BY NewStoreFits DEF Init
<1>7. req \in [Requests -> RequestType] /\ \A r \in Requests : req[r] = Idle
  BY <1>5 DEF Init
<1>8. StoresSound
  BY <1>6, NewStoreFits DEF StoresSound
<1>9. Exclusive /\ RequestsKnow
  BY <1>5, <1>7 DEF Exclusive, RequestsKnow, Knows, Ready, Holding, Saving, Opening, Editing
<1> QED BY <1>4, <1>6, <1>7, <1>8, <1>9, RestOfTypes DEF Inv

LEMMA StepKeeps ==
  ASSUME Inv, [Next]_vars
  PROVE  Inv'
<1>1. ASSUME NEW r \in Requests, RequestStep(r) PROVE Inv'
  BY <1>1, LookupFits, InspectFits, DecisionsFit, BeginEditFits, LoadProfileFits, OpeningFits,
     DiscoverFits, StageReviewFits, ApproveFits, CancelReviewFits, RevokeFits, BlockForEditFits,
     WriteConfigFits, SaveStepsFit, SyncDirectoryFits
     DEF RequestStep
<1>2. CASE UNCHANGED vars
  <2>1. /\ UNCHANGED <<store, req>> /\ Rest'
    BY <1>2, RestOfTypes DEF Inv, vars, Rest, history
  <2>2. /\ store \in [Daemons -> Stores] /\ req \in [Requests -> RequestType]
        /\ \A d \in Daemons : Sound(store[d])
    BY RestOfTypes DEF Inv, StoresSound
  <2> QED BY <2>1, <2>2, EnvironmentFits
<1> QED BY <1>1, <1>2, EnvironmentKeeps DEF Next

LEMMA InvHolds == Spec => []Inv
  BY InitFits, StepKeeps, PTL DEF Spec

(* The variables keep their types. *)
THEOREM TrustTypesHold == Spec => []TypeOK
<1>1. Inv => TypeOK
  BY DEF Inv
<1> QED BY <1>1, InvHolds, PTL

(* A daemon's store never grants what the ledger it loaded does not, and      *)
(* lists every other decided profile as revoked, whatever the other daemons,  *)
(* crashes and failed saves do (TrustStore.sync, approve, revoke,             *)
(* block_profiles).                                                           *)
THEOREM StoresAlwaysAgree == Spec => []StoreAgrees
<1>1. Inv => StoreAgrees
  BY DEF Inv, StoresSound, Sound, StoreAgrees
<1> QED BY <1>1, InvHolds, PTL

-----------------------------------------------------------------------------
(* A session is published under a live grant: the last sync makes the store   *)
(* hold the ledger on disk, and a store that agrees with its ledger trusts    *)
(* only what the ledger does.                                                 *)

LEMMA PublishedFromLedger ==
  ASSUME NEW m \in Stores, Sound(m), NEW p, NEW id, TrustUnchanged(m, p, id)
  PROVE  IF id = None THEN p \notin DOMAIN Receipts(m)
         ELSE /\ p \in DOMAIN Receipts(m) /\ Receipts(m)[p].review = id /\ ~Receipts(m)[p].revoked
<1>1. CASE p \in DOMAIN m.grants
  <2>1. m.grants[p].id = id /\ id \in Reviews
    BY <1>1, StoreFacts, GrantFacts DEF TrustUnchanged, ApprovedId
  <2> QED BY <1>1, <2>1, NoneIsNoReview DEF Sound, Agrees
<1>2. CASE p \notin DOMAIN m.grants
  BY <1>2 DEF TrustUnchanged, ApprovedId, Sound, Agrees
<1> QED BY <1>1, <1>2

(* Only Publish makes a request "open". *)
LEMMA OnlyPublishOpens ==
  ASSUME Inv, Next, NEW r \in Requests, req[r].pc # "open", req'[r].pc = "open"
  PROVE  Publish(r)
<1>1. req \in [Requests -> RequestType] /\ Idle.pc = "idle"
  BY RestOfTypes DEF Inv, Idle
<1>2. ASSUME NEW s \in Requests, NEW pc, Goes(s, pc), pc # "open" PROVE FALSE
  BY <1>1, <1>2 DEF Goes, RequestType
<1>3. ASSUME NEW s \in Requests, Ends(s) PROVE FALSE
  BY <1>1, <1>3 DEF Ends
<1>4. ASSUME NEW s \in Requests, NEW q, q.pc # "open", req' = [req EXCEPT ![s] = q] PROVE FALSE
  BY <1>1, <1>4
<1>5. ASSUME UNCHANGED req PROVE FALSE
  BY <1>5
<1>6. ASSUME NEW s \in Requests,
             \/ \E d \in Daemons, p \in Profiles : Lookup(s, d, p)
             \/ \E d \in Daemons, p \in Profiles : Inspect(s, d, p)
             \/ \E d \in Daemons, p \in Profiles : DecideRevoke(s, d, p)
             \/ \E d \in Daemons, id \in Reviews : DecideApprove(s, d, id) \/ DecideCancel(s, d, id)
             \/ \E d \in Daemons, scope \in Scopes : BeginEdit(s, d, scope)
      PROVE  FALSE
  <2>1. ASSUME NEW d \in Daemons, NEW p \in Profiles, Lookup(s, d, p) PROVE FALSE
    BY <1>4, <2>1 DEF Lookup, Starts, Idle
  <2>2. ASSUME NEW d \in Daemons, NEW p \in Profiles, Inspect(s, d, p) \/ DecideRevoke(s, d, p)
        PROVE  FALSE
    BY <1>4, <2>2 DEF Inspect, DecideRevoke, Decide, Starts, Idle
  <2>3. ASSUME NEW d \in Daemons, NEW id \in Reviews, DecideApprove(s, d, id) \/ DecideCancel(s, d, id)
        PROVE  FALSE
    BY <1>4, <2>3 DEF DecideApprove, DecideCancel, Decide, Starts, Idle
  <2>4. ASSUME NEW d \in Daemons, NEW scope \in Scopes, BeginEdit(s, d, scope) PROVE FALSE
    BY <1>4, <2>4 DEF BeginEdit, Starts, Idle
  <2> QED BY <1>6, <2>1, <2>2, <2>3, <2>4
<1>7. ASSUME NEW s \in Requests,
             LoadProfile(s) \/ Approve(s) \/ Revoke(s) \/ BlockForEdit(s) \/ MakeDirectory(s)
      PROVE  FALSE
  <2>1. ASSUME NEW q, q = [req[s] EXCEPT !.pc = "loaded", !.version = config.of[req[s].profile]]
        PROVE  q.pc # "open"
    BY <1>1, <2>1 DEF RequestType
  <2>2. CASE LoadProfile(s)
    BY <1>4, <2>1, <2>2 DEF LoadProfile
  <2>3. CASE Approve(s)
    <3> DEFINE q == Approving(req[s], Store(s), req[s].review)
    <3>1. Ends(s) \/ req' = [req EXCEPT ![s] = q]
      BY <2>3 DEF Approve, Approving
    <3>2. q.pc # "open"
      BY <1>1 DEF Approving, RequestType
    <3> HIDE DEF q
    <3> QED BY <1>3, <1>4, <3>1, <3>2
  <2>4. CASE Revoke(s)
    <3> DEFINE q == Blocking(req[s], Store(s), {req[s].profile}, "revoke")
    <3>1. Ends(s) \/ req' = [req EXCEPT ![s] = q]
      BY <2>4 DEF Revoke, Blocking
    <3>2. q.pc # "open"
      BY <1>1 DEF Blocking, RequestType
    <3> HIDE DEF q
    <3> QED BY <1>3, <1>4, <3>1, <3>2
  <2>5. CASE BlockForEdit(s)
    <3> DEFINE L == BlockedLedger(Synced(req[s].home), req[s].scope)
               q == [req[s] EXCEPT !.pc = "save", !.next = L]
    <3>1. Ends(s) \/ Goes(s, "blocked") \/ req' = [req EXCEPT ![s] = q]
      BY <2>5 DEF BlockForEdit
    <3> HIDE DEF L
    <3>2. q.pc # "open"
      BY <1>1 DEF RequestType
    <3> HIDE DEF q
    <3> QED BY <1>2, <1>3, <1>4, <3>1, <3>2
  <2>6. CASE MakeDirectory(s)
    <3> DEFINE b == disk.state = "absent"
               q == [req[s] EXCEPT !.pc = "made", !.created = b]
    <3>1. req' = [req EXCEPT ![s] = q]
      BY <2>6 DEF MakeDirectory
    <3> HIDE DEF b
    <3>2. q.pc # "open"
      BY <1>1 DEF RequestType
    <3> HIDE DEF q
    <3> QED BY <1>4, <3>1, <3>2
  <2> QED BY <1>7, <2>2, <2>3, <2>4, <2>5, <2>6
<1>8. ASSUME NEW s \in Requests,
             \/ Resync(s) \/ BeginAttach(s) \/ GiveUp(s) \/ Capture(s)
             \/ Discover(s) \/ StageReview(s) \/ CancelReview(s) \/ WriteConfig(s)
             \/ TakeLock(s) \/ Compare(s) \/ Rename(s) \/ SyncDirectory(s) \/ SaveFails(s)
      PROVE  FALSE
  <2>1. \/ Ends(s)
        \/ \E pc \in {"captured", "resynced", "attaching", "discovered", "locked", "written",
                      "renamed", "blocked"} : Goes(s, pc)
    BY <1>8 DEF Resync, BeginAttach, GiveUp, Capture, SyncAndCheck, Discover, StageReview,
       CancelReview, WriteConfig, TakeLock, Compare, Rename, SyncDirectory, SaveFails
  <2> QED BY <1>2, <1>3, <2>1
<1>9. ASSUME Environment PROVE FALSE
  <2>1. CASE UNCHANGED req
    BY <1>5, <2>1
  <2>2. ASSUME NEW D, req' = Fallen(D) PROVE FALSE
    BY <1>1, <2>2 DEF Fallen
  <2> QED BY <1>9, <2>1, <2>2
          DEF Environment, ReviewExpires, ListTrust, DaemonCrash, PowerLoss, RemoveDirectory, OutsideEdit
<1>10. ASSUME NEW s \in Requests, Publish(s), s # r PROVE FALSE
  <2>1. Ends(s) \/ Goes(s, "open")
    BY <1>10 DEF Publish, SyncAndCheck
  <2> QED BY <1>1, <1>3, <1>10, <2>1 DEF Goes
<1> QED BY <1>6, <1>7, <1>8, <1>9, <1>10 DEF Next, RequestStep

LEMMA PublishStep ==
  ASSUME Inv, Next, NEW r \in Requests, req[r].pc # "open", req'[r].pc = "open"
  PROVE  IF req[r].review = None THEN req[r].profile \notin DOMAIN disk.profiles
         ELSE /\ req[r].profile \in DOMAIN disk.profiles
              /\ disk.profiles[req[r].profile].review = req[r].review
              /\ ~disk.profiles[req[r].profile].revoked
<1>1. Publish(r)
  BY OnlyPublishOpens
<1>2. ~Ends(r)
  BY RestOfTypes DEF Inv, Ends, Idle
<1> DEFINE m == Synced(req[r].home)
<1>3. StillTrusted(r, m)
  BY <1>1, <1>2 DEF Publish, SyncAndCheck
<1>4. req[r].home \in Daemons /\ Syncs(req[r].home)
  BY <1>1, <1>2, RequestFacts DEF Publish, SyncAndCheck
<1>5. m \in Stores /\ Sound(m) /\ m.disk = disk
  BY <1>4, SyncedFits
<1> HIDE DEF m
<1> QED BY <1>3, <1>5, PublishedFromLedger DEF StillTrusted, Receipts

(* Whatever any daemon sharing the directory decided while the vault was      *)
(* opened and the servers were started, a session is published only under a   *)
(* grant the ledger on disk holds at that moment, or with no receipt for its  *)
(* profile (open_session's last sync and check).                              *)
THEOREM PublicationIsUnderTrust == Spec => PublishedUnderLiveTrust
<1>1. ASSUME Inv, [Next]_vars
      PROVE  [\A r \in Requests : req[r].pc # "open" /\ req'[r].pc = "open" =>
                LET p == req[r].profile
                IN IF req[r].review = None THEN p \notin DOMAIN disk.profiles
                   ELSE /\ p \in DOMAIN disk.profiles
                        /\ disk.profiles[p].review = req[r].review
                        /\ ~disk.profiles[p].revoked]_vars
  BY <1>1, PublishStep
<1> QED BY <1>1, InvHolds, PTL DEF Spec, PublishedUnderLiveTrust

(* A daemon that has seen a ledger publishes nothing while the directory is   *)
(* gone or holds no ledger: that is the test TrustStore.sync begins with.     *)
THEOREM RemovalStopsPublication == Spec => NoPublicationWithoutLedger
<1>1. ASSUME Inv, [Next]_vars
      PROVE  [\A r \in Requests : req[r].pc # "open" /\ req'[r].pc = "open" =>
                (Store(r).disk.state = "ledger" => disk.state = "ledger")]_vars
  <2> SUFFICES ASSUME Next, NEW r \in Requests, req[r].pc # "open", req'[r].pc = "open",
                      Store(r).disk.state = "ledger"
               PROVE  disk.state = "ledger"
    BY <1>1
  <2>1. Publish(r)
    BY <1>1, OnlyPublishOpens
  <2>2. ~Ends(r)
    BY <1>1, RestOfTypes DEF Inv, Ends, Idle
  <2>3. SyncOk(store[req[r].home], disk)
    BY <2>1, <2>2 DEF Publish, SyncAndCheck, Syncs
  <2>4. disk.state \in {"absent", "bare", "ledger"}
    BY <1>1, RestOfTypes DEF Inv, Rest, Disks
  <2> QED BY <2>3, <2>4 DEF SyncOk, Store
<1> QED BY <1>1, InvHolds, PTL DEF Spec, NoPublicationWithoutLedger

(* No sequence of decisions brings to trust_disk::save a ledger above the     *)
(* limit: approve counts grants and revocations in memory, and by StoreAgrees *)
(* those are the receipts; an edit counts the receipts themselves.            *)
THEOREM SavesFit == Spec => []LedgerFits
<1>1. Inv => LedgerFits
  BY DEF Inv, RequestsKnow, Ready, Prepared, LedgerFits
<1> QED BY <1>1, InvHolds, PTL

-----------------------------------------------------------------------------
(* The ledger on disk and what was reviewed: the invariant.                *)

(* By history h, review id showed contents c of profile p. *)
Showed(h, id, p, c) ==
  id \in DOMAIN h /\ h[id].profile = p /\ h[id].contents = c

AsReviewed(h, f) ==
  \A p \in DOMAIN f : f[p].review \in Reviews => Showed(h, f[p].review, p, f[p].print)

StoreShown(h, m) ==
  /\ AsReviewed(h, Receipts(m))
  /\ \A id \in DOMAIN m.pending : Showed(h, id, m.pending[id].profile, m.pending[id].contents)

Attaches == {"loaded", "captured", "resynced", "attaching", "open"}

RequestShown(h, q) ==
  /\ q.pc = "looked" => q.review = None
  /\ q.pc \in Saving => AsReviewed(h, q.next)
  /\ q.pc \in Attaches /\ q.review # None =>
       /\ q.review \in DOMAIN h
       /\ h[q.review].profile = q.profile
       /\ h[q.review].contents.of[q.profile] = q.version

ShownInv ==
  /\ DOMAIN reviewed \subseteq issued
  /\ AsReviewed(reviewed, disk.profiles) /\ AsReviewed(reviewed, durable.profiles)
  /\ \A d \in Daemons : StoreShown(reviewed, store[d])
  /\ \A r \in Requests : RequestShown(reviewed, req[r])

(* A save that is going to write an approval. *)
Pens(q) == q.pc \in {"save", "made", "locked", "written"} /\ q.job = "approve"

SpendInv ==
  /\ dead \subseteq spent /\ spent \subseteq issued
  /\ Live(disk.profiles) \subseteq spent /\ Live(durable.profiles) \subseteq spent
  /\ \A d \in Daemons : \A id \in DOMAIN store[d].pending :
       /\ id \in issued \ spent
       /\ \A e \in Daemons : id \in DOMAIN store[e].pending => e = d
       /\ \A r \in Requests : Pens(req[r]) => req[r].review # id
  /\ \A r \in Requests : Pens(req[r]) =>
       /\ req[r].review \in issued \ spent
       /\ \A s \in Requests : Pens(req[s]) /\ req[s].review = req[r].review => s = r

(* A save that made the directory, and has not put a ledger in it. *)
Makes(q) == q.pc \in {"made", "locked", "written"} /\ q.created

SaveInv ==
  /\ disk.state # "ledger" => disk.profiles = Empty
  /\ durable.state # "ledger" => durable.profiles = Empty
  /\ \A r, s \in Requests : req[r].pc \in Flocked /\ req[s].pc \in Flocked => r = s
  /\ \A r, s \in Requests : Makes(req[r]) /\ Makes(req[s]) => r = s
  /\ \A r \in Requests : Makes(req[r]) => disk.state = "bare"
  /\ \A r \in Requests : req[r].pc \in {"made", "locked", "written"} => disk.state # "absent"
  /\ \A r \in Requests : req[r].pc = "written" =>
       /\ disk.profiles = Receipts(Store(r))
       /\ ~req[r].created => disk.state # "bare"
  /\ \A r \in Requests : req[r].pc = "renamed" =>
       disk.state = "ledger" /\ disk.profiles = req[r].next

LedgerInv == ShownInv /\ SpendInv /\ SaveInv /\ DecisionsSurvive

-----------------------------------------------------------------------------
(* The steps that touch neither the ledger nor a history.                  *)

(* A store drops reviews, and reads the ledger or forgets it. *)
Follows(m, n) ==
  /\ n.disk \in {m.disk, disk, NoDisk}
  /\ \A id \in DOMAIN n.pending :
       /\ id \in DOMAIN m.pending
       /\ n.pending[id].profile = m.pending[id].profile
       /\ n.pending[id].contents = m.pending[id].contents

(* A session goes on as it was, or begins with what the store m grants. *)
GoesOn(old, q) ==
  /\ old.pc \in Attaches
  /\ q.review = old.review /\ q.profile = old.profile /\ q.version = old.version
Granted(q, m) ==
  /\ q.profile \in DOMAIN m.grants
  /\ q.review = m.grants[q.profile].id /\ q.version = m.grants[q.profile].resolution
Attached(old, q, m) ==
  q.pc \in Attaches =>
    \/ GoesOn(old, q)
    \/ q.review # None /\ Granted(q, m)
    \/ q.review = None /\ q.version = config.of[q.profile]

(* A save moves on, or is prepared from the store. *)
Saved(r, old, q) ==
  /\ old.pc \in Saving /\ q.home = old.home /\ q.next = old.next /\ q.job = old.job
  /\ q.review = old.review /\ q.created = old.created
  /\ \/ old.pc = "made" /\ q.pc = "locked" /\ FlockFree
     \/ old.pc = "locked" /\ q.pc = "written" /\ SaveMatches(Store(r), disk, old.created)
Prepares(q, m, n) ==
  /\ q.pc = "save"
  /\ \/ /\ q.job = "approve" /\ q.review \in DOMAIN m.pending \ DOMAIN n.pending
        /\ q.next = ApprovedLedger(m, q.review)
     \/ q.job # "approve" /\ \E S : q.next = BlockedLedger(n, S)

Changes(r, old, q, m, n) ==
  /\ q.pc = "looked" => q.review = None
  /\ Attached(old, q, n)
  /\ q.pc \in Saving => Saved(r, old, q) \/ Prepares(q, m, n)
  /\ q.pc = "blocked" => q.scope = {}

Outcome(r, s) ==
  \/ req'[s] = req[s] \/ req'[s] = Idle
  \/ /\ s = r /\ req'[r].home \in Daemons
     /\ Changes(r, req[r], req'[r], store[req'[r].home], store'[req'[r].home])

Ordinary(r) ==
  /\ UNCHANGED <<disk, durable, issued, history>>
  /\ \A d \in Daemons : Follows(store[d], store'[d])
  /\ \A s \in Requests : Outcome(r, s)
  /\ \A s \in Requests : req'[s].pc \in Saving /\ req[s].pc \in Saving =>
       store'[req[s].home].disk = store[req[s].home].disk

LEMMA OneStore ==
  ASSUME Inv, NEW d \in Daemons, NEW m, Follows(store[d], m), store' = [store EXCEPT ![d] = m]
  PROVE  /\ store'[d] = m
         /\ \A e \in Daemons : e # d => store'[e] = store[e]
         /\ \A e \in Daemons : Follows(store[e], store'[e])
<1>1. store \in [Daemons -> Stores]
  BY RestOfTypes DEF Inv
<1>2. store'[d] = m /\ \A e \in Daemons : e # d => store'[e] = store[e]
  BY <1>1
<1>3. \A e \in Daemons : Follows(store[e], store[e])
  BY DEF Follows
<1> QED BY <1>2, <1>3

LEMMA OrdinaryMove ==
  ASSUME Inv, NEW r \in Requests, NEW d \in Daemons, NEW m, Follows(store[d], m),
         m.disk # store[d].disk => Alone(r, d),
         store' = [store EXCEPT ![d] = m],
         NEW q, req' = [req EXCEPT ![r] = q],
         q = Idle \/ (q.home = d /\ Changes(r, req[r], q, store[d], m)),
         q.pc \in Saving /\ req[r].pc \in Saving => q.home = req[r].home /\ m.disk = store[d].disk,
         UNCHANGED <<disk, durable, issued, history>>
  PROVE  Ordinary(r)
<1>1. /\ store'[d] = m /\ \A e \in Daemons : e # d => store'[e] = store[e]
      /\ \A e \in Daemons : Follows(store[e], store'[e])
  BY OneStore
<1>2. req'[r] = q /\ \A s \in Requests : s # r => req'[s] = req[s]
  BY RestOfTypes DEF Inv
<1>3. ASSUME NEW s \in Requests PROVE Outcome(r, s)
  <2>1. CASE s # r
    BY <1>2, <2>1 DEF Outcome
  <2>2. CASE s = r
    BY <1>1, <1>2, <2>2 DEF Outcome
  <2> QED BY <2>1, <2>2
<1>4. ASSUME NEW s \in Requests, req'[s].pc \in Saving, req[s].pc \in Saving
      PROVE  store'[req[s].home].disk = store[req[s].home].disk
  <2>1. req[s].home \in Daemons
    BY <1>4, RequestFacts DEF Saving
  <2>2. CASE req[s].home # d
    BY <1>1, <2>1, <2>2
  <2>3. CASE req[s].home = d /\ s # r
    <3>1. ~Alone(r, d)
      BY <1>4, <2>3 DEF Alone, Holding
    <3> QED BY <1>1, <2>3, <3>1
  <2>4. CASE req[s].home = d /\ s = r
    BY <1>1, <1>2, <1>4, <2>4 DEF Idle, Saving
  <2> QED BY <2>2, <2>3, <2>4
<1> QED BY <1>1, <1>3, <1>4 DEF Ordinary

(* A sync reads the ledger; nobody else is in the mutex. *)
LEMMA SyncFollows ==
  ASSUME Inv, NEW d \in Daemons, Syncs(d)
  PROVE  /\ Follows(store[d], Synced(d)) /\ Synced(d).disk = disk
         /\ Synced(d).pending = store[d].pending
         /\ Synced(d) \in Stores /\ Sound(Synced(d))
         /\ store' = [store EXCEPT ![d] = Synced(d)]
<1>1. Synced(d) \in Stores /\ Sound(Synced(d)) /\ Synced(d).disk = disk
  BY SyncedFits
<1>2. store[d] \in Stores
  BY DaemonFacts
<1>3. Synced(d).pending = store[d].pending
  BY <1>2 DEF Synced, Sync, Stores
<1> QED BY <1>1, <1>3 DEF Follows, Syncs

LEMMA SameFollows ==
  ASSUME Inv, NEW d \in Daemons, UNCHANGED store
  PROVE  Follows(store[d], store[d]) /\ store' = [store EXCEPT ![d] = store[d]]
<1>1. store \in [Daemons -> Stores]
  BY RestOfTypes DEF Inv
<1> QED BY <1>1 DEF Follows

(* The store a request leaves: it synced inside the mutex, or did nothing. *)
Reads(r) ==
  \/ UNCHANGED store
  \/ Syncs(req[r].home) /\ (req[r].pc \in Holding \/ MutexFree(req[r].home))

LEMMA ReadsFollow ==
  ASSUME Inv, NEW r \in Requests, req[r].pc # "idle", Reads(r)
  PROVE  /\ req[r].home \in Daemons
         /\ \E m : /\ Follows(store[req[r].home], m)
                   /\ m.disk # store[req[r].home].disk => Alone(r, req[r].home)
                   /\ store' = [store EXCEPT ![req[r].home] = m]
<1> PICK d \in Daemons : d = req[r].home
  BY RequestFacts
<1>1. CASE UNCHANGED store
  BY <1>1, SameFollows
<1>2. CASE Syncs(d) /\ (req[r].pc \in Holding \/ MutexFree(d))
  BY <1>2, SyncFollows, RequestFacts
<1> QED BY <1>1, <1>2 DEF Reads

LEMMA EndsOrdinary ==
  ASSUME Inv, NEW r \in Requests, req[r].pc # "idle", Ends(r), Reads(r),
         UNCHANGED <<disk, durable, issued, history>>
  PROVE  Ordinary(r)
<1> PICK d \in Daemons : d = req[r].home
  BY RequestFacts
<1>1. PICK m : /\ Follows(store[d], m)
               /\ m.disk # store[d].disk => Alone(r, d)
               /\ store' = [store EXCEPT ![d] = m]
  BY ReadsFollow
<1> PICK q : q = Idle
  OBVIOUS
<1>2. q.pc \notin Saving
  BY DEF Idle, Saving
<1>3. req' = [req EXCEPT ![r] = q]
  BY DEF Ends
<1> QED BY <1>1, <1>2, <1>3, OrdinaryMove

LEMMA GoesOrdinary ==
  ASSUME Inv, NEW r \in Requests, req[r].pc # "idle", NEW pc, Goes(r, pc), Reads(r),
         pc \notin Saving \cup {"looked"},
         pc \in Attaches => req[r].pc \in Attaches,
         pc = "blocked" => req[r].scope = {},
         UNCHANGED <<disk, durable, issued, history>>
  PROVE  Ordinary(r)
<1> PICK d \in Daemons : d = req[r].home
  BY RequestFacts
<1>1. PICK m : /\ Follows(store[d], m)
               /\ m.disk # store[d].disk => Alone(r, d)
               /\ store' = [store EXCEPT ![d] = m]
  BY ReadsFollow
<1> PICK old \in RequestType : old = req[r]
  BY RequestFacts
<1> PICK q : q = [old EXCEPT !.pc = pc]
  OBVIOUS
<1>2. /\ q.pc = pc /\ q.home = d /\ q.review = old.review /\ q.profile = old.profile
      /\ q.version = old.version /\ q.scope = old.scope
  BY DEF RequestType
<1>3. Changes(r, req[r], q, store[d], m)
  BY <1>2 DEF Changes, Attached, GoesOn
<1>4. req' = [req EXCEPT ![r] = q]
  BY DEF Goes
<1>5. q.pc \notin Saving
  BY <1>2
<1> QED BY <1>1, <1>2, <1>3, <1>4, <1>5, OrdinaryMove

LEMMA StartsOrdinary ==
  ASSUME Inv, NEW r \in Requests, NEW d \in Daemons, NEW kind, NEW q, Starts(r, kind, q), q.home = d,
         q.pc \notin Attaches \cup Saving \cup {"looked", "blocked"},
         UNCHANGED store \/ (Syncs(d) /\ MutexFree(d)),
         UNCHANGED <<disk, durable, issued, history>>
  PROVE  Ordinary(r)
<1>1. Changes(r, req[r], q, store[d], store'[d])
  BY DEF Changes, Attached
<1>2. req' = [req EXCEPT ![r] = q]
  BY DEF Starts
<1>3. MutexFree(d) => Alone(r, d)
  BY DEF MutexFree, Alone
<1>4. CASE UNCHANGED store
  <2>1. Follows(store[d], store[d]) /\ store' = [store EXCEPT ![d] = store[d]]
    BY <1>4, SameFollows
  <2> PICK m : m = store[d]
    OBVIOUS
  <2>2. Changes(r, req[r], q, store[d], m) /\ m.disk = store[d].disk
    BY <1>1, <1>4
  <2> QED BY <1>2, <2>1, <2>2, OrdinaryMove
<1>5. CASE Syncs(d) /\ MutexFree(d)
  <2> PICK m : m = Synced(d)
    OBVIOUS
  <2>1. Follows(store[d], m) /\ store' = [store EXCEPT ![d] = m]
    BY <1>5, SyncFollows
  <2>2. store'[d] = m
    BY <2>1, RestOfTypes DEF Inv
  <2> QED BY <1>1, <1>2, <1>3, <1>5, <2>1, <2>2, OrdinaryMove
<1> QED BY <1>4, <1>5

LEMMA LookupOrdinary ==
  ASSUME Inv, NEW r \in Requests, NEW d \in Daemons, NEW p \in Profiles, Lookup(r, d, p)
  PROVE  Ordinary(r)
<1> PICK m : m = Synced(d)
  OBVIOUS
<1> PICK pc : pc = IF p \in DOMAIN m.grants THEN "loaded" ELSE "looked"
  OBVIOUS
<1> PICK id : id = ApprovedId(m, p)
  OBVIOUS
<1> PICK v : v = IF p \in DOMAIN m.grants THEN m.grants[p].resolution ELSE None
  OBVIOUS
<1> PICK q : q = [Idle EXCEPT !.pc = pc, !.home = d, !.profile = p, !.review = id, !.version = v]
  OBVIOUS
<1>1. /\ MutexFree(d) /\ req' = [req EXCEPT ![r] = q]
      /\ UNCHANGED <<disk, durable, issued, history>>
  BY DEF Lookup, Starts, files
<1>2. Follows(store[d], m) /\ m \in Stores /\ store' = [store EXCEPT ![d] = m]
  BY SyncFollows DEF Lookup
<1>3. q.pc = pc /\ q.home = d /\ q.profile = p /\ q.review = id /\ q.version = v
  BY DEF Idle
<1>4. Changes(r, req[r], q, store[d], m)
  <2>1. CASE p \in DOMAIN m.grants
    <3>1. id = m.grants[p].id /\ id # None
      BY <1>2, <2>1, StoreFacts, GrantFacts, NoneIsNoReview DEF ApprovedId
    <3> QED BY <1>3, <2>1, <3>1 DEF Changes, Attached, Granted, Saving
  <2>2. CASE p \notin DOMAIN m.grants
    BY <1>3, <2>2 DEF Changes, Attached, Attaches, Saving, ApprovedId
  <2> QED BY <2>1, <2>2
<1>5. Alone(r, d) /\ q.pc \notin Saving
  BY <1>1, <1>3 DEF MutexFree, Alone, Saving
<1> QED BY <1>1, <1>2, <1>3, <1>4, <1>5, OrdinaryMove

LEMMA LoadProfileOrdinary ==
  ASSUME Inv, ShownInv, NEW r \in Requests, LoadProfile(r)
  PROVE  Ordinary(r)
<1> PICK d \in Daemons : d = req[r].home
  BY RequestFacts DEF LoadProfile
<1> PICK v : v = config.of[req[r].profile]
  OBVIOUS
<1> PICK old \in RequestType : old = req[r]
  BY RequestFacts
<1> PICK q : q = [old EXCEPT !.pc = "loaded", !.version = v]
  OBVIOUS
<1> PICK m : m = store[d]
  OBVIOUS
<1>1. old.review = None
  BY DEF LoadProfile, ShownInv, RequestShown
<1>2. q.pc = "loaded" /\ q.home = d /\ q.review = None /\ q.profile = old.profile /\ q.version = v
  BY <1>1 DEF RequestType
<1>3. Changes(r, req[r], q, store[d], m)
  BY <1>2 DEF Changes, Attached, Saving
<1>4. req' = [req EXCEPT ![r] = q] /\ UNCHANGED <<disk, durable, issued, history>>
  BY DEF LoadProfile, files
<1>5. Follows(store[d], m) /\ store' = [store EXCEPT ![d] = m]
  BY SameFollows DEF LoadProfile
<1>6. q.pc \notin Saving
  BY <1>2 DEF Saving
<1> QED BY <1>2, <1>3, <1>4, <1>5, <1>6, OrdinaryMove

LEMMA OpeningOrdinary ==
  ASSUME Inv, NEW r \in Requests,
         Capture(r) \/ Resync(r) \/ BeginAttach(r) \/ Publish(r) \/ GiveUp(r) \/ Discover(r)
  PROVE  Ordinary(r)
<1>1. /\ req[r].pc # "idle" /\ UNCHANGED <<disk, durable, issued, history>>
      /\ req[r].pc \in Holding \/ MutexFree(req[r].home) \/ GiveUp(r)
  BY DEF Capture, Resync, BeginAttach, Publish, GiveUp, Discover, files, Holding
<1>2. CASE Ends(r) /\ Reads(r)
  BY <1>1, <1>2, EndsOrdinary
<1>3. CASE /\ Reads(r)
           /\ \E pc \in {"captured", "resynced", "attaching", "open"} :
                req[r].pc \in Attaches /\ Goes(r, pc)
  <2> PICK pc \in {"captured", "resynced", "attaching", "open"} :
         req[r].pc \in Attaches /\ Goes(r, pc)
    BY <1>3
  <2>1. pc \notin Saving \cup {"looked"} /\ pc # "blocked"
    BY DEF Saving
  <2> QED BY <1>1, <1>3, <2>1, GoesOrdinary
<1>4. CASE Reads(r) /\ Goes(r, "discovered")
  <2>1. "discovered" \notin Saving \cup {"looked"} \cup Attaches
    BY DEF Saving, Attaches
  <2> QED BY <1>1, <1>4, <2>1, GoesOrdinary
<1>5. CASE Capture(r)
  BY <1>1, <1>2, <1>3, <1>5 DEF Capture, SyncAndCheck, Reads, Attaches, Holding
<1>6. CASE Resync(r)
  BY <1>1, <1>2, <1>3, <1>6 DEF Resync, Reads, Attaches
<1>7. CASE BeginAttach(r)
  BY <1>1, <1>2, <1>3, <1>7 DEF BeginAttach, Reads, Attaches
<1>8. CASE Publish(r)
  BY <1>1, <1>2, <1>3, <1>8 DEF Publish, SyncAndCheck, Reads, Attaches
<1>9. CASE GiveUp(r)
  BY <1>1, <1>2, <1>9 DEF GiveUp, Reads
<1>10. CASE Discover(r)
  BY <1>1, <1>2, <1>4, <1>10 DEF Discover, Reads
<1> QED BY <1>5, <1>6, <1>7, <1>8, <1>9, <1>10

LEMMA ArrivalOrdinary ==
  ASSUME Inv, NEW r \in Requests, NEW d \in Daemons,
         \/ \E p \in Profiles : Inspect(r, d, p) \/ DecideRevoke(r, d, p)
         \/ \E id \in Reviews : DecideApprove(r, d, id) \/ DecideCancel(r, d, id)
         \/ \E scope \in Scopes : BeginEdit(r, d, scope)
  PROVE  Ordinary(r)
<1>1. UNCHANGED <<disk, durable, issued, history>>
  BY DEF Inspect, DecideRevoke, DecideApprove, DecideCancel, Decide, BeginEdit, files
<1>2. PICK kind, q :
        /\ Starts(r, kind, q) /\ q.home = d
        /\ q.pc \in {"inspected", "revoking", "approving", "cancelling", "editing"}
        /\ UNCHANGED store \/ (Syncs(d) /\ MutexFree(d))
  <2>1. ASSUME NEW p \in Profiles, Inspect(r, d, p)
        PROVE  \E kind, q : /\ Starts(r, kind, q) /\ q.home = d
                            /\ q.pc \in {"inspected", "revoking", "approving", "cancelling", "editing"}
                            /\ UNCHANGED store \/ (Syncs(d) /\ MutexFree(d))
    <3> PICK c : c = config
      OBVIOUS
    <3> DEFINE q == [Idle EXCEPT !.pc = "inspected", !.home = d, !.profile = p, !.seen = c]
    <3>1. Starts(r, "review", q) /\ UNCHANGED store
      BY <2>1 DEF Inspect
    <3>2. q.home = d /\ q.pc = "inspected"
      BY DEF Idle
    <3> HIDE DEF q
    <3> QED BY <3>1, <3>2
  <2>2. ASSUME NEW q, NEW kind, Decide(r, kind, q), q.home = d,
               q.pc \in {"revoking", "approving", "cancelling"}
        PROVE  /\ Starts(r, kind, q) /\ q.home = d
               /\ q.pc \in {"inspected", "revoking", "approving", "cancelling", "editing"}
               /\ UNCHANGED store \/ (Syncs(d) /\ MutexFree(d))
    BY <2>2 DEF Decide
  <2>3. ASSUME NEW p \in Profiles, DecideRevoke(r, d, p)
        PROVE  \E q : Decide(r, "revoke", q) /\ q.home = d /\ q.pc = "revoking"
    <3> DEFINE q == [Idle EXCEPT !.pc = "revoking", !.home = d, !.profile = p]
    <3>1. Decide(r, "revoke", q)
      BY <2>3 DEF DecideRevoke
    <3>2. q.home = d /\ q.pc = "revoking"
      BY DEF Idle
    <3> HIDE DEF q
    <3> QED BY <3>1, <3>2
  <2>4. ASSUME NEW id \in Reviews, DecideApprove(r, d, id) \/ DecideCancel(r, d, id)
        PROVE  \E q, kind : Decide(r, kind, q) /\ q.home = d /\ q.pc \in {"approving", "cancelling"}
    <3> DEFINE a == [Idle EXCEPT !.pc = "approving", !.home = d, !.review = id]
               c == [Idle EXCEPT !.pc = "cancelling", !.home = d, !.review = id]
    <3>1. Decide(r, "approve", a) \/ Decide(r, "cancel", c)
      BY <2>4 DEF DecideApprove, DecideCancel
    <3>2. /\ a.home = d /\ a.pc = "approving"
          /\ c.home = d /\ c.pc = "cancelling"
      BY DEF Idle
    <3> HIDE DEF a, c
    <3> QED BY <3>1, <3>2
  <2>5. ASSUME NEW scope \in Scopes, BeginEdit(r, d, scope)
        PROVE  \E kind, q : /\ Starts(r, kind, q) /\ q.home = d
                            /\ q.pc \in {"inspected", "revoking", "approving", "cancelling", "editing"}
                            /\ UNCHANGED store \/ (Syncs(d) /\ MutexFree(d))
    <3> PICK c : c = config
      OBVIOUS
    <3> DEFINE q == [Idle EXCEPT !.pc = "editing", !.home = d, !.job = "edit", !.scope = scope, !.seen = c]
    <3>1. Starts(r, "edit", q) /\ UNCHANGED store
      BY <2>5 DEF BeginEdit
    <3>2. q.home = d /\ q.pc = "editing"
      BY DEF Idle
    <3> HIDE DEF q
    <3> QED BY <3>1, <3>2
  <2> QED BY <2>1, <2>2, <2>3, <2>4, <2>5
<1>3. q.pc \notin Attaches \cup Saving \cup {"looked", "blocked"}
  BY <1>2 DEF Attaches, Saving
<1> QED BY <1>1, <1>2, <1>3, StartsOrdinary

LEMMA CancelFollows ==
  ASSUME NEW m, NEW id, NEW n, n = Cancel(m, id), m \in Stores
  PROVE  Follows(m, n) /\ n.disk = m.disk /\ id \notin DOMAIN n.pending
<1> PICK f : f = Without(m.pending, {id})
  OBVIOUS
<1>1. n.pending = f /\ n.disk = m.disk
  BY DEF Cancel, Stores
<1>2. /\ DOMAIN f = DOMAIN m.pending \ {id}
      /\ \A x \in DOMAIN f : f[x] = m.pending[x]
  BY DEF Without
<1> QED BY <1>1, <1>2 DEF Follows

LEMMA ReviewOrdinary ==
  ASSUME Inv, NEW r \in Requests, CancelReview(r) \/ Approve(r)
  PROVE  Ordinary(r)
<1> PICK d \in Daemons : d = req[r].home
  BY RequestFacts DEF CancelReview, Approve
<1> PICK old \in RequestType : old = req[r]
  BY RequestFacts
<1> PICK m \in Stores : m = store[d]
  BY DaemonFacts
<1> PICK id : id = old.review
  OBVIOUS
<1> PICK n : n = Cancel(m, id)
  OBVIOUS
<1>1. /\ store' = [store EXCEPT ![d] = n] /\ UNCHANGED <<disk, durable, issued, history>>
      /\ req[r].pc \notin Saving
  BY DEF CancelReview, Approve, SetStore, Store, files, Saving
<1>2. Follows(store[d], n) /\ n.disk = store[d].disk /\ id \notin DOMAIN n.pending
  BY CancelFollows
<1>3. CASE Ends(r)
  <2> PICK q : q = Idle
    OBVIOUS
  <2>1. req' = [req EXCEPT ![r] = q]
    BY <1>3 DEF Ends
  <2> QED BY <1>1, <1>2, <2>1, OrdinaryMove
<1>4. CASE ~Ends(r)
  <2> PICK q : q = Approving(old, m, id)
    OBVIOUS
  <2>1. req' = [req EXCEPT ![r] = q] /\ id \in DOMAIN m.pending
    BY <1>4 DEF Approve, Approvable, CancelReview, Approving, Store
  <2>2. /\ q.pc = "save" /\ q.job = "approve" /\ q.review = id /\ q.home = d
        /\ q.next = ApprovedLedger(m, id)
    BY DEF Approving, RequestType
  <2>3. Changes(r, req[r], q, store[d], n)
    BY <1>2, <2>1, <2>2 DEF Changes, Attached, Attaches, Prepares
  <2> QED BY <1>1, <1>2, <2>1, <2>2, <2>3, OrdinaryMove
<1> QED BY <1>3, <1>4

LEMMA BlockOrdinary ==
  ASSUME Inv, NEW r \in Requests, Revoke(r) \/ BlockForEdit(r)
  PROVE  Ordinary(r)
<1> PICK d \in Daemons : d = req[r].home
  BY RequestFacts DEF Revoke, BlockForEdit
<1> PICK old \in RequestType : old = req[r]
  BY RequestFacts
<1>1. /\ UNCHANGED <<disk, durable, issued, history>> /\ req[r].pc # "idle"
      /\ req[r].pc \notin Saving
      /\ req[r].pc \in Holding \/ MutexFree(d)
      /\ BlockForEdit(r) => old.job = "edit"
  BY RequestFacts DEF Revoke, BlockForEdit, files, Saving, Holding, Editing, Knows
<1>2. CASE Ends(r) /\ Reads(r)
  BY <1>1, <1>2, EndsOrdinary
<1>3. CASE Goes(r, "blocked") /\ Reads(r) /\ old.scope = {}
  <2>1. "blocked" \notin Saving \cup {"looked"} \cup Attaches
    BY DEF Saving, Attaches
  <2> QED BY <1>1, <1>3, <2>1, GoesOrdinary
<1>4. ASSUME NEW m, NEW S, NEW job \in {"revoke", "edit"}, NEW q, q = Blocking(old, m, S, job),
             req' = [req EXCEPT ![r] = q], store' = [store EXCEPT ![d] = m],
             Follows(store[d], m)
      PROVE  Ordinary(r)
  <2> PICK L : L = BlockedLedger(m, S)
    OBVIOUS
  <2>1. q.pc = "save" /\ q.job = job /\ q.home = d /\ q.next = L
    BY <1>4 DEF Blocking, RequestType
  <2>2. Changes(r, req[r], q, store[d], m)
    BY <2>1 DEF Changes, Attached, Attaches, Prepares
  <2>3. Alone(r, d)
    BY <1>1, RequestFacts
  <2> QED BY <1>1, <1>4, <2>1, <2>2, <2>3, OrdinaryMove
<1>5. CASE Revoke(r)
  <2>1. CASE Ends(r)
    BY <1>2, <1>5, <2>1 DEF Revoke, Reads
  <2>2. CASE ~Ends(r)
    <3> PICK S : S = {old.profile}
      OBVIOUS
    <3> PICK m : m = store[d]
      OBVIOUS
    <3>1. req' = [req EXCEPT ![r] = Blocking(old, m, S, "revoke")] /\ UNCHANGED store
      BY <1>5, <2>2 DEF Revoke, Store, Blocking
    <3>2. Follows(store[d], m) /\ store' = [store EXCEPT ![d] = m]
      BY <3>1, SameFollows
    <3> QED BY <1>4, <3>1, <3>2
  <2> QED BY <2>1, <2>2
<1>6. CASE BlockForEdit(r)
  <2>1. CASE Ends(r)
    BY <1>1, <1>2, <1>6, <2>1 DEF BlockForEdit, Reads
  <2>2. CASE Goes(r, "blocked") /\ old.scope = {}
    BY <1>1, <1>3, <1>6, <2>2 DEF BlockForEdit, Reads
  <2>3. CASE ~Ends(r) /\ ~(Goes(r, "blocked") /\ old.scope = {})
    <3> PICK S : S = old.scope
      OBVIOUS
    <3> PICK m : m = Synced(d)
      OBVIOUS
    <3>1. /\ Syncs(d)
          /\ req' = [req EXCEPT ![r] = [old EXCEPT !.pc = "save", !.next = BlockedLedger(m, S)]]
      BY <1>6, <2>3 DEF BlockForEdit
    <3>2. req' = [req EXCEPT ![r] = Blocking(old, m, S, "edit")]
      BY <1>1, <1>6, <3>1, EditPrepares
    <3>3. Follows(store[d], m) /\ store' = [store EXCEPT ![d] = m]
      BY <3>1, SyncFollows
    <3> QED BY <1>4, <3>2, <3>3
  <2> QED BY <2>1, <2>2, <2>3
<1> QED BY <1>5, <1>6

LEMMA SaveOrdinary ==
  ASSUME Inv, NEW r \in Requests, TakeLock(r) \/ Compare(r) \/ SaveFails(r) \/ WriteConfig(r)
  PROVE  Ordinary(r)
<1> PICK d \in Daemons : d = req[r].home
  BY RequestFacts DEF TakeLock, Compare, SaveFails, WriteConfig, Saving
<1> PICK old \in RequestType : old = req[r]
  BY RequestFacts
<1>1. /\ UNCHANGED <<disk, durable, issued, history>> /\ UNCHANGED store /\ req[r].pc # "idle"
  BY DEF TakeLock, Compare, SaveFails, WriteConfig, files, Saving
<1>2. CASE Ends(r)
  BY <1>1, <1>2, EndsOrdinary DEF Reads
<1>3. ASSUME NEW pc, Goes(r, pc),
             \/ old.pc = "made" /\ pc = "locked" /\ FlockFree
             \/ old.pc = "locked" /\ pc = "written" /\ SaveMatches(Store(r), disk, old.created)
      PROVE  Ordinary(r)
  <2> PICK q : q = [old EXCEPT !.pc = pc]
    OBVIOUS
  <2> PICK m : m = store[d]
    OBVIOUS
  <2>1. /\ q.pc = pc /\ q.home = d /\ q.next = old.next /\ q.job = old.job
        /\ q.review = old.review /\ q.created = old.created
    BY DEF RequestType
  <2>2. /\ pc \in Saving /\ old.pc \in Saving /\ pc \notin Attaches /\ pc # "looked"
        /\ pc # "blocked"
    BY <1>3 DEF Saving, Attaches
  <2>3. Changes(r, req[r], q, store[d], m)
    BY <1>3, <2>1, <2>2 DEF Changes, Attached, Saved
  <2>4. Follows(store[d], m) /\ store' = [store EXCEPT ![d] = m]
    BY <1>1, SameFollows
  <2>5. req' = [req EXCEPT ![r] = q]
    BY <1>3 DEF Goes
  <2> QED BY <1>1, <2>1, <2>3, <2>4, <2>5, OrdinaryMove
<1> QED BY <1>2, <1>3 DEF TakeLock, Compare, SaveFails, WriteConfig

LEMMA EnvironmentOrdinary ==
  ASSUME Inv, NEW r,
         \/ \E d \in Daemons, id \in Reviews : ReviewExpires(d, id)
         \/ \E d \in Daemons : ListTrust(d) \/ DaemonCrash(d)
         \/ OutsideEdit
  PROVE  Ordinary(r)
<1>1. UNCHANGED <<disk, durable, issued, history>>
  BY DEF ReviewExpires, ListTrust, DaemonCrash, OutsideEdit, files
<1>2. store \in [Daemons -> Stores] /\ req \in [Requests -> RequestType]
  BY RestOfTypes DEF Inv
<1>3. ASSUME NEW d \in Daemons, NEW m, Follows(store[d], m), store' = [store EXCEPT ![d] = m],
             UNCHANGED req, m.disk # store[d].disk => MutexFree(d)
      PROVE  Ordinary(r)
  <2>1. /\ store'[d] = m /\ \A e \in Daemons : e # d => store'[e] = store[e]
        /\ \A e \in Daemons : Follows(store[e], store'[e])
    BY <1>3, OneStore
  <2>2. ASSUME NEW s \in Requests, req[s].pc \in Saving
        PROVE  store'[req[s].home].disk = store[req[s].home].disk
    <3>1. req[s].home \in Daemons /\ req[s].pc \in Holding
      BY <2>2, RequestFacts DEF Saving, Holding
    <3> QED BY <1>3, <2>1, <3>1 DEF MutexFree
  <2> QED BY <1>1, <1>3, <2>1, <2>2 DEF Ordinary, Outcome
<1>4. ASSUME NEW d \in Daemons, NEW id \in Reviews, ReviewExpires(d, id) PROVE Ordinary(r)
  <2> PICK m \in Stores : m = store[d]
    BY <1>2
  <2> PICK f : f = m.pending
    OBVIOUS
  <2> DEFINE g == [f EXCEPT ![id] = [f[id] EXCEPT !.expired = TRUE]]
             n == Expire(m, id)
  <2>1. id \in DOMAIN f /\ \A x \in DOMAIN f : f[x] \in [profile : Profiles, contents : Configs, expired : BOOLEAN]
    BY <1>4, StoreFacts, PendingFacts DEF ReviewExpires
  <2>2. n.pending = g /\ n.disk = m.disk
    BY DEF Expire, Stores
  <2>3. /\ DOMAIN g = DOMAIN f
        /\ \A x \in DOMAIN f : g[x].profile = f[x].profile /\ g[x].contents = f[x].contents
    BY <2>1
  <2> HIDE DEF g
  <2>4. Follows(m, n)
    BY <2>2, <2>3 DEF Follows
  <2>5. store' = [store EXCEPT ![d] = n] /\ UNCHANGED req
    BY <1>4 DEF ReviewExpires
  <2> HIDE DEF n
  <2> QED BY <1>3, <2>2, <2>4, <2>5
<1>5. ASSUME NEW d \in Daemons, ListTrust(d) PROVE Ordinary(r)
  <2> PICK m : m = Synced(d)
    OBVIOUS
  <2>1. Follows(store[d], m) /\ store' = [store EXCEPT ![d] = m] /\ UNCHANGED req /\ MutexFree(d)
    BY <1>5, SyncFollows DEF ListTrust
  <2> QED BY <1>3, <2>1
<1>6. ASSUME NEW d \in Daemons, DaemonCrash(d) PROVE Ordinary(r)
  <2> PICK n : n = NewStore
    OBVIOUS
  <2>1. n.disk = NoDisk /\ DOMAIN n.pending = {}
    BY EmptyPartial DEF NewStore
  <2>2. store' = [store EXCEPT ![d] = n] /\ Follows(store[d], n)
    BY <1>6, <2>1 DEF DaemonCrash, Follows
  <2>3. /\ \A e \in Daemons : e # d => store'[e] = store[e]
        /\ \A e \in Daemons : Follows(store[e], store'[e])
    BY <2>2, OneStore
  <2>4. \A s \in Requests : req'[s] = IF req[s].home \in {d} THEN Idle ELSE req[s]
    BY <1>6 DEF DaemonCrash, Fallen
  <2>5. ASSUME NEW s \in Requests, req'[s].pc \in Saving, req[s].pc \in Saving
        PROVE  store'[req[s].home].disk = store[req[s].home].disk
    <3>1. req[s].home \in Daemons /\ req[s].home # d
      BY <2>4, <2>5, RequestFacts DEF Saving, Idle
    <3> QED BY <2>3, <3>1
  <2> QED BY <1>1, <2>3, <2>4, <2>5 DEF Ordinary, Outcome
<1>7. CASE OutsideEdit
  <2>1. UNCHANGED <<store, req>> /\ \A d \in Daemons : Follows(store[d], store[d])
    BY <1>7 DEF OutsideEdit, Follows
  <2> QED BY <1>1, <2>1 DEF Ordinary, Outcome
<1> QED BY <1>4, <1>5, <1>6, <1>7

-----------------------------------------------------------------------------
(* Such a step keeps what receipts and reviews say.                        *)

LEMMA NothingToShow ==
  ASSUME NEW h
  PROVE  AsReviewed(h, Empty) /\ Live(Empty) = {}
  BY EmptyPartial DEF AsReviewed, Live

LEMMA ApprovedShown ==
  ASSUME NEW h, NEW m, StoreShown(h, m), NEW id \in DOMAIN m.pending
  PROVE  AsReviewed(h, ApprovedLedger(m, id))
<1> PICK review : review = m.pending[id]
  OBVIOUS
<1> PICK p : p = review.profile
  OBVIOUS
<1> PICK R : R = [review |-> id, revoked |-> FALSE, print |-> review.contents]
  OBVIOUS
<1> PICK L : L = ApprovedLedger(m, id)
  OBVIOUS
<1>1. /\ DOMAIN L = DOMAIN Receipts(m) \cup {p} /\ L[p] = R
      /\ \A z \in DOMAIN Receipts(m) \ {p} : L[z] = Receipts(m)[z]
  BY DEF ApprovedLedger, Put
<1>2. Showed(h, id, p, review.contents) /\ R.review = id /\ R.print = review.contents
  BY DEF StoreShown
<1>3. AsReviewed(h, Receipts(m))
  BY DEF StoreShown
<1> QED BY <1>1, <1>2, <1>3 DEF AsReviewed

LEMMA BlockedShown ==
  ASSUME NEW h, NEW m \in Stores, StoreShown(h, m), NEW S
  PROVE  AsReviewed(h, BlockedLedger(m, S))
<1> PICK L : L = BlockedLedger(m, S)
  OBVIOUS
<1>1. /\ DOMAIN L = DOMAIN Receipts(m) \cup S
      /\ \A p \in DOMAIN L : L[p] = IF p \notin S THEN Receipts(m)[p]
           ELSE IF p \in DOMAIN Receipts(m) THEN [Receipts(m)[p] EXCEPT !.revoked = TRUE]
           ELSE BlockReceipt
  BY DEF BlockedLedger
<1> SUFFICES ASSUME NEW p \in DOMAIN L, L[p].review \in Reviews
             PROVE  Showed(h, L[p].review, p, L[p].print)
  BY DEF AsReviewed
<1>2. p \in DOMAIN Receipts(m)
  <2> SUFFICES ASSUME p \notin DOMAIN Receipts(m) PROVE FALSE
    OBVIOUS
  <2>1. L[p] = BlockReceipt
    BY <1>1
  <2>2. L[p].review = None
    BY <2>1 DEF BlockReceipt
  <2> QED BY <2>2, NoneIsNoReview
<1>3. Receipts(m)[p] \in ReceiptType
  BY <1>2, StoreFacts, LedgerFacts
<1>4. L[p].review = Receipts(m)[p].review /\ L[p].print = Receipts(m)[p].print
  <2> PICK old \in ReceiptType : old = Receipts(m)[p]
    BY <1>3
  <2>1. L[p] = old \/ L[p] = [old EXCEPT !.revoked = TRUE]
    BY <1>1, <1>2
  <2> QED BY <2>1 DEF ReceiptType, BlockReceipt
<1> QED BY <1>2, <1>4 DEF StoreShown, AsReviewed

LEMMA GrantShown ==
  ASSUME NEW h, NEW m \in Stores, Sound(m), StoreShown(h, m), NEW q, Granted(q, m)
  PROVE  /\ q.review \in DOMAIN h
         /\ h[q.review].profile = q.profile
         /\ h[q.review].contents.of[q.profile] = q.version
<1> PICK p \in DOMAIN m.grants : p = q.profile
  BY DEF Granted
<1> PICK R : R = Receipts(m)[p]
  OBVIOUS
<1>1. m.grants[p].id \in Reviews
  BY StoreFacts, GrantFacts
<1>2. /\ p \in DOMAIN Receipts(m) /\ m.grants[p].id = R.review
      /\ m.grants[p].resolution = R.print.of[p]
  BY DEF Sound, Agrees
<1>3. Showed(h, R.review, p, R.print)
  BY <1>1, <1>2 DEF StoreShown, AsReviewed
<1> QED BY <1>2, <1>3 DEF Showed, Granted

LEMMA ShownKept ==
  ASSUME Inv, Inv', ShownInv, NEW r, Ordinary(r)
  PROVE  ShownInv'
<1>1. UNCHANGED <<disk, durable, issued, reviewed>>
  BY DEF Ordinary, history
<1> PICK h : h = reviewed
  OBVIOUS
<1>2. ASSUME NEW d \in Daemons PROVE StoreShown(h, store'[d])
  <2>1. StoreShown(h, store[d]) /\ Follows(store[d], store'[d])
    BY DEF ShownInv, Ordinary
  <2>2. AsReviewed(h, store'[d].disk.profiles)
    <3>1. AsReviewed(h, NoDisk.profiles)
      BY NothingToShow DEF NoDisk
    <3> QED BY <2>1, <3>1 DEF Follows, StoreShown, Receipts, ShownInv
  <2> QED BY <2>1, <2>2 DEF Follows, StoreShown, Receipts
<1>3. ASSUME NEW s \in Requests PROVE RequestShown(h, req'[s])
  <2>1. RequestShown(h, req[s]) /\ Outcome(r, s)
    BY DEF ShownInv, Ordinary
  <2>2. CASE req'[s] = req[s]
    BY <2>1, <2>2
  <2>3. CASE req'[s] = Idle
    BY <2>3 DEF RequestShown, Idle, Saving, Attaches
  <2>4. CASE req'[s] # req[s] /\ req'[s] # Idle
    <3> PICK old, q : old = req[s] /\ q = req'[s]
      OBVIOUS
    <3>1. q.home \in Daemons
      BY <2>1, <2>4 DEF Outcome
    <3> PICK m, n : m = store[q.home] /\ n = store'[q.home]
      OBVIOUS
    <3>2. Changes(r, old, q, m, n)
      BY <2>1, <2>4 DEF Outcome
    <3>3. /\ m \in Stores /\ StoreShown(h, m)
          /\ n \in Stores /\ Sound(n) /\ StoreShown(h, n)
      <4>1. m \in Stores /\ StoreShown(h, m) /\ StoreShown(h, n)
        BY <1>2, <3>1, DaemonFacts DEF ShownInv
      <4>2. n \in Stores
        BY <3>1 DEF Inv, TypeOK
      <4>3. Sound(n)
        BY <3>1 DEF Inv, StoresSound, Sound, Agrees, Receipts
      <4> QED BY <4>1, <4>2, <4>3
    <3>4. ASSUME q.pc \in Saving PROVE AsReviewed(h, q.next)
      <4>1. CASE Saved(r, old, q)
        BY <2>1, <4>1 DEF Saved, RequestShown
      <4>2. CASE Prepares(q, m, n)
        BY <3>3, <4>2, ApprovedShown, BlockedShown DEF Prepares
      <4> QED BY <3>2, <3>4, <4>1, <4>2 DEF Changes
    <3>5. ASSUME q.pc \in Attaches, q.review # None
          PROVE  /\ q.review \in DOMAIN h
                 /\ h[q.review].profile = q.profile
                 /\ h[q.review].contents.of[q.profile] = q.version
      <4>1. CASE GoesOn(old, q)
        BY <2>1, <3>5, <4>1 DEF GoesOn, RequestShown
      <4>2. CASE Granted(q, n)
        BY <3>3, <4>2, GrantShown
      <4> QED BY <3>2, <3>5, <4>1, <4>2 DEF Changes, Attached
    <3> QED BY <3>2, <3>4, <3>5 DEF RequestShown, Changes
  <2> QED BY <2>2, <2>3, <2>4
<1> QED BY <1>1, <1>2, <1>3 DEF ShownInv

-----------------------------------------------------------------------------
(* Such a step spends nothing, and leaves every save where it may be.      *)

(* SpendInv, whatever step reviews and saves come from: none appears but a  *)
(* save that takes its review out of a store.                               *)
LEMMA SpendFrame ==
  ASSUME SpendInv, UNCHANGED <<issued, spent>>, dead' \subseteq spent,
         Live(disk'.profiles) \subseteq spent, Live(durable'.profiles) \subseteq spent,
         \A d \in Daemons : DOMAIN store'[d].pending \subseteq DOMAIN store[d].pending,
         NEW r,
         \A s \in Requests : Pens(req'[s]) =>
           \/ Pens(req[s]) /\ req'[s].review = req[s].review
           \/ s = r /\ \E d \in Daemons :
                req'[s].review \in DOMAIN store[d].pending \ DOMAIN store'[d].pending
  PROVE  SpendInv'
<1>1. ASSUME NEW d \in Daemons, NEW id \in DOMAIN store'[d].pending
      PROVE  /\ id \in issued \ spent
             /\ \A e \in Daemons : id \in DOMAIN store'[e].pending => e = d
             /\ \A s \in Requests : Pens(req'[s]) => req'[s].review # id
  <2>1. /\ id \in DOMAIN store[d].pending /\ id \in issued \ spent
        /\ \A e \in Daemons : id \in DOMAIN store[e].pending => e = d
        /\ \A s \in Requests : Pens(req[s]) => req[s].review # id
    BY DEF SpendInv
  <2> QED BY <2>1
<1>2. ASSUME NEW s \in Requests, Pens(req'[s])
      PROVE  /\ req'[s].review \in issued \ spent
             /\ \A t \in Requests : Pens(req'[t]) /\ req'[t].review = req'[s].review => t = s
  <2>1. \A t \in Requests : Pens(req'[t]) =>
          \/ /\ Pens(req[t]) /\ req'[t].review = req[t].review
             /\ \A d \in Daemons : req'[t].review \notin DOMAIN store[d].pending
          \/ t = r /\ \E d \in Daemons : req'[t].review \in DOMAIN store[d].pending
    BY DEF SpendInv
  <2> QED BY <1>2, <2>1 DEF SpendInv
<1> QED BY <1>1, <1>2 DEF SpendInv

LEMMA SpendKept ==
  ASSUME Inv, SpendInv, NEW r, Ordinary(r)
  PROVE  SpendInv'
<1>1. /\ UNCHANGED <<disk, durable, issued, spent, dead>>
      /\ \A d \in Daemons : DOMAIN store'[d].pending \subseteq DOMAIN store[d].pending
  BY DEF Ordinary, history, Follows
<1>2. dead \subseteq spent /\ Live(disk.profiles) \subseteq spent /\ Live(durable.profiles) \subseteq spent
  BY DEF SpendInv
<1>3. ASSUME NEW s \in Requests, Pens(req'[s])
      PROVE  \/ Pens(req[s]) /\ req'[s].review = req[s].review
             \/ s = r /\ \E d \in Daemons :
                  req'[s].review \in DOMAIN store[d].pending \ DOMAIN store'[d].pending
  <2>1. Outcome(r, s) /\ req'[s] # Idle
    BY <1>3 DEF Ordinary, Pens, Idle
  <2>2. CASE req'[s] = req[s]
    BY <1>3, <2>2
  <2>3. CASE req'[s] # req[s]
    <3> PICK old, q : old = req[s] /\ q = req'[s]
      OBVIOUS
    <3> PICK m, n : m = store[q.home] /\ n = store'[q.home]
      OBVIOUS
    <3>1. s = r /\ q.home \in Daemons /\ Changes(r, old, q, m, n) /\ q.pc \in Saving
      BY <1>3, <2>1, <2>3 DEF Outcome, Pens, Saving
    <3>2. CASE Saved(r, old, q)
      BY <1>3, <3>2 DEF Saved, Pens
    <3>3. CASE Prepares(q, m, n)
      BY <1>3, <3>1, <3>3 DEF Prepares, Pens
    <3> QED BY <3>1, <3>2, <3>3 DEF Changes
  <2> QED BY <2>2, <2>3
<1> QED BY <1>1, <1>2, <1>3, SpendFrame

LEMMA SaveKept ==
  ASSUME Inv, SaveInv, NEW r, Ordinary(r)
  PROVE  SaveInv'
<1>1. UNCHANGED <<disk, durable>>
  BY DEF Ordinary
<1>2. ASSUME NEW s \in Requests, req'[s].pc \in {"made", "locked", "written", "renamed"}
      PROVE  \/ req'[s] = req[s]
             \/ /\ s = r /\ req'[s].home = req[s].home /\ req'[s].created = req[s].created
                /\ \/ req[s].pc = "made" /\ req'[s].pc = "locked" /\ FlockFree
                   \/ /\ req[s].pc = "locked" /\ req'[s].pc = "written"
                      /\ SaveMatches(Store(s), disk, req[s].created)
  <2>1. Outcome(r, s) /\ req'[s] # Idle
    BY <1>2 DEF Ordinary, Idle
  <2>2. CASE req'[s] # req[s]
    <3> PICK old, q : old = req[s] /\ q = req'[s]
      OBVIOUS
    <3> PICK m, n : m = store[q.home] /\ n = store'[q.home]
      OBVIOUS
    <3>1. s = r /\ Changes(r, old, q, m, n) /\ q.pc \in Saving /\ q.pc # "save"
      BY <1>2, <2>1, <2>2 DEF Outcome, Saving
    <3>2. Saved(r, old, q)
      BY <3>1 DEF Changes, Prepares
    <3> QED BY <3>1, <3>2 DEF Saved
  <2> QED BY <2>2
<1>3. ASSUME NEW s \in Requests, req'[s].pc \in {"locked", "written", "renamed"}
      PROVE  Store(s).disk = store'[req'[s].home].disk
  <2>1. req'[s].home = req[s].home /\ req[s].pc \in Saving /\ req'[s].pc \in Saving
    BY <1>2, <1>3 DEF Saving
  <2> QED BY <2>1 DEF Ordinary, Store
<1>4. \A s, t \in Requests : req'[s].pc \in Flocked /\ req'[t].pc \in Flocked => s = t
  <2>1. \A s \in Requests : req'[s].pc \in Flocked => req[s].pc \in Flocked \/ (s = r /\ FlockFree)
    BY <1>2 DEF Flocked
  <2> QED BY <2>1 DEF SaveInv, FlockFree
<1>5. \A s \in Requests : Makes(req'[s]) => Makes(req[s])
  BY <1>2 DEF Makes
<1>6. ASSUME NEW s \in Requests, req'[s].pc = "written"
      PROVE  /\ disk.profiles = store'[req'[s].home].disk.profiles
             /\ ~req'[s].created => disk.state # "bare"
  <2>1. Store(s).disk = store'[req'[s].home].disk
    BY <1>3, <1>6
  <2>2. CASE req'[s] = req[s]
    BY <1>6, <2>1, <2>2 DEF SaveInv, Receipts
  <2>3. CASE req'[s] # req[s]
    <3>1. req'[s].created = req[s].created /\ SaveMatches(Store(s), disk, req[s].created)
          /\ req[s].pc = "locked"
      BY <1>2, <1>6, <2>3
    <3>2. CASE req[s].created
      <4>1. disk.profiles = Empty
        BY <3>1, <3>2 DEF SaveInv, Makes
      <4>2. store'[req'[s].home].disk.profiles = Empty
        BY <2>1, <3>1, <3>2 DEF SaveMatches, NoDisk
      <4> QED BY <3>1, <3>2, <4>1, <4>2
    <3>3. CASE ~req[s].created
      BY <2>1, <3>1, <3>3 DEF SaveMatches
    <3> QED BY <3>2, <3>3
  <2> QED BY <2>2, <2>3
<1>7. \A s \in Requests : req'[s].pc = "renamed" => req[s] = req'[s]
  BY <1>2
<1>8. \A s \in Requests : req'[s].pc \in {"made", "locked", "written"} =>
                          req[s].pc \in {"made", "locked", "written"}
  BY <1>2
<1> QED BY <1>1, <1>4, <1>5, <1>6, <1>7, <1>8 DEF SaveInv, Store, Receipts

-----------------------------------------------------------------------------
(* A new review.                                                           *)

LEMMA HistoryGrows ==
  ASSUME NEW h, NEW k, \A x \in DOMAIN h : x \in DOMAIN k /\ k[x] = h[x]
  PROVE  /\ \A f : AsReviewed(h, f) => AsReviewed(k, f)
         /\ \A m : StoreShown(h, m) => StoreShown(k, m)
         /\ \A q : RequestShown(h, q) => RequestShown(k, q)
<1>1. \A id, p, c : Showed(h, id, p, c) => Showed(k, id, p, c)
  BY DEF Showed
<1>2. \A f : AsReviewed(h, f) => AsReviewed(k, f)
  BY <1>1 DEF AsReviewed
<1>3. \A m : StoreShown(h, m) => StoreShown(k, m)
  BY <1>1, <1>2 DEF StoreShown
<1>4. \A q : RequestShown(h, q) => RequestShown(k, q)
  BY <1>2 DEF RequestShown
<1> QED BY <1>2, <1>3, <1>4

LEMMA StagePending ==
  ASSUME NEW m \in Stores, NEW id, id \notin DOMAIN m.pending, NEW p, NEW c,
         NEW n, n = Stage(m, id, p, c)
  PROVE  /\ n.disk = m.disk
         /\ \A x \in DOMAIN n.pending :
              \/ x = id /\ n.pending[x].profile = p /\ n.pending[x].contents = c
              \/ x \in DOMAIN m.pending /\ n.pending[x] = m.pending[x]
<1> PICK kept : kept = Fresh(m.pending)
  OBVIOUS
<1> PICK new : new = [profile |-> p, contents |-> c, expired |-> FALSE]
  OBVIOUS
<1> PICK f : f = Put(kept, id, new)
  OBVIOUS
<1>1. \/ n = [m EXCEPT !.pending = kept]
      \/ n = [m EXCEPT !.pending = f]
  BY DEF Stage
<1>2. DOMAIN kept \subseteq DOMAIN m.pending /\ \A x \in DOMAIN kept : kept[x] = m.pending[x]
  BY DEF Fresh, Without
<1>3. /\ DOMAIN f = DOMAIN kept \cup {id} /\ f[id] = new
      /\ \A x \in DOMAIN kept : x # id => f[x] = kept[x]
  BY DEF Put
<1>4. n.disk = m.disk /\ (n.pending = kept \/ n.pending = f)
  BY <1>1 DEF Stores
<1>5. new.profile = p /\ new.contents = c
  OBVIOUS
<1>6. ASSUME NEW x \in DOMAIN n.pending
      PROVE  \/ x = id /\ n.pending[x].profile = p /\ n.pending[x].contents = c
             \/ x \in DOMAIN m.pending /\ n.pending[x] = m.pending[x]
  <2> PICK k : k = n.pending
    OBVIOUS
  <2>1. CASE k = kept
    BY <1>2, <2>1
  <2>2. CASE k = f /\ x = id
    <3>1. k[x] = new
      BY <1>3, <2>2
    <3> QED BY <1>5, <2>2, <3>1
  <2>3. CASE k = f /\ x # id
    <3>1. x \in DOMAIN kept /\ k[x] = kept[x]
      BY <1>3, <2>3
    <3> QED BY <1>2, <3>1
  <2> QED BY <1>4, <2>1, <2>2, <2>3
<1> QED BY <1>4, <1>6

(* SaveInv, when the directory is as it was. *)
LEMMA SaveFrame ==
  ASSUME SaveInv, UNCHANGED disk, durable'.state # "ledger" => durable'.profiles = Empty,
         \A s \in Requests :
           \/ req'[s] = req[s]
           \/ req'[s].pc \notin {"made", "locked", "written", "renamed"},
         \A s \in Requests : req'[s].pc = "written" =>
           store'[req[s].home].disk = store[req[s].home].disk
  PROVE  SaveInv'
<1>1. \A s \in Requests : req'[s].pc \in {"made", "locked", "written", "renamed"} => req'[s] = req[s]
  OBVIOUS
<1>2. \A s, t \in Requests : req'[s].pc \in Flocked /\ req'[t].pc \in Flocked => s = t
  BY <1>1 DEF SaveInv, Flocked
<1>3. \A s \in Requests : Makes(req'[s]) => Makes(req[s])
  BY <1>1 DEF Makes
<1>4. ASSUME NEW s \in Requests, req'[s].pc = "written"
      PROVE  /\ disk.profiles = store'[req'[s].home].disk.profiles
             /\ ~req'[s].created => disk.state # "bare"
  BY <1>1, <1>4 DEF SaveInv, Store, Receipts
<1> QED BY <1>1, <1>2, <1>3, <1>4 DEF SaveInv, Store, Receipts

LEMMA StageReviewKeeps ==
  ASSUME Inv, LedgerInv, NEW r \in Requests, StageReview(r)
  PROVE  LedgerInv'
<1> PICK d \in Daemons : d = req[r].home
  BY RequestFacts DEF StageReview
<1> PICK p, c : p = req[r].profile /\ c = req[r].seen
  OBVIOUS
<1> PICK m \in Stores : m = store[d]
  BY DaemonFacts
<1>1. PICK id \in Reviews \ issued :
        /\ store' = [store EXCEPT ![d] = Stage(m, id, p, c)]
        /\ issued' = issued \cup {id}
        /\ reviewed' = Put(reviewed, id, [profile |-> p, contents |-> c])
  BY DEF StageReview, SetStore, Store
<1> PICK n : n = Stage(m, id, p, c)
  OBVIOUS
<1> PICK h, k : h = reviewed /\ k = reviewed'
  OBVIOUS
<1>2. /\ UNCHANGED <<disk, durable, spent, dead, owed>>
      /\ store'[d] = n /\ \A e \in Daemons : e # d => store'[e] = store[e]
      /\ req'[r] = Idle /\ \A s \in Requests : s # r => req'[s] = req[s]
  BY <1>1, RestOfTypes DEF Inv, StageReview, files, Ends
<1>3. DOMAIN h \subseteq issued /\ id \notin DOMAIN h
  BY DEF LedgerInv, ShownInv
<1>4. /\ DOMAIN k = DOMAIN h \cup {id}
      /\ \A x \in DOMAIN h : k[x] = h[x]
      /\ Showed(k, id, p, c)
  <2>1. k = Put(h, id, [profile |-> p, contents |-> c])
    BY <1>1
  <2> QED BY <1>3, <2>1 DEF Put, Showed
<1>5. \A e \in Daemons : \A x \in DOMAIN store[e].pending : x # id
  BY DEF LedgerInv, SpendInv
<1>6. /\ n.disk = m.disk
      /\ \A x \in DOMAIN n.pending :
           \/ x = id /\ n.pending[x].profile = p /\ n.pending[x].contents = c
           \/ x \in DOMAIN m.pending /\ n.pending[x] = m.pending[x]
  <2>1. id \notin DOMAIN m.pending
    BY <1>5
  <2> QED BY <2>1, StagePending
<1>7. Idle.pc = "idle"
  BY DEF Idle
<1>8. ShownInv'
  <2>1. /\ \A f : AsReviewed(h, f) => AsReviewed(k, f)
        /\ \A x : StoreShown(h, x) => StoreShown(k, x)
        /\ \A q : RequestShown(h, q) => RequestShown(k, q)
    BY <1>4, HistoryGrows
  <2>2. DOMAIN k \subseteq issued'
    BY <1>1, <1>3, <1>4
  <2>3. AsReviewed(k, disk'.profiles) /\ AsReviewed(k, durable'.profiles)
    BY <1>2, <2>1 DEF LedgerInv, ShownInv
  <2>4. ASSUME NEW e \in Daemons PROVE StoreShown(k, store'[e])
    <3>1. StoreShown(k, store[e])
      BY <2>1 DEF LedgerInv, ShownInv
    <3>2. CASE e = d
      <4>1. AsReviewed(k, Receipts(n))
        BY <1>6, <3>1, <3>2 DEF StoreShown, Receipts
      <4>2. \A x \in DOMAIN n.pending : Showed(k, x, n.pending[x].profile, n.pending[x].contents)
        BY <1>4, <1>6, <3>1, <3>2 DEF StoreShown
      <4> QED BY <1>2, <3>2, <4>1, <4>2 DEF StoreShown
    <3> QED BY <1>2, <3>1, <3>2
  <2>5. ASSUME NEW s \in Requests PROVE RequestShown(k, req'[s])
    <3>1. CASE s = r
      BY <1>2, <1>7, <3>1 DEF RequestShown, Saving, Attaches
    <3> QED BY <1>2, <2>1, <3>1 DEF LedgerInv, ShownInv
  <2> QED BY <2>2, <2>3, <2>4, <2>5 DEF ShownInv
<1>9. SpendInv'
  <2>1. \A s \in Requests : Pens(req'[s]) => s # r /\ req'[s] = req[s] /\ req[s].review # id
    BY <1>2, <1>7 DEF Pens, LedgerInv, SpendInv
  <2>2. \A e \in Daemons : \A x \in DOMAIN store'[e].pending :
          (x = id /\ e = d) \/ (x # id /\ x \in DOMAIN store[e].pending)
    BY <1>2, <1>5, <1>6
  <2>3. spent \subseteq issued /\ id \notin spent
    BY DEF LedgerInv, SpendInv
  <2>4. ASSUME NEW e \in Daemons, NEW x \in DOMAIN store'[e].pending
        PROVE  /\ x \in issued' \ spent'
               /\ \A t \in Daemons : x \in DOMAIN store'[t].pending => t = e
               /\ \A s \in Requests : Pens(req'[s]) => req'[s].review # x
    <3>1. CASE x = id
      BY <1>1, <1>2, <2>1, <2>2, <2>3, <3>1
    <3>2. CASE x # id
      BY <1>1, <1>2, <2>1, <2>2, <3>2 DEF LedgerInv, SpendInv
    <3> QED BY <3>1, <3>2
  <2> QED BY <1>1, <1>2, <2>1, <2>3, <2>4 DEF LedgerInv, SpendInv
<1>10. SaveInv'
  <2>1. \A s \in Requests : req'[s] = req[s] \/ req'[s].pc \notin {"made", "locked", "written", "renamed"}
    BY <1>2, <1>7
  <2>2. ASSUME NEW s \in Requests, req'[s].pc = "written"
        PROVE  store'[req[s].home].disk = store[req[s].home].disk
    <3>1. req[s].home \in Daemons
      BY <1>2, <1>7, <2>2, RequestFacts
    <3> QED BY <1>2, <1>6, <3>1
  <2> QED BY <1>2, <2>1, <2>2, SaveFrame DEF LedgerInv, SaveInv
<1>11. DecisionsSurvive'
  BY <1>2 DEF LedgerInv, DecisionsSurvive, AcknowledgedIsKept, DeadStaysDead
<1> QED BY <1>8, <1>9, <1>10, <1>11 DEF LedgerInv

-----------------------------------------------------------------------------
(* The steps of a save the disk sees.                                      *)

LEMMA MakeDirectoryKeeps ==
  ASSUME Inv, LedgerInv, NEW r \in Requests, MakeDirectory(r)
  PROVE  LedgerInv'
<1> PICK old \in RequestType : old = req[r]
  BY RequestFacts
<1> PICK b \in BOOLEAN : b = (disk.state = "absent")
  OBVIOUS
<1> PICK q : q = [old EXCEPT !.pc = "made", !.created = b]
  OBVIOUS
<1>1. /\ UNCHANGED <<durable, store, issued, history>>
      /\ req' = [req EXCEPT ![r] = q] /\ old.pc = "save"
  BY DEF MakeDirectory
<1>2. /\ q.pc = "made" /\ q.created = b /\ q.home = old.home /\ q.next = old.next
      /\ q.job = old.job /\ q.review = old.review
  BY DEF RequestType
<1>3. req'[r] = q /\ \A s \in Requests : s # r => req'[s] = req[s]
  BY <1>1, RestOfTypes DEF Inv
<1>4. /\ disk'.profiles = disk.profiles
      /\ b => disk'.state = "bare"
      /\ ~b => disk' = disk
  <2> PICK dk \in Disks : dk = disk
    BY RestOfTypes DEF Inv, Rest
  <2>1. disk' = IF b THEN [dk EXCEPT !.state = "bare"] ELSE dk
    BY DEF MakeDirectory
  <2> QED BY <2>1 DEF Disks
<1>5. ShownInv'
  <2>1. RequestShown(reviewed, q)
    <3>1. AsReviewed(reviewed, old.next)
      BY <1>1 DEF LedgerInv, ShownInv, RequestShown, Saving
    <3> QED BY <1>2, <3>1 DEF RequestShown, Attaches
  <2>2. \A s \in Requests : RequestShown(reviewed, req'[s])
    BY <1>3, <2>1 DEF LedgerInv, ShownInv
  <2> QED BY <1>1, <1>4, <2>2 DEF LedgerInv, ShownInv, history
<1>6. SpendInv'
  <2>1. \A s \in Requests : Pens(req'[s]) => Pens(req[s]) /\ req'[s].review = req[s].review
    BY <1>1, <1>2, <1>3 DEF Pens
  <2>2. dead \subseteq spent /\ Live(disk.profiles) \subseteq spent /\ Live(durable.profiles) \subseteq spent
    BY DEF LedgerInv, SpendInv
  <2>3. UNCHANGED <<issued, spent, dead, store, durable>>
    BY <1>1 DEF history
  <2>4. SpendInv
    BY DEF LedgerInv
  <2> QED BY <1>4, <2>1, <2>2, <2>3, <2>4, SpendFrame
<1>7. SaveInv'
  <2>1. SaveInv
    BY DEF LedgerInv
  <2>2. /\ \A s \in Requests : Makes(req[s]) => disk.state = "bare"
        /\ \A s, t \in Requests : Makes(req[s]) /\ Makes(req[t]) => s = t
        /\ \A s \in Requests : req[s].pc \in {"made", "locked", "written"} => ~b
        /\ \A s \in Requests : req[s].pc = "renamed" => ~b
    BY <2>1 DEF SaveInv
  <2>3. \A s \in Requests : Makes(req'[s]) => (s = r /\ b) \/ (s # r /\ Makes(req[s]) /\ ~b)
    BY <1>2, <1>3, <2>2 DEF Makes
  <2>4. /\ disk'.state # "ledger" => disk'.profiles = Empty
        /\ durable'.state # "ledger" => durable'.profiles = Empty
    BY <1>1, <1>4, <2>1 DEF SaveInv
  <2>5. \A s, t \in Requests : req'[s].pc \in Flocked /\ req'[t].pc \in Flocked => s = t
    BY <1>2, <1>3, <2>1 DEF SaveInv, Flocked
  <2>6. /\ \A s, t \in Requests : Makes(req'[s]) /\ Makes(req'[t]) => s = t
        /\ \A s \in Requests : Makes(req'[s]) => disk'.state = "bare"
    BY <1>4, <2>2, <2>3
  <2>7. \A s \in Requests : req'[s].pc \in {"made", "locked", "written"} => disk'.state # "absent"
    BY <1>3, <1>4, <2>2
  <2>8. ASSUME NEW s \in Requests, req'[s].pc \in {"written", "renamed"}
        PROVE  s # r /\ req'[s] = req[s] /\ disk' = disk
    <3>1. s # r /\ req'[s] = req[s]
      BY <1>2, <1>3, <2>8
    <3>2. ~b
      BY <2>2, <2>8, <3>1
    <3> QED BY <1>4, <3>1, <3>2
  <2>9. ASSUME NEW s \in Requests, req'[s].pc = "written"
        PROVE  /\ disk'.profiles = store'[req'[s].home].disk.profiles
               /\ ~req'[s].created => disk'.state # "bare"
    BY <1>1, <2>1, <2>8, <2>9 DEF SaveInv, Store, Receipts
  <2>10. \A s \in Requests : req'[s].pc = "renamed" =>
           disk'.state = "ledger" /\ disk'.profiles = req'[s].next
    BY <2>1, <2>8 DEF SaveInv
  <2> QED BY <2>4, <2>5, <2>6, <2>7, <2>9, <2>10 DEF SaveInv, Store, Receipts
<1>8. DecisionsSurvive'
  BY <1>1, <1>4 DEF LedgerInv, DecisionsSurvive, AcknowledgedIsKept, DeadStaysDead, history
<1> QED BY <1>5, <1>6, <1>7, <1>8 DEF LedgerInv

(* What a prepared ledger trusts: what the old one did, and the approval.  *)
LEMMA PreparedLive ==
  ASSUME NEW q, NEW receipts, Prepared(q, receipts)
  PROVE  /\ Live(q.next) \subseteq Live(receipts) \cup {q.review}
         /\ q.job # "approve" => Live(q.next) \subseteq Live(receipts)
<1> SUFFICES ASSUME NEW p \in DOMAIN q.next, ~q.next[p].revoked
             PROVE  \/ q.next[p].review \in Live(receipts)
                    \/ q.job = "approve" /\ q.next[p].review = q.review
  BY DEF Live
<1>1. CASE p \in q.scope
  BY <1>1 DEF Prepared, Approves
<1>2. CASE p \notin q.scope
  BY <1>2 DEF Prepared, Live
<1> QED BY <1>1, <1>2

(* Under the lock, before the rename: what is on disk is what was compared. *)
LEMMA WrittenFacts ==
  ASSUME Inv, SaveInv, NEW r \in Requests, req[r].pc = "written"
  PROVE  /\ Prepared(req[r], disk.profiles)
         /\ \A s \in Requests : s # r => req[s].pc \notin Flocked /\ ~Makes(req[s])
<1>1. Prepared(req[r], disk.profiles)
  BY RequestFacts DEF Ready, Saving, SaveInv
<1>2. \A s \in Requests : s # r => req[s].pc \notin Flocked
  BY DEF SaveInv, Flocked
<1>3. \A s \in Requests : s # r => ~Makes(req[s])
  <2>1. CASE req[r].created
    BY <2>1 DEF SaveInv, Makes
  <2>2. CASE ~req[r].created
    BY <2>2 DEF SaveInv
  <2> QED BY <2>1, <2>2
<1> QED BY <1>1, <1>2, <1>3

LEMMA RenameKeeps ==
  ASSUME Inv, LedgerInv, NEW r \in Requests, Rename(r)
  PROVE  LedgerInv'
<1> PICK old \in RequestType : old = req[r]
  BY RequestFacts
<1> PICK L : L = old.next
  OBVIOUS
<1> PICK q : q = [old EXCEPT !.pc = "renamed"]
  OBVIOUS
<1>1. /\ UNCHANGED <<durable, store, issued, reviewed, dead>>
      /\ req' = [req EXCEPT ![r] = q] /\ old.pc = "written"
      /\ disk' = [state |-> "ledger", profiles |-> L]
      /\ spent' = spent \cup Live(L) /\ owed' = Without(owed, old.scope)
  BY DEF Rename, Goes
<1>2. /\ q.pc = "renamed" /\ q.home = old.home /\ q.next = L
      /\ q.job = old.job /\ q.review = old.review
  BY DEF RequestType
<1>3. req'[r] = q /\ \A s \in Requests : s # r => req'[s] = req[s]
  BY <1>1, RestOfTypes DEF Inv
<1>4. disk'.state = "ledger" /\ disk'.profiles = L
  BY <1>1
<1>5. /\ Prepared(old, disk.profiles)
      /\ \A s \in Requests : s # r => req[s].pc \notin Flocked /\ ~Makes(req[s])
  BY <1>1, WrittenFacts DEF LedgerInv
<1>6. /\ Live(L) \subseteq Live(disk.profiles) \cup {old.review}
      /\ ~Pens(old) => Live(L) \subseteq Live(disk.profiles)
  BY <1>1, <1>5, PreparedLive DEF Pens
<1>7. ShownInv'
  <2>1. AsReviewed(reviewed, L)
    BY <1>1 DEF LedgerInv, ShownInv, RequestShown, Saving
  <2>2. RequestShown(reviewed, q)
    BY <1>2, <2>1 DEF RequestShown, Attaches
  <2>3. \A s \in Requests : RequestShown(reviewed, req'[s])
    BY <1>3, <2>2 DEF LedgerInv, ShownInv
  <2> QED BY <1>1, <1>4, <2>1, <2>3 DEF LedgerInv, ShownInv
<1>8. SpendInv'
  <2>1. /\ dead \subseteq spent /\ spent \subseteq issued
        /\ Live(disk.profiles) \subseteq spent /\ Live(durable.profiles) \subseteq spent
    BY DEF LedgerInv, SpendInv
  <2>2. \A s \in Requests : Pens(req'[s]) => s # r /\ Pens(req[s]) /\ req'[s] = req[s]
    BY <1>2, <1>3 DEF Pens
  <2>3. Pens(old) => old.review \in issued \ spent
    BY DEF LedgerInv, SpendInv
  <2>4. spent' \subseteq issued /\ Live(L) \subseteq spent'
    BY <1>1, <1>6, <2>1, <2>3
  <2>5. \A x \in spent' \ spent : Pens(old) /\ x = old.review
    BY <1>1, <1>6, <2>1
  <2>6. ASSUME NEW d \in Daemons, NEW id \in DOMAIN store[d].pending
        PROVE  /\ id \in issued \ spent'
               /\ \A e \in Daemons : id \in DOMAIN store[e].pending => e = d
               /\ \A s \in Requests : Pens(req'[s]) => req'[s].review # id
    BY <2>2, <2>5 DEF LedgerInv, SpendInv
  <2>7. ASSUME NEW s \in Requests, Pens(req'[s])
        PROVE  /\ req'[s].review \in issued \ spent'
               /\ \A t \in Requests : Pens(req'[t]) /\ req'[t].review = req'[s].review => t = s
    <3>1. /\ req[s].review \in issued \ spent
          /\ \A t \in Requests : Pens(req[t]) /\ req[t].review = req[s].review => t = s
      BY <2>2, <2>7 DEF LedgerInv, SpendInv
    <3>2. req[s].review \notin spent'
      BY <2>2, <2>5, <2>7, <3>1
    <3> QED BY <2>2, <2>7, <3>1, <3>2
  <2> QED BY <1>1, <1>4, <2>1, <2>4, <2>6, <2>7 DEF SpendInv
<1>9. SaveInv'
  <2>1. \A s \in Requests : req'[s].pc \in Flocked => s = r
    BY <1>3, <1>5
  <2>2. \A s \in Requests : ~Makes(req'[s])
    BY <1>2, <1>3, <1>5 DEF Makes
  <2>3. \A s \in Requests : req'[s].pc # "written" /\ (req'[s].pc = "renamed" => s = r)
    BY <1>2, <1>3, <2>1 DEF Flocked
  <2>4. durable.state # "ledger" => durable.profiles = Empty
    BY DEF LedgerInv, SaveInv
  <2> QED BY <1>1, <1>2, <1>3, <1>4, <2>1, <2>2, <2>3, <2>4 DEF SaveInv
<1>10. DecisionsSurvive'
  <2>1. ASSUME NEW p \in DOMAIN owed'
        PROVE  /\ p \in DOMAIN L /\ L[p] = owed'[p]
               /\ p \in DOMAIN durable.profiles /\ durable.profiles[p] = owed'[p]
    <3>1. p \in DOMAIN owed \ old.scope /\ owed'[p] = owed[p]
      BY <1>1 DEF Without
    <3>2. /\ p \in DOMAIN disk.profiles /\ disk.profiles[p] = owed[p]
          /\ p \in DOMAIN durable.profiles /\ durable.profiles[p] = owed[p]
      BY <3>1 DEF LedgerInv, DecisionsSurvive, AcknowledgedIsKept
    <3> QED BY <1>5, <3>1, <3>2 DEF Prepared
  <2>2. (Live(disk.profiles) \cup Live(durable.profiles)) \cap dead = {}
    BY DEF LedgerInv, DecisionsSurvive, DeadStaysDead
  <2>3. Pens(old) => old.review \notin dead
    BY DEF LedgerInv, SpendInv
  <2>4. Live(L) \cap dead = {}
    BY <1>6, <2>2, <2>3
  <2> QED BY <1>1, <1>4, <2>1, <2>2, <2>4 DEF DecisionsSurvive, AcknowledgedIsKept, DeadStaysDead
<1> QED BY <1>7, <1>8, <1>9, <1>10 DEF LedgerInv

(* The store an acknowledgement leaves: the ledger it wrote, and reviews it *)
(* had.                                                                    *)
LEMMA AfterSaveHolds ==
  ASSUME Inv, NEW r \in Requests, req[r].pc = "renamed", NEW n, n = AfterSave(r)
  PROVE  /\ Receipts(n) = req[r].next
         /\ \A id \in DOMAIN n.pending :
              id \in DOMAIN Store(r).pending /\ n.pending[id] = Store(r).pending[id]
<1> PICK q \in RequestType : q = req[r]
  BY RequestFacts
<1> PICK m \in Stores : m = Store(r)
  BY RequestFacts DEF Saving
<1> PICK L, S : L = q.next /\ S = q.scope
  OBVIOUS
<1> PICK dk : dk = [state |-> "ledger", profiles |-> L]
  OBVIOUS
<1> PICK f : f = m.pending
  OBVIOUS
<1>1. q.job \in {"approve", "revoke", "edit"}
  BY RequestFacts DEF RequestType, Ready, Prepared, Saving
<1>2. dk.profiles = L
  OBVIOUS
<1>3. CASE q.job = "approve"
  <2> PICK R, g : R = m.revoked \ {q.profile} /\ g = Put(m.grants, q.profile, [id |-> q.review, resolution |-> q.version])
    OBVIOUS
  <2>1. n = [m EXCEPT !.disk = dk, !.revoked = R, !.grants = g]
    BY <1>3 DEF AfterSave, AfterApprove
  <2>2. n.disk = dk /\ n.pending = f
    BY <2>1 DEF Stores
  <2> QED BY <1>2, <2>2 DEF Receipts
<1> PICK R, g : R = m.revoked \cup S /\ g = Without(m.grants, S)
  OBVIOUS
<1> PICK k : k = [m EXCEPT !.disk = dk, !.grants = g, !.revoked = R]
  OBVIOUS
<1>4. /\ k = AfterRevoke(m, L, S) /\ k.disk = dk /\ k.pending = f
      /\ k \in [disk : {dk}, grants : {g}, revoked : {R}, pending : {f}]
  BY DEF AfterRevoke, Stores
<1>5. CASE q.job = "revoke"
  <2>1. n = k
    BY <1>4, <1>5 DEF AfterSave
  <2> QED BY <1>2, <1>4, <2>1 DEF Receipts
<1>6. CASE q.job = "edit"
  <2> PICK h : h = Without(k.pending, {id \in DOMAIN k.pending : k.pending[id].profile \in S})
    OBVIOUS
  <2>1. n = [k EXCEPT !.pending = h]
    BY <1>4, <1>6 DEF AfterSave, AfterBlock
  <2>2. n.disk = dk /\ n.pending = h
    BY <1>4, <2>1 DEF Stores
  <2>3. DOMAIN h \subseteq DOMAIN f /\ \A id \in DOMAIN h : h[id] = f[id]
    BY <1>4 DEF Without
  <2> QED BY <1>2, <2>2, <2>3 DEF Receipts
<1> QED BY <1>1, <1>3, <1>5, <1>6

LEMMA SyncDirectoryKeeps ==
  ASSUME Inv, LedgerInv, NEW r \in Requests, SyncDirectory(r)
  PROVE  LedgerInv'
<1> PICK old \in RequestType : old = req[r]
  BY RequestFacts
<1> PICK d \in Daemons : d = old.home
  BY RequestFacts DEF SyncDirectory
<1> PICK L : L = old.next
  OBVIOUS
<1> PICK n : n = AfterSave(r)
  OBVIOUS
<1>1. /\ UNCHANGED <<disk, issued, reviewed, spent>> /\ old.pc = "renamed"
      /\ durable' = disk /\ dead' = dead \cup (spent \ Live(L))
      /\ store' = [store EXCEPT ![d] = n]
  BY DEF SyncDirectory, SetStore
<1>2. store'[d] = n /\ \A e \in Daemons : e # d => store'[e] = store[e]
  BY <1>1, RestOfTypes DEF Inv
<1>3. /\ req'[r].pc \in {"idle", "blocked"}
      /\ \A s \in Requests : s # r => req'[s] = req[s]
  BY RestOfTypes DEF Inv, SyncDirectory, Goes, Ends, Idle, RequestType
<1>4. disk.profiles = L /\ disk.state = "ledger"
  BY <1>1 DEF LedgerInv, SaveInv
<1>5. /\ Receipts(n) = L
      /\ \A id \in DOMAIN n.pending : id \in DOMAIN store[d].pending /\ n.pending[id] = store[d].pending[id]
  BY <1>1, AfterSaveHolds DEF Store
<1>6. Prepared(old, Receipts(Store(r)))
  BY <1>1, RequestFacts DEF Ready, Saving
<1>7. ShownInv'
  <2>1. AsReviewed(reviewed, L)
    BY <1>1 DEF LedgerInv, ShownInv, RequestShown, Saving
  <2>2. ASSUME NEW e \in Daemons PROVE StoreShown(reviewed, store'[e])
    <3>1. StoreShown(reviewed, store[e])
      BY DEF LedgerInv, ShownInv
    <3>2. CASE e = d
      BY <1>2, <1>5, <2>1, <3>1, <3>2 DEF StoreShown
    <3> QED BY <1>2, <3>1, <3>2
  <2>3. ASSUME NEW s \in Requests PROVE RequestShown(reviewed, req'[s])
    <3>1. CASE s = r
      BY <1>3, <3>1 DEF RequestShown, Saving, Attaches
    <3> QED BY <1>3, <3>1 DEF LedgerInv, ShownInv
  <2> QED BY <1>1, <1>4, <2>1, <2>2, <2>3 DEF LedgerInv, ShownInv
<1>8. SpendInv'
  <2>1. \A s \in Requests : Pens(req'[s]) => Pens(req[s]) /\ req'[s].review = req[s].review
    BY <1>3 DEF Pens
  <2>2. dead' \subseteq spent /\ Live(disk'.profiles) \subseteq spent /\ Live(durable'.profiles) \subseteq spent
    BY <1>1 DEF LedgerInv, SpendInv
  <2>3. \A e \in Daemons : DOMAIN store'[e].pending \subseteq DOMAIN store[e].pending
    BY <1>2, <1>5
  <2> QED BY <1>1, <2>1, <2>2, <2>3, SpendFrame DEF LedgerInv
<1>9. SaveInv'
  <2>1. ASSUME NEW s \in Requests, req'[s].pc = "written"
        PROVE  store'[req[s].home].disk = store[req[s].home].disk
    <3>1. s # r /\ req[s].pc = "written"
      BY <1>3, <2>1
    <3>2. req[s].home \in Daemons /\ req[s].home # d
      BY <1>1, <3>1, RequestFacts DEF Inv, Exclusive, Holding, Saving
    <3> QED BY <1>2, <3>2
  <2>2. \A s \in Requests : req'[s] = req[s] \/ req'[s].pc \notin {"made", "locked", "written", "renamed"}
    BY <1>3
  <2> QED BY <1>1, <1>4, <2>1, <2>2, SaveFrame DEF LedgerInv
<1>10. DecisionsSurvive'
  <2>1. owed' = [p \in DOMAIN owed \cup old.scope |-> IF p \in old.scope THEN L[p] ELSE owed[p]]
    BY DEF SyncDirectory
  <2>2. old.scope \subseteq DOMAIN L
    BY <1>6 DEF Prepared
  <2>3. \A p \in DOMAIN owed : p \in DOMAIN L /\ L[p] = owed[p]
    BY <1>4 DEF LedgerInv, DecisionsSurvive, AcknowledgedIsKept
  <2>4. AcknowledgedIsKept'
    BY <1>1, <1>4, <2>1, <2>2, <2>3 DEF AcknowledgedIsKept
  <2>5. DeadStaysDead'
    BY <1>1, <1>4 DEF LedgerInv, DecisionsSurvive, DeadStaysDead
  <2> QED BY <2>4, <2>5 DEF DecisionsSurvive
<1> QED BY <1>7, <1>8, <1>9, <1>10 DEF LedgerInv

-----------------------------------------------------------------------------
(* What may happen to the disk.                                            *)

LEMMA PowerLossKeeps ==
  ASSUME Inv, LedgerInv, PowerLoss
  PROVE  LedgerInv'
<1>1. /\ UNCHANGED <<issued, reviewed, spent, dead, owed>>
      /\ disk' \in {disk, durable} /\ durable' = disk'
  BY DEF PowerLoss, history
<1>2. Idle.pc = "idle" /\ Receipts(NewStore) = Empty /\ DOMAIN NewStore.pending = {}
  BY EmptyPartial DEF Idle, NewStore, NoDisk, Receipts
<1>3. \A s \in Requests : req'[s].pc = "idle"
  BY <1>2, RequestFacts DEF PowerLoss, Fallen
<1>4. \A d \in Daemons : store'[d] = NewStore
  BY DEF PowerLoss
<1>5. ShownInv'
  <2>1. \A d \in Daemons : StoreShown(reviewed, store'[d])
    BY <1>2, <1>4, NothingToShow DEF StoreShown
  <2>2. \A s \in Requests : RequestShown(reviewed, req'[s])
    BY <1>3 DEF RequestShown, Saving, Attaches
  <2> QED BY <1>1, <2>1, <2>2 DEF LedgerInv, ShownInv
<1>6. SpendInv'
  BY <1>1, <1>2, <1>3, <1>4 DEF LedgerInv, SpendInv, Pens
<1>7. SaveInv'
  <2>1. \A s \in Requests : ~Makes(req'[s]) /\ req'[s].pc \notin Flocked
    BY <1>3 DEF Makes, Flocked
  <2>2. /\ disk'.state # "ledger" => disk'.profiles = Empty
        /\ durable'.state # "ledger" => durable'.profiles = Empty
    BY <1>1 DEF LedgerInv, SaveInv
  <2> QED BY <1>3, <2>1, <2>2 DEF SaveInv
<1>8. DecisionsSurvive'
  BY <1>1 DEF LedgerInv, DecisionsSurvive, AcknowledgedIsKept, DeadStaysDead
<1> QED BY <1>5, <1>6, <1>7, <1>8 DEF LedgerInv

LEMMA RemovalKeeps ==
  ASSUME Inv, LedgerInv, RemoveDirectory
  PROVE  LedgerInv'
<1>1. /\ UNCHANGED <<store, req, issued, reviewed, spent, dead>>
      /\ disk' = NoDisk /\ durable' = NoDisk /\ owed' = Empty
      /\ \A r \in Requests : req[r].pc \notin Saving
  BY DEF RemoveDirectory
<1>2. NoDisk.profiles = Empty /\ DOMAIN Empty = {} /\ Live(Empty) = {}
  BY EmptyPartial, NothingToShow DEF NoDisk
<1>3. ShownInv'
  BY <1>1, <1>2, NothingToShow DEF LedgerInv, ShownInv
<1>4. SpendInv'
  BY <1>1, <1>2 DEF LedgerInv, SpendInv
<1>5. SaveInv'
  BY <1>1, <1>2 DEF SaveInv, Makes, Flocked, Saving
<1>6. DecisionsSurvive'
  BY <1>1, <1>2 DEF DecisionsSurvive, AcknowledgedIsKept, DeadStaysDead
<1> QED BY <1>3, <1>4, <1>5, <1>6 DEF LedgerInv

-----------------------------------------------------------------------------
(* The invariant holds.                                                    *)

LEMMA LedgerInit ==
  ASSUME Init
  PROVE  LedgerInv
<1> PICK f : f = disk.profiles
  OBVIOUS
<1>1. /\ f \in Ledgers /\ disk.state # "bare" /\ (disk.state = "absent" => f = Empty)
      /\ \A p, q \in DOMAIN f : f[p].review = f[q].review /\ f[p] # BlockReceipt => p = q
      /\ disk.state \in {"absent", "bare", "ledger"}
  BY InitialLedgersWereWritten DEF Init, Disks
<1>2. /\ durable = disk /\ issued = spent /\ owed = f /\ dead = spent \ Live(f)
      /\ spent = {f[p].review : p \in DOMAIN f} \ {None}
      /\ \A d \in Daemons : store[d] = NewStore
      /\ \A r \in Requests : req[r] = Idle
  BY DEF Init
<1>3. Idle.pc = "idle" /\ Receipts(NewStore) = Empty /\ DOMAIN NewStore.pending = {}
  BY EmptyPartial DEF Idle, NewStore, NoDisk, Receipts
<1>4. DOMAIN reviewed = spent
  BY DEF Init
<1>5. AsReviewed(reviewed, f)
  <2> SUFFICES ASSUME NEW p \in DOMAIN f, f[p].review \in Reviews
               PROVE  Showed(reviewed, f[p].review, p, f[p].print)
    BY DEF AsReviewed
  <2> PICK id : id = f[p].review
    OBVIOUS
  <2>1. id \in spent /\ f[p] # BlockReceipt
    BY <1>2, NoneIsNoReview DEF BlockReceipt
  <2>2. \A q \in DOMAIN f : f[q].review = id => q = p
    BY <1>1, <2>1
  <2>3. (CHOOSE q \in DOMAIN f : f[q].review = id) = p
    BY <2>2
  <2>4. reviewed[id] = [profile |-> p, contents |-> f[p].print]
    BY <2>1, <2>3 DEF Init
  <2> QED BY <1>4, <2>1, <2>4 DEF Showed
<1>6. ShownInv
  <2>1. \A d \in Daemons : StoreShown(reviewed, store[d])
    BY <1>2, <1>3, NothingToShow DEF StoreShown
  <2>2. \A r \in Requests : RequestShown(reviewed, req[r])
    BY <1>2, <1>3 DEF RequestShown, Saving, Attaches
  <2> QED BY <1>2, <1>4, <1>5, <2>1, <2>2 DEF ShownInv
<1>7. SpendInv
  <2>1. Live(f) \subseteq spent
    <3> SUFFICES ASSUME NEW p \in DOMAIN f, ~f[p].revoked PROVE f[p].review \in spent
      BY DEF Live
    <3>1. f[p].review \in Reviews
      BY <1>1, LedgerFacts, LiveReceipt
    <3> QED BY <1>2, <3>1, NoneIsNoReview
  <2> QED BY <1>2, <1>3, <2>1 DEF SpendInv, Pens
<1>8. SaveInv
  <2>1. \A r \in Requests : req[r].pc = "idle" /\ ~Makes(req[r]) /\ req[r].pc \notin Flocked
    BY <1>2, <1>3 DEF Makes, Flocked
  <2> QED BY <1>1, <1>2, <2>1 DEF SaveInv
<1>9. DecisionsSurvive
  BY <1>2 DEF DecisionsSurvive, AcknowledgedIsKept, DeadStaysDead
<1> QED BY <1>6, <1>7, <1>8, <1>9 DEF LedgerInv

LEMMA OrdinaryKeeps ==
  ASSUME Inv, Inv', LedgerInv, NEW r, Ordinary(r)
  PROVE  LedgerInv'
<1>1. DecisionsSurvive'
  BY DEF Ordinary, history, LedgerInv, DecisionsSurvive, AcknowledgedIsKept, DeadStaysDead
<1> QED BY <1>1, ShownKept, SpendKept, SaveKept DEF LedgerInv

(* What a step may be: it touches the disk, or a history, or is ordinary.  *)
LEMMA StepKinds ==
  ASSUME Inv, LedgerInv, Next
  PROVE  \/ \E r \in Requests : StageReview(r) \/ MakeDirectory(r) \/ Rename(r) \/ SyncDirectory(r)
         \/ PowerLoss \/ RemoveDirectory
         \/ \E r : Ordinary(r)
<1>1. ASSUME NEW r \in Requests, RequestStep(r)
      PROVE  StageReview(r) \/ MakeDirectory(r) \/ Rename(r) \/ SyncDirectory(r) \/ Ordinary(r)
  BY <1>1, LookupOrdinary, ArrivalOrdinary, LoadProfileOrdinary, OpeningOrdinary, ReviewOrdinary,
     BlockOrdinary, SaveOrdinary
     DEF RequestStep, LedgerInv
<1>2. ASSUME Environment PROVE PowerLoss \/ RemoveDirectory \/ \E r : Ordinary(r)
  BY <1>2, EnvironmentOrdinary DEF Environment
<1> QED BY <1>1, <1>2 DEF Next

LEMMA LedgerInvHolds == Spec => [](Inv /\ LedgerInv)
<1>1. Init => Inv /\ LedgerInv
  BY InitFits, LedgerInit
<1>2. Inv /\ LedgerInv /\ [Next]_vars => (Inv /\ LedgerInv)'
  <2> SUFFICES ASSUME Inv, LedgerInv, [Next]_vars PROVE (Inv /\ LedgerInv)'
    OBVIOUS
  <2>1. Inv'
    BY StepKeeps
  <2>2. CASE Next
    BY <2>1, <2>2, StepKinds, OrdinaryKeeps, StageReviewKeeps, MakeDirectoryKeeps, RenameKeeps,
       SyncDirectoryKeeps, PowerLossKeeps, RemovalKeeps
  <2>3. CASE UNCHANGED vars
    <3>1. UNCHANGED <<disk, durable, store, req, issued, history>>
      BY <2>3 DEF vars
    <3>2. ShownInv' /\ SpendInv'
      BY <3>1 DEF history, LedgerInv, ShownInv, SpendInv
    <3>3. SaveInv' /\ DecisionsSurvive'
      BY <3>1 DEF history, LedgerInv, SaveInv, Store, Receipts, DecisionsSurvive,
         AcknowledgedIsKept, DeadStaysDead
    <3> QED BY <2>1, <3>2, <3>3 DEF LedgerInv
  <2> QED BY <2>2, <2>3
<1> QED BY <1>1, <1>2, PTL DEF Spec

(* An acknowledged decision outlives crashes and losses of power until the *)
(* next one about its profile, and a review whose approval was revoked,    *)
(* blocked or replaced is never live again (trust_disk::save).             *)
THEOREM DecisionsKept == Spec => []DecisionsSurvive
  BY LedgerInvHolds, PTL DEF LedgerInv

(* A session whose grant a review gave runs the servers that review showed, *)
(* however the grant was restored (TrustStore::sync, open_session).        *)
THEOREM SessionsAsReviewed == Spec => []AttachedAsReviewed
<1>1. LedgerInv => AttachedAsReviewed
  BY DEF LedgerInv, ShownInv, RequestShown, AttachedAsReviewed, Attaches
<1> QED BY <1>1, LedgerInvHolds, PTL

-----------------------------------------------------------------------------
(* The ledger is an atomic map of decisions.                               *)

LEMMA DecisionFacts ==
  ASSUME NEW f \in Ledgers
  PROVE  /\ DecisionIn(f) \in [Profiles -> {Undecided, Blocked} \cup Reviews]
         /\ \A p \in Profiles : DecisionIn(f)[p] \in Reviews => DecisionIn(f)[p] \in Live(f)
<1>1. ASSUME NEW p \in Profiles
      PROVE  /\ DecisionIn(f)[p] \in {Undecided, Blocked} \cup Reviews
             /\ DecisionIn(f)[p] \in Reviews => DecisionIn(f)[p] \in Live(f)
  <2>1. CASE p \in DOMAIN f /\ ~f[p].revoked
    <3>1. DecisionIn(f)[p] = f[p].review /\ f[p].review \in Reviews
      BY <2>1, LedgerFacts, LiveReceipt DEF DecisionIn
    <3> QED BY <2>1, <3>1 DEF Live
  <2>2. CASE ~(p \in DOMAIN f /\ ~f[p].revoked)
    <3>1. DecisionIn(f)[p] \in {Undecided, Blocked}
      BY <2>2 DEF DecisionIn
    <3> QED BY <3>1, NoReviewIsSuchAWord
  <2> QED BY <2>1, <2>2
<1> QED BY <1>1 DEF DecisionIn

LEMMA SameDecisions ==
  ASSUME NEW q, NEW f, Prepared(q, f), NEW p \in Profiles \ q.scope
  PROVE  DecisionIn(q.next)[p] = DecisionIn(f)[p]
<1>1. p \in DOMAIN q.next <=> p \in DOMAIN f
  BY DEF Prepared
<1>2. CASE p \in DOMAIN f
  BY <1>1, <1>2 DEF Prepared, DecisionIn
<1>3. CASE p \notin DOMAIN f
  BY <1>1, <1>3 DEF DecisionIn
<1> QED BY <1>2, <1>3

(* What a prepared ledger decides: an approval decides one profile by its  *)
(* review, any other decision blocks its profiles.                         *)
LEMMA ApprovalDecides ==
  ASSUME NEW q, NEW f, Prepared(q, f), q.job = "approve"
  PROVE  /\ q.profile \in Profiles /\ q.review \in Reviews
         /\ q.review \in Live(q.next)
         /\ DecisionIn(q.next) = [DecisionIn(f) EXCEPT ![q.profile] = q.review]
<1>1. /\ q.profile \in Profiles /\ q.review \in Reviews /\ q.scope = {q.profile}
      /\ q.profile \in DOMAIN q.next
      /\ ~q.next[q.profile].revoked /\ q.next[q.profile].review = q.review
  BY DEF Prepared, Approves
<1>2. DecisionIn(q.next)[q.profile] = q.review
  BY <1>1 DEF DecisionIn
<1>3. \A p \in Profiles : p # q.profile => DecisionIn(q.next)[p] = DecisionIn(f)[p]
  BY <1>1, SameDecisions
<1>4. DecisionIn(q.next) = [DecisionIn(f) EXCEPT ![q.profile] = q.review]
  <2> PICK g, h : g = DecisionIn(q.next) /\ h = DecisionIn(f)
    OBVIOUS
  <2>1. /\ g = [p \in Profiles |-> g[p]] /\ h = [p \in Profiles |-> h[p]]
    BY DEF DecisionIn
  <2> QED BY <1>2, <1>3, <2>1
<1> QED BY <1>1, <1>4 DEF Live

LEMMA BlockDecides ==
  ASSUME NEW q, NEW f, Prepared(q, f), q.job # "approve"
  PROVE  DecisionIn(q.next) =
           [p \in Profiles |-> IF p \in q.scope THEN Blocked ELSE DecisionIn(f)[p]]
<1>1. ASSUME NEW p \in Profiles, p \in q.scope PROVE DecisionIn(q.next)[p] = Blocked
  BY <1>1 DEF Prepared, DecisionIn
<1>2. ASSUME NEW p \in Profiles, p \notin q.scope PROVE DecisionIn(q.next)[p] = DecisionIn(f)[p]
  BY <1>2, SameDecisions
<1> PICK g, h : g = DecisionIn(q.next) /\ h = DecisionIn(f)
  OBVIOUS
<1>3. g = [p \in Profiles |-> g[p]]
  BY DEF DecisionIn
<1> QED BY <1>1, <1>2, <1>3

LEMMA RenameDecides ==
  ASSUME Inv, LedgerInv, NEW r \in Requests, Rename(r)
  PROVE  Ledger!Next
<1> PICK q \in RequestType : q = req[r]
  BY RequestFacts
<1>1. /\ q.pc = "written" /\ UNCHANGED durable
      /\ disk'.profiles = q.next /\ spent' = spent \cup Live(q.next)
  BY DEF Rename
<1>2. Prepared(q, disk.profiles)
  BY <1>1, WrittenFacts DEF LedgerInv
<1>3. DecisionIn(durable.profiles)' = DecisionIn(durable.profiles)
  BY <1>1 DEF DecisionIn
<1>4. DecisionIn(disk.profiles)' = DecisionIn(q.next)
  BY <1>1 DEF DecisionIn
<1>5. Live(disk.profiles) \subseteq spent
  BY DEF LedgerInv, SpendInv
<1>6. CASE q.job = "approve"
  <2>1. Pens(q)
    BY <1>1, <1>6 DEF Pens
  <2>2. q.review \notin spent
    BY <2>1 DEF LedgerInv, SpendInv
  <2>3. /\ q.profile \in Profiles /\ q.review \in Reviews /\ q.review \in Live(q.next)
        /\ DecisionIn(q.next) = [DecisionIn(disk.profiles) EXCEPT ![q.profile] = q.review]
    BY <1>2, <1>6, ApprovalDecides
  <2>4. Live(q.next) \subseteq Live(disk.profiles) \cup {q.review}
    BY <1>2, PreparedLive
  <2>5. spent' = spent \cup {q.review}
    BY <1>1, <1>5, <2>3, <2>4
  <2>6. Ledger!Approve(q.profile, q.review)
    BY <1>3, <1>4, <2>2, <2>3, <2>5 DEF Ledger!Approve
  <2> QED BY <2>3, <2>6 DEF Ledger!Next
<1>7. CASE q.job # "approve"
  <2>1. Live(q.next) \subseteq Live(disk.profiles)
    BY <1>2, <1>7, PreparedLive
  <2>2. UNCHANGED spent
    BY <1>1, <1>5, <2>1
  <2>3. DecisionIn(q.next) =
          [p \in Profiles |-> IF p \in q.scope THEN Blocked ELSE DecisionIn(disk.profiles)[p]]
    BY <1>2, <1>7, BlockDecides
  <2>4. Ledger!Block(q.scope)
    BY <1>3, <1>4, <2>2, <2>3 DEF Ledger!Block
  <2>5. q.scope \in SUBSET Profiles
    BY DEF RequestType
  <2> QED BY <2>4, <2>5 DEF Ledger!Next
<1> QED BY <1>6, <1>7

LEMMA LedgerStep ==
  ASSUME Inv, LedgerInv, Next
  PROVE  \/ Ledger!Next
         \/ UNCHANGED <<DecisionIn(disk.profiles), DecisionIn(durable.profiles), spent>>
<1>1. ASSUME disk'.profiles = disk.profiles, UNCHANGED <<durable, spent>>
      PROVE  UNCHANGED <<DecisionIn(disk.profiles), DecisionIn(durable.profiles), spent>>
  BY <1>1 DEF DecisionIn
<1>2. ASSUME NEW r \in Requests, StageReview(r)
      PROVE  UNCHANGED <<DecisionIn(disk.profiles), DecisionIn(durable.profiles), spent>>
  BY <1>1, <1>2 DEF StageReview, files
<1>3. ASSUME NEW r \in Requests, MakeDirectory(r)
      PROVE  UNCHANGED <<DecisionIn(disk.profiles), DecisionIn(durable.profiles), spent>>
  <2> PICK dk \in Disks : dk = disk
    BY RestOfTypes DEF Inv, Rest
  <2>1. disk'.profiles = dk.profiles
    BY <1>3 DEF MakeDirectory, Disks
  <2> QED BY <1>1, <1>3, <2>1 DEF MakeDirectory, history
<1>4. ASSUME NEW r, Ordinary(r)
      PROVE  UNCHANGED <<DecisionIn(disk.profiles), DecisionIn(durable.profiles), spent>>
  BY <1>1, <1>4 DEF Ordinary, history
<1>5. ASSUME NEW r \in Requests, SyncDirectory(r) PROVE Ledger!Next
  <2>1. UNCHANGED <<disk, spent>> /\ durable' = disk
    BY <1>5 DEF SyncDirectory
  <2>2. Ledger!Persist
    BY <2>1 DEF Ledger!Persist, DecisionIn
  <2> QED BY <2>2 DEF Ledger!Next
<1>6. ASSUME PowerLoss PROVE Ledger!Next
  <2>1. UNCHANGED spent /\ durable' = disk' /\ disk' \in {disk, durable}
    BY <1>6 DEF PowerLoss, history
  <2>2. CASE disk' = disk
    BY <2>1, <2>2 DEF Ledger!Next, Ledger!Persist, DecisionIn
  <2>3. CASE disk' = durable
    BY <2>1, <2>3 DEF Ledger!Next, Ledger!PowerLoss, DecisionIn
  <2> QED BY <2>1, <2>2, <2>3
<1>7. ASSUME RemoveDirectory PROVE Ledger!Next
  <2>1. UNCHANGED spent /\ disk'.profiles = Empty /\ durable'.profiles = Empty /\ DOMAIN Empty = {}
    BY <1>7, EmptyPartial DEF RemoveDirectory, NoDisk
  <2>2. /\ DecisionIn(disk.profiles)' = [p \in Profiles |-> Undecided]
        /\ DecisionIn(durable.profiles)' = [p \in Profiles |-> Undecided]
    BY <2>1 DEF DecisionIn
  <2> QED BY <2>1, <2>2 DEF Ledger!Next, Ledger!Removal
<1> QED BY <1>2, <1>3, <1>4, <1>5, <1>6, <1>7, StepKinds, RenameDecides

(* The ledger implements TrustLedger, an atomic map of decisions: a rename *)
(* is one approval or one block, a sync of the directory makes it last, a  *)
(* loss of power takes back what was not synced, and no other system call  *)
(* of trust_disk::save shows (trust.rs, trust_disk.rs).                    *)
THEOREM LedgerImplements == Spec => LedgerIsAtomic
<1>1. ASSUME Init PROVE Ledger!Init
  <2>1. disk.profiles \in Ledgers /\ durable = disk /\ spent \subseteq Reviews
    BY <1>1, InitFits, RestOfTypes DEF Init, Inv, Rest, Disks
  <2>2. Live(disk.profiles) \subseteq spent
    BY <1>1, LedgerInit DEF LedgerInv, SpendInv
  <2> QED BY <2>1, <2>2, DecisionFacts DEF Ledger!Init, Ledger!Decisions
<1>2. ASSUME Inv, LedgerInv, [Next]_vars
      PROVE  [Ledger!Next]_<<DecisionIn(disk.profiles), DecisionIn(durable.profiles), spent>>
  <2>1. CASE Next
    BY <1>2, <2>1, LedgerStep
  <2>2. CASE UNCHANGED vars
    BY <2>2 DEF vars, history, DecisionIn
  <2> QED BY <1>2, <2>1, <2>2
<1> QED BY <1>1, <1>2, LedgerInvHolds, PTL DEF Spec, LedgerIsAtomic, Ledger!Spec

-----------------------------------------------------------------------------
(* Without a grant, a session runs what the files say.                     *)

(* A session with no grant runs the files' servers, or its profile was     *)
(* decided since; an editor about to write has blocked what it will change. *)
CurrentInv ==
  \A r \in Requests :
    /\ req[r].pc \in Attaches /\ req[r].review = None =>
         \/ req[r].version = config.of[req[r].profile]
         \/ req[r].profile \in DOMAIN disk.profiles
    /\ req[r].pc = "blocked" => req[r].scope \subseteq DOMAIN disk.profiles

LEMMA CurrentFrame ==
  ASSUME CurrentInv, DOMAIN disk.profiles \subseteq DOMAIN disk'.profiles, UNCHANGED config,
         \A s \in Requests :
           \/ req'[s] = req[s]
           \/ req'[s].pc \notin Attaches \cup {"blocked"}
           \/ req'[s].pc = "blocked" /\ req'[s].scope \subseteq DOMAIN disk'.profiles
  PROVE  CurrentInv'
<1>1. "blocked" \notin Attaches
  BY DEF Attaches
<1> QED BY <1>1 DEF CurrentInv

LEMMA OrdinaryCurrent ==
  ASSUME CurrentInv, NEW r, Ordinary(r), UNCHANGED config
  PROVE  CurrentInv'
<1> SUFFICES ASSUME NEW s \in Requests
             PROVE  /\ req'[s].pc \in Attaches /\ req'[s].review = None =>
                         \/ req'[s].version = config.of[req'[s].profile]
                         \/ req'[s].profile \in DOMAIN disk.profiles
                    /\ req'[s].pc = "blocked" => req'[s].scope \subseteq DOMAIN disk.profiles
  BY DEF CurrentInv, Ordinary
<1>1. Outcome(r, s)
  BY DEF Ordinary
<1>2. CASE req'[s] = req[s]
  BY <1>2 DEF CurrentInv
<1>3. CASE req'[s] = Idle
  BY <1>3 DEF Idle, Attaches
<1>4. CASE req'[s] # req[s] /\ req'[s] # Idle
  <2> PICK old, q : old = req[s] /\ q = req'[s]
    OBVIOUS
  <2> PICK m, n : m = store[q.home] /\ n = store'[q.home]
    OBVIOUS
  <2>1. Changes(r, old, q, m, n)
    BY <1>1, <1>4 DEF Outcome
  <2>2. Attached(old, q, n) /\ (q.pc = "blocked" => q.scope = {})
    BY <2>1 DEF Changes
  <2> QED BY <2>2 DEF Attached, GoesOn, CurrentInv
<1> QED BY <1>2, <1>3, <1>4

LEMMA WriteConfigCurrent ==
  ASSUME Inv, CurrentInv, NEW r \in Requests, WriteConfig(r)
  PROVE  CurrentInv'
<1> PICK S : S = req[r].scope
  OBVIOUS
<1>1. S \subseteq DOMAIN disk.profiles /\ UNCHANGED disk
  BY DEF WriteConfig, CurrentInv
<1>2. \A p \in Profiles \ S : config'.of[p] = config.of[p]
  BY DEF WriteConfig, Edited
<1>3. req'[r].pc = "idle" /\ \A s \in Requests : s # r => req'[s] = req[s]
  BY RestOfTypes DEF Inv, WriteConfig, Ends, Idle
<1>4. \A s \in Requests : req[s].pc \in Attaches => req[s].profile \in Profiles
  BY RequestFacts DEF Knows, Opening, Attaches
<1>5. "idle" \notin Attaches
  BY DEF Attaches
<1> QED BY <1>1, <1>2, <1>3, <1>4, <1>5 DEF CurrentInv

LEMMA ConfigChanges ==
  ASSUME Inv, Next, MaxOutsideEdits = 0
  PROVE  UNCHANGED config \/ \E r \in Requests : WriteConfig(r)
<1>1. ~OutsideEdit
  <2>1. used.edits \in Nat
    BY RestOfTypes DEF Inv, Rest
  <2> QED BY <2>1 DEF OutsideEdit
<1>2. ASSUME Environment PROVE UNCHANGED config
  BY <1>1, <1>2
     DEF Environment, ReviewExpires, ListTrust, DaemonCrash, PowerLoss, RemoveDirectory, files
<1>3. ASSUME NEW r \in Requests, RequestStep(r), ~WriteConfig(r) PROVE UNCHANGED config
  <2>1. CASE \/ \E d \in Daemons, p \in Profiles : Lookup(r, d, p) \/ Inspect(r, d, p) \/ DecideRevoke(r, d, p)
             \/ \E d \in Daemons, id \in Reviews : DecideApprove(r, d, id) \/ DecideCancel(r, d, id)
             \/ \E d \in Daemons, scope \in Scopes : BeginEdit(r, d, scope)
    BY <2>1 DEF Lookup, Inspect, DecideRevoke, DecideApprove, DecideCancel, Decide, BeginEdit, files
  <2>2. CASE \/ LoadProfile(r) \/ Capture(r) \/ Resync(r) \/ BeginAttach(r) \/ Publish(r) \/ GiveUp(r)
             \/ Discover(r) \/ StageReview(r) \/ Approve(r) \/ CancelReview(r) \/ Revoke(r)
    BY <2>2 DEF LoadProfile, Capture, Resync, BeginAttach, Publish, GiveUp, Discover, StageReview,
       Approve, CancelReview, Revoke, files
  <2>3. CASE \/ BlockForEdit(r) \/ MakeDirectory(r) \/ TakeLock(r) \/ Compare(r) \/ Rename(r)
             \/ SyncDirectory(r) \/ SaveFails(r)
    BY <2>3 DEF BlockForEdit, MakeDirectory, TakeLock, Compare, Rename, SyncDirectory, SaveFails, files
  <2> QED BY <1>3, <2>1, <2>2, <2>3 DEF RequestStep
<1> QED BY <1>2, <1>3 DEF Next

LEMMA CurrentKept ==
  ASSUME Inv, LedgerInv, CurrentInv, Next, MaxOutsideEdits = 0, MaxRemovals = 0
  PROVE  CurrentInv'
<1>1. ASSUME NEW r \in Requests, WriteConfig(r) PROVE CurrentInv'
  BY <1>1, WriteConfigCurrent
<1>2. SUFFICES ASSUME UNCHANGED config PROVE CurrentInv'
  BY <1>1, ConfigChanges
<1>3. Idle.pc = "idle" /\ "idle" \notin Attaches \cup {"blocked"}
  BY DEF Idle, Attaches
<1>4. ASSUME NEW r \in Requests, StageReview(r) PROVE CurrentInv'
  <2>1. \A s \in Requests : req'[s] = req[s] \/ req'[s] = Idle
    BY <1>4, RestOfTypes DEF Inv, StageReview, Ends
  <2> QED BY <1>2, <1>3, <1>4, <2>1, CurrentFrame DEF StageReview, files
<1>5. ASSUME NEW r \in Requests, MakeDirectory(r) PROVE CurrentInv'
  <2> PICK old \in RequestType : old = req[r]
    BY RequestFacts
  <2> PICK b \in BOOLEAN : b = (disk.state = "absent")
    OBVIOUS
  <2> PICK q : q = [old EXCEPT !.pc = "made", !.created = b]
    OBVIOUS
  <2> PICK dk \in Disks : dk = disk
    BY RestOfTypes DEF Inv, Rest
  <2>1. disk'.profiles = dk.profiles
    BY <1>5 DEF MakeDirectory, Disks
  <2>2. q.pc \notin Attaches \cup {"blocked"}
    BY DEF RequestType, Attaches
  <2>3. req'[r] = q /\ \A s \in Requests : s # r => req'[s] = req[s]
    BY <1>5, RestOfTypes DEF Inv, MakeDirectory
  <2> QED BY <1>2, <2>1, <2>2, <2>3, CurrentFrame
<1>6. ASSUME NEW r \in Requests, Rename(r) PROVE CurrentInv'
  <2>1. req[r].pc = "written" /\ disk'.profiles = req[r].next
    BY <1>6 DEF Rename
  <2>2. DOMAIN disk.profiles \subseteq DOMAIN disk'.profiles
    BY <2>1, WrittenFacts DEF LedgerInv, Prepared
  <2>3. req'[r].pc \notin Attaches \cup {"blocked"} /\ \A s \in Requests : s # r => req'[s] = req[s]
    BY <1>6, RestOfTypes DEF Inv, Rename, Goes, RequestType, Attaches
  <2> QED BY <1>2, <2>2, <2>3, CurrentFrame
<1>7. ASSUME NEW r \in Requests, SyncDirectory(r) PROVE CurrentInv'
  <2> PICK old \in RequestType : old = req[r]
    BY RequestFacts
  <2>1. old.pc = "renamed" /\ UNCHANGED disk /\ (Goes(r, "blocked") \/ Ends(r))
    BY <1>7 DEF SyncDirectory
  <2>2. old.scope \subseteq DOMAIN disk.profiles
    <3>1. disk.profiles = old.next
      BY <2>1 DEF LedgerInv, SaveInv
    <3>2. old.scope \subseteq DOMAIN old.next
      BY <2>1, RequestFacts DEF Ready, Prepared, Saving
    <3> QED BY <3>1, <3>2
  <2> PICK q : q = [old EXCEPT !.pc = "blocked"]
    OBVIOUS
  <2>3. q.pc = "blocked" /\ q.scope = old.scope
    BY DEF RequestType
  <2>4. (req'[r] = q \/ req'[r] = Idle) /\ \A s \in Requests : s # r => req'[s] = req[s]
    BY <2>1, RestOfTypes DEF Inv, Goes, Ends
  <2>5. DOMAIN disk.profiles \subseteq DOMAIN disk'.profiles
    BY <2>1
  <2>6. ASSUME NEW s \in Requests
        PROVE  \/ req'[s] = req[s]
               \/ req'[s].pc \notin Attaches \cup {"blocked"}
               \/ req'[s].pc = "blocked" /\ req'[s].scope \subseteq DOMAIN disk'.profiles
    <3>1. CASE s # r
      BY <2>4, <3>1
    <3>2. CASE s = r /\ req'[r] = Idle
      BY <1>3, <3>2
    <3>3. CASE s = r /\ req'[r] = q
      <4>1. req'[s].pc = "blocked" /\ req'[s].scope = old.scope
        BY <2>3, <3>3
      <4> QED BY <2>1, <2>2, <4>1
    <3> QED BY <2>4, <3>1, <3>2, <3>3
  <2> QED BY <1>2, <2>5, <2>6, CurrentFrame
<1>8. ASSUME PowerLoss PROVE CurrentInv'
  <2>1. \A s \in Requests : req'[s].pc = "idle"
    BY <1>3, <1>8, RequestFacts DEF PowerLoss, Fallen
  <2> QED BY <1>3, <2>1 DEF CurrentInv
<1>9. ASSUME RemoveDirectory PROVE FALSE
  <2>1. used.removals \in Nat
    BY RestOfTypes DEF Inv, Rest
  <2> QED BY <1>9, <2>1 DEF RemoveDirectory
<1> QED BY <1>2, <1>4, <1>5, <1>6, <1>7, <1>8, <1>9, StepKinds, OrdinaryCurrent

(* Without a grant, what a session is published with is what the files say *)
(* at that moment, however long the vault and the servers took: an editor  *)
(* blocks the profiles it changes before it writes (profiles::edit,        *)
(* servers::edit).  No writer ignores the editors' lock, and nobody        *)
(* removes the trust directory.                                            *)
THEOREM UnreviewedRunsFiles ==
  ASSUME MaxOutsideEdits = 0, MaxRemovals = 0
  PROVE  Spec => UnreviewedIsCurrent
<1>1. Init => CurrentInv
  <2> SUFFICES ASSUME Init PROVE CurrentInv
    OBVIOUS
  <2>1. \A r \in Requests : req[r].pc = "idle"
    BY DEF Init, Idle
  <2> QED BY <2>1 DEF CurrentInv, Attaches
<1>2. Inv /\ LedgerInv /\ CurrentInv /\ [Next]_vars => CurrentInv'
  <2> SUFFICES ASSUME Inv, LedgerInv, CurrentInv, UNCHANGED vars PROVE CurrentInv'
    BY CurrentKept
  <2> QED BY CurrentFrame DEF vars
<1>3. ASSUME Inv, CurrentInv, [Next]_vars
      PROVE  [\A r \in Requests :
                req[r].pc # "open" /\ req'[r].pc = "open" /\ req[r].review = None =>
                  req[r].version = config.of[req[r].profile]]_vars
  <2> SUFFICES ASSUME Next, NEW r \in Requests, req[r].pc # "open", req'[r].pc = "open",
                      req[r].review = None
               PROVE  req[r].version = config.of[req[r].profile]
    BY <1>3
  <2>1. Publish(r)
    BY <1>3, OnlyPublishOpens
  <2>2. req[r].pc \in Attaches
    BY <2>1 DEF Publish, Attaches
  <2>3. req[r].profile \notin DOMAIN disk.profiles
    BY <1>3, PublishStep
  <2> QED BY <1>3, <2>2, <2>3 DEF CurrentInv
<1> QED BY <1>1, <1>2, <1>3, LedgerInvHolds, PTL DEF Spec, UnreviewedIsCurrent
=============================================================================
