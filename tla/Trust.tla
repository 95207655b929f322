------------------------------- MODULE Trust --------------------------------
(***************************************************************************)
(* MCP trust across daemons that share one configuration directory: the    *)
(* ledger on disk, each daemon's store, and the requests that read or      *)
(* change them (src/src/api.rs, src/src/mcp/trust.rs, trust_disk.rs,       *)
(* profiles.rs, servers.rs).                                               *)
(*                                                                         *)
(* A request is a thread of one daemon.  Its pc says what it did last; in  *)
(* the pcs of Holding it is inside the daemon's mcp_trust mutex.  A save   *)
(* is one step per system call another process can see, so that the        *)
(* daemons, a crash and a loss of power interleave with it.  One step      *)
(* reads or writes the whole configuration: a review resolves the bytes it *)
(* fingerprints, so a torn read of two files is just another content.      *)
(***************************************************************************)
EXTENDS TrustStore

CONSTANTS Daemons, Requests,
          InitialLedgers,   \* ledgers earlier runs may have left (with what they reviewed)
          Offered,          \* the kinds of request that arrive
          MaxStarts,        \* bound: requests started
          MaxOutsideEdits,  \* bound: edits that ignore the editors' lock
          MaxCrashes,       \* bound: crashes of a daemon, losses of power
          MaxRemovals,      \* bound: removals of the whole trust directory
          MaxAccidents,     \* bound: edits, crashes and removals together
          DiskFails         \* whether a system call of a save may fail

ASSUME InitialLedgersWereWritten ==
  \A d \in InitialLedgers :
    /\ d \in Disks /\ d.state # "bare"
    /\ d.state = "absent" => d.profiles = Empty
    /\ Decodes(d.profiles)
    /\ \A p, q \in DOMAIN d.profiles :
         d.profiles[p].review = d.profiles[q].review /\ d.profiles[p] # BlockReceipt => p = q
ASSUME OfferedAreKinds == Offered \subseteq {"open", "review", "approve", "cancel", "revoke", "edit", "list"}
ASSUME BoundsAreNatural ==
  /\ MaxStarts \in Nat /\ MaxOutsideEdits \in Nat
  /\ MaxCrashes \in Nat /\ MaxRemovals \in Nat /\ MaxAccidents \in Nat /\ DiskFails \in BOOLEAN

(* What the ledger says of a profile that no live receipt decides. *)
Undecided == "undecided"
Blocked == "blocked"
ASSUME NoReviewIsSuchAWord == {Undecided, Blocked} \cap Reviews = {}

VARIABLES
  disk,      \* the trust directory as every process sees it
  durable,   \* the trust directory a loss of power leaves
  config,    \* mcp.json, mcp-profiles.json and the selected project
  store,     \* the TrustStore of each daemon (AppState.mcp_trust)
  req,       \* the requests
  issued,    \* review ids handed out
  reviewed,  \* history: what each review showed
  spent,     \* history: the reviews whose approval reached the ledger
  dead,      \* history: reviews an acknowledged decision ended
  owed,      \* history: per profile, the acknowledged receipt nothing touched since
  used       \* how much of each bound is used

history == <<reviewed, spent, dead, owed>>
vars == <<disk, durable, config, store, req, issued, history, used>>

-----------------------------------------------------------------------------
Opening  == {"looked", "loaded", "captured", "resynced", "attaching", "open"}
Deciding == {"inspected", "discovered", "approving", "revoking", "cancelling"}
Editing  == {"editing", "blocked"}
Saving   == {"save", "made", "locked", "written", "renamed"}
Holding  == {"looked", "loaded"} \cup Editing \cup Saving
Flocked  == {"locked", "written", "renamed"}

(* A session is a request at "open". *)
RequestType ==
  [pc : {"idle"} \cup Opening \cup Deciding \cup Editing \cup Saving,
   home : Daemons \cup {None}, profile : Profiles \cup {None},
   review : Reviews \cup {None}, version : Versions \cup {None},
   seen : Configs \cup {None}, job : {"none", "approve", "revoke", "edit"},
   scope : SUBSET Profiles, next : Ledgers, created : BOOLEAN]

Idle == [pc |-> "idle", home |-> None, profile |-> None, review |-> None,
         version |-> None, seen |-> None, job |-> "none", scope |-> {},
         next |-> Empty, created |-> FALSE]

Live(ledger) == {ledger[p].review : p \in {q \in DOMAIN ledger : ~ledger[q].revoked}}

TypeOK ==
  /\ disk \in Disks /\ durable \in Disks
  /\ config \in Configs
  /\ store \in [Daemons -> Stores]
  /\ req \in [Requests -> RequestType]
  /\ issued \subseteq Reviews
  /\ reviewed \in Partial(Reviews, [profile : Profiles, contents : Configs])
  /\ spent \subseteq Reviews /\ dead \subseteq Reviews
  /\ owed \in Ledgers
  /\ used \in [starts : Nat, edits : Nat, crashes : Nat, removals : Nat]

(* The receipts an earlier run left were reviewed as they are printed. *)
Init ==
  /\ disk \in InitialLedgers /\ durable = disk
  /\ config \in Configs
  /\ store = [d \in Daemons |-> NewStore]
  /\ req = [r \in Requests |-> Idle]
  /\ spent = {disk.profiles[p].review : p \in DOMAIN disk.profiles} \ {None}
  /\ issued = spent
  /\ reviewed = [id \in spent |->
       LET p == CHOOSE q \in DOMAIN disk.profiles : disk.profiles[q].review = id
       IN [profile |-> p, contents |-> disk.profiles[p].print]]
  /\ dead = spent \ Live(disk.profiles)
  /\ owed = disk.profiles
  /\ used = [starts |-> 0, edits |-> 0, crashes |-> 0, removals |-> 0]

-----------------------------------------------------------------------------
(* Steps. *)
MutexFree(d) == \A r \in Requests : req[r].home = d => req[r].pc \notin Holding
FlockFree == \A r \in Requests : req[r].pc \notin Flocked
ConfigLockFree == \A r \in Requests : req[r].job # "edit"

Store(r) == store[req[r].home]
Goes(r, pc) == req' = [req EXCEPT ![r].pc = pc]
Ends(r) == req' = [req EXCEPT ![r] = Idle]
SetStore(r, m) == store' = [store EXCEPT ![req[r].home] = m]

(* A request arrives: bound by MaxStarts. *)
Starts(r, kind, record) ==
  /\ kind \in Offered
  /\ req[r].pc = "idle" /\ used.starts < MaxStarts
  /\ used' = [used EXCEPT !.starts = @ + 1]
  /\ req' = [req EXCEPT ![r] = record]

Synced(d) == Sync(store[d], disk, config)
Syncs(d) == SyncOk(store[d], disk) /\ store' = [store EXCEPT ![d] = Synced(d)]

files == <<disk, durable, config>>

-----------------------------------------------------------------------------
(* open_session.  The profile is looked up, then loaded if no grant covers   *)
(* it, then checked again, all inside the mutex.                             *)
Lookup(r, d, p) ==
  /\ MutexFree(d)
  /\ Syncs(d)
  /\ p \notin Synced(d).revoked
  /\ LET granted == p \in DOMAIN Synced(d).grants
     IN Starts(r, "open", [Idle EXCEPT
          !.pc = IF granted THEN "loaded" ELSE "looked", !.home = d, !.profile = p,
          !.review = ApprovedId(Synced(d), p),
          !.version = IF granted THEN Synced(d).grants[p].resolution ELSE None])
  /\ UNCHANGED <<files, issued, history>>

LoadProfile(r) ==
  /\ req[r].pc = "looked"
  /\ req' = [req EXCEPT ![r].pc = "loaded", ![r].version = config.of[req[r].profile]]
  /\ UNCHANGED <<files, store, issued, history, used>>

(* The second sync of the lookup, the sync after the vault was opened, the   *)
(* check in a critical section of its own, and sync, check and insertion.    *)
StillTrusted(r, m) == TrustUnchanged(m, req[r].profile, req[r].review)

SyncAndCheck(r, pc) ==
  \/ /\ Syncs(req[r].home)
     /\ IF StillTrusted(r, Synced(req[r].home)) THEN Goes(r, pc) ELSE Ends(r)
  \/ /\ ~SyncOk(Store(r), disk)
     /\ Ends(r) /\ UNCHANGED store

Capture(r) ==
  /\ req[r].pc = "loaded"
  /\ SyncAndCheck(r, "captured")
  /\ UNCHANGED <<files, issued, history, used>>

Resync(r) ==
  /\ req[r].pc = "captured" /\ MutexFree(req[r].home)
  /\ \/ Syncs(req[r].home) /\ Goes(r, "resynced")
     \/ ~SyncOk(Store(r), disk) /\ Ends(r) /\ UNCHANGED store
  /\ UNCHANGED <<files, issued, history, used>>

BeginAttach(r) ==
  /\ req[r].pc = "resynced" /\ MutexFree(req[r].home)
  /\ IF StillTrusted(r, Store(r)) THEN Goes(r, "attaching") ELSE Ends(r)
  /\ UNCHANGED <<files, store, issued, history, used>>

PublishFromMemory(r) ==
  /\ req[r].pc = "attaching" /\ MutexFree(req[r].home)
  /\ IF StillTrusted(r, Store(r)) THEN Goes(r, "open") ELSE Ends(r)
  /\ UNCHANGED <<files, store, issued, history, used>>

Publish(r) ==
  /\ req[r].pc = "attaching" /\ MutexFree(req[r].home)
  /\ SyncAndCheck(r, "open")
  /\ UNCHANGED <<files, issued, history, used>>

(* The profile does not load, the vault does not open, a server does not     *)
(* start.                                                                    *)
GiveUp(r) ==
  /\ req[r].pc \in {"looked", "captured", "attaching"}
  /\ Ends(r)
  /\ UNCHANGED <<files, store, issued, history, used>>

-----------------------------------------------------------------------------
(* mcp_discovery: the files are read outside the mutex. *)
Inspect(r, d, p) ==
  /\ Starts(r, "review", [Idle EXCEPT !.pc = "inspected", !.home = d, !.profile = p, !.seen = config])
  /\ UNCHANGED <<files, store, issued, history>>

Discover(r) ==
  /\ req[r].pc = "inspected" /\ MutexFree(req[r].home)
  /\ \/ Syncs(req[r].home) /\ Goes(r, "discovered")
     \/ ~SyncOk(Store(r), disk) /\ Ends(r) /\ UNCHANGED store
  /\ UNCHANGED <<files, issued, history, used>>

StageReview(r) ==
  /\ req[r].pc = "discovered" /\ MutexFree(req[r].home)
  /\ \E id \in Reviews \ issued :
       /\ SetStore(r, Stage(Store(r), id, req[r].profile, req[r].seen))
       /\ issued' = issued \cup {id}
       /\ reviewed' = Put(reviewed, id, [profile |-> req[r].profile, contents |-> req[r].seen])
  /\ Ends(r)
  /\ UNCHANGED <<files, spent, dead, owed, used>>

(* Five minutes pass for one review. *)
ReviewExpires(d, id) ==
  /\ id \in DOMAIN store[d].pending /\ ~store[d].pending[id].expired
  /\ store' = [store EXCEPT ![d] = Expire(@, id)]
  /\ UNCHANGED <<files, req, issued, history, used>>

(* mcp_trusted, and an open_session refused at its lookup: a sync and no more. *)
ListTrust(d) ==
  /\ "list" \in Offered
  /\ MutexFree(d)
  /\ Syncs(d)
  /\ UNCHANGED <<files, req, issued, history, used>>

-----------------------------------------------------------------------------
(* mcp_trust_decision: a sync, then the decision in a section of its own. *)
Decide(r, kind, record) ==
  /\ MutexFree(record.home)
  /\ Syncs(record.home)
  /\ Starts(r, kind, record)
  /\ UNCHANGED <<files, issued, history>>

DecideApprove(r, d, id) ==
  id \in issued /\ Decide(r, "approve", [Idle EXCEPT !.pc = "approving", !.home = d, !.review = id])

DecideCancel(r, d, id) ==
  id \in issued /\ Decide(r, "cancel", [Idle EXCEPT !.pc = "cancelling", !.home = d, !.review = id])

DecideRevoke(r, d, p) ==
  Decide(r, "revoke", [Idle EXCEPT !.pc = "revoking", !.home = d, !.profile = p])

(* The review is used up, whatever comes of the approval. *)
Approve(r) ==
  LET id == req[r].review  m == Store(r)
  IN /\ req[r].pc = "approving" /\ MutexFree(req[r].home)
     /\ SetStore(r, Cancel(m, id))
     /\ IF Approvable(m, id, config)
        THEN req' = [req EXCEPT ![r] = [@ EXCEPT
               !.pc = "save", !.job = "approve", !.profile = m.pending[id].profile,
               !.version = m.pending[id].contents.of[m.pending[id].profile],
               !.scope = {m.pending[id].profile}, !.next = ApprovedLedger(m, id)]]
        ELSE Ends(r)
     /\ UNCHANGED <<files, issued, history, used>>

CancelReview(r) ==
  /\ req[r].pc = "cancelling" /\ MutexFree(req[r].home)
  /\ SetStore(r, Cancel(Store(r), req[r].review))
  /\ Ends(r)
  /\ UNCHANGED <<files, issued, history, used>>

Revoke(r) ==
  LET p == req[r].profile
  IN /\ req[r].pc = "revoking" /\ MutexFree(req[r].home)
     /\ IF p \in DOMAIN Receipts(Store(r))
        THEN req' = [req EXCEPT ![r] = [@ EXCEPT
               !.pc = "save", !.job = "revoke", !.scope = {p},
               !.next = BlockedLedger(Store(r), {p})]]
        ELSE Ends(r)
     /\ UNCHANGED <<files, store, issued, history, used>>

-----------------------------------------------------------------------------
(* The editors: profiles::edit blocks the profile it saves or deletes and    *)
(* none when it activates one; servers::edit blocks every profile known.     *)
(* The mutex is taken before the editors' lock and both are held throughout. *)
Scopes == {{}, Profiles} \cup {{p} : p \in Profiles}

BeginEdit(r, d, scope) ==
  /\ MutexFree(d) /\ ConfigLockFree
  /\ Starts(r, "edit", [Idle EXCEPT !.pc = "editing", !.home = d, !.job = "edit",
                            !.scope = scope, !.seen = config])
  /\ UNCHANGED <<files, store, issued, history>>

BlockForEdit(r) ==
  LET d == req[r].home  scope == req[r].scope
  IN /\ req[r].pc = "editing"
     /\ \/ /\ Syncs(d)
           /\ IF scope = {} THEN Goes(r, "blocked")
              ELSE IF Cardinality(DOMAIN Receipts(Synced(d)) \cup scope) > MaxReviews THEN Ends(r)
              ELSE req' = [req EXCEPT ![r] = [@ EXCEPT
                     !.pc = "save", !.next = BlockedLedger(Synced(d), scope)]]
        \/ /\ ~SyncOk(Store(r), disk)
           /\ Ends(r) /\ UNCHANGED store
     /\ UNCHANGED <<files, issued, history, used>>

(* What an edit may turn the files into: activation changes no server list. *)
Edited(scope) ==
  {c \in Configs :
     /\ \A p \in Profiles \ scope : c.of[p] = config.of[p]
     /\ scope # {} => c.active = config.active}

WriteConfig(r) ==
  /\ req[r].pc = "blocked"
  /\ IF req[r].seen = config THEN config' \in Edited(req[r].scope) ELSE UNCHANGED config
  /\ Ends(r)
  /\ UNCHANGED <<disk, durable, store, issued, history, used>>

-----------------------------------------------------------------------------
(* trust_disk::save, inside the mutex. *)
MakeDirectory(r) ==
  /\ req[r].pc = "save"
  /\ disk' = IF disk.state = "absent" THEN [disk EXCEPT !.state = "bare"] ELSE disk
  /\ req' = [req EXCEPT ![r].pc = "made", ![r].created = disk.state = "absent"]
  /\ UNCHANGED <<durable, config, store, issued, history, used>>

(* LOCK_NB: a lock held elsewhere is an error ("retry"). *)
TakeLock(r) ==
  /\ req[r].pc = "made"
  /\ IF FlockFree THEN Goes(r, "locked") ELSE Ends(r)
  /\ UNCHANGED <<files, store, issued, history, used>>

(* Compare, decode what is to be written, then write and sync the temporary  *)
(* file, which nobody reads.                                                 *)
Compare(r) ==
  /\ req[r].pc = "locked"
  /\ IF SaveMatches(Store(r), disk, req[r].created) /\ Decodes(req[r].next)
     THEN Goes(r, "written") ELSE Ends(r)
  /\ UNCHANGED <<files, store, issued, history, used>>

Rename(r) ==
  /\ req[r].pc = "written"
  /\ disk' = [state |-> "ledger", profiles |-> req[r].next]
  /\ Goes(r, "renamed")
  /\ spent' = spent \cup Live(req[r].next)
  /\ owed' = Without(owed, req[r].scope)
  /\ UNCHANGED <<durable, config, store, issued, reviewed, dead, used>>

(* The directory is synced, the lock let go, the store brought up to date    *)
(* and the decision acknowledged; an edit goes on to write its file.         *)
AfterSave(r) ==
  CASE req[r].job = "approve" ->
         AfterApprove(Store(r), req[r].next, req[r].profile, req[r].review, req[r].version)
    [] req[r].job = "revoke" -> AfterRevoke(Store(r), req[r].next, req[r].scope)
    [] req[r].job = "edit" -> AfterBlock(Store(r), req[r].next, req[r].scope)

AcknowledgeUnsynced(r) ==
  /\ req[r].pc = "renamed"
  /\ SetStore(r, AfterSave(r))
  /\ IF req[r].job = "edit" THEN Goes(r, "blocked") ELSE Ends(r)
  /\ dead' = dead \cup (spent \ Live(req[r].next))
  /\ owed' = [p \in DOMAIN owed \cup req[r].scope |->
                IF p \in req[r].scope THEN req[r].next[p] ELSE owed[p]]
  /\ UNCHANGED <<files, issued, reviewed, spent, used>>

(* Only mcp-trust/ is synced, never its parent: a loss of power may take a    *)
(* directory made since, with what was acknowledged in it.  That is           *)
(* RemoveDirectory and then PowerLoss; here the sync keeps the directory too. *)
SyncDirectory(r) ==
  /\ req[r].pc = "renamed"
  /\ durable' = disk
  /\ SetStore(r, AfterSave(r))
  /\ IF req[r].job = "edit" THEN Goes(r, "blocked") ELSE Ends(r)
  /\ dead' = dead \cup (spent \ Live(req[r].next))
  /\ owed' = [p \in DOMAIN owed \cup req[r].scope |->
                IF p \in req[r].scope THEN req[r].next[p] ELSE owed[p]]
  /\ UNCHANGED <<disk, config, issued, reviewed, spent, used>>

(* mkdir, the lock file, a write, the rename or the sync of the directory fails. *)
SaveFails(r) ==
  /\ DiskFails
  /\ req[r].pc \in Saving
  /\ Ends(r)
  /\ UNCHANGED <<files, store, issued, history, used>>

-----------------------------------------------------------------------------
(* The environment. *)
AccidentsLeft == used.crashes + used.edits + used.removals < MaxAccidents

Crashes == AccidentsLeft /\ used.crashes < MaxCrashes /\ used' = [used EXCEPT !.crashes = @ + 1]
Fallen(D) == [r \in Requests |-> IF req[r].home \in D THEN Idle ELSE req[r]]

(* A daemon dies and starts again: the kernel drops its locks. *)
DaemonCrash(d) ==
  /\ Crashes
  /\ store' = [store EXCEPT ![d] = NewStore]
  /\ req' = Fallen({d})
  /\ UNCHANGED <<files, issued, history>>

(* A rename the directory was not synced after may be lost. *)
PowerLoss ==
  /\ Crashes
  /\ disk' \in {disk, durable} /\ durable' = disk'
  /\ store' = [d \in Daemons |-> NewStore]
  /\ req' = Fallen(Daemons)
  /\ UNCHANGED <<config, issued, history>>

(* Someone deletes the trust directory, and with it what was owed. *)
RemoveDirectory ==
  /\ AccidentsLeft /\ used.removals < MaxRemovals /\ used' = [used EXCEPT !.removals = @ + 1]
  /\ \A r \in Requests : req[r].pc \notin Saving
  /\ disk' = NoDisk /\ durable' = NoDisk
  /\ owed' = Empty
  /\ UNCHANGED <<config, store, req, issued, reviewed, spent, dead>>

(* A writer that ignores the editors' lock. *)
OutsideEdit ==
  /\ AccidentsLeft /\ used.edits < MaxOutsideEdits /\ used' = [used EXCEPT !.edits = @ + 1]
  /\ config' \in Configs
  /\ UNCHANGED <<disk, durable, store, req, issued, history>>

-----------------------------------------------------------------------------
RequestStep(r) ==
  \/ \E d \in Daemons, p \in Profiles : Lookup(r, d, p) \/ Inspect(r, d, p) \/ DecideRevoke(r, d, p)
  \/ \E d \in Daemons, id \in Reviews : DecideApprove(r, d, id) \/ DecideCancel(r, d, id)
  \/ \E d \in Daemons, scope \in Scopes : BeginEdit(r, d, scope)
  \/ LoadProfile(r) \/ Capture(r) \/ Resync(r) \/ BeginAttach(r) \/ Publish(r) \/ GiveUp(r)
  \/ Discover(r) \/ StageReview(r) \/ Approve(r) \/ CancelReview(r) \/ Revoke(r)
  \/ BlockForEdit(r) \/ WriteConfig(r)
  \/ MakeDirectory(r) \/ TakeLock(r) \/ Compare(r) \/ Rename(r) \/ SyncDirectory(r) \/ SaveFails(r)

Environment ==
  \/ \E d \in Daemons, id \in Reviews : ReviewExpires(d, id)
  \/ \E d \in Daemons : ListTrust(d) \/ DaemonCrash(d)
  \/ PowerLoss \/ RemoveDirectory \/ OutsideEdit

Next == (\E r \in Requests : RequestStep(r)) \/ Environment

Spec == Init /\ [][Next]_vars

-----------------------------------------------------------------------------
(* Properties. *)

(* The trust ledger is an atomic map of decisions: no save loses what another *)
(* daemon decided, no review approves twice, and a crash or a loss of power   *)
(* between two system calls of trust_disk::save leaves it at the old or the   *)
(* new decisions.                                                             *)
DecisionIn(ledger) ==
  [p \in Profiles |-> IF p \notin DOMAIN ledger THEN Undecided
                      ELSE IF ledger[p].revoked THEN Blocked ELSE ledger[p].review]

Ledger == INSTANCE TrustLedger WITH
  decision <- DecisionIn(disk.profiles), kept <- DecisionIn(durable.profiles)

LedgerIsAtomic == Ledger!Spec

(* A session runs exactly the servers that the review of its grant showed,    *)
(* through edits, restarts and restored receipts.                             *)
AttachedAsReviewed ==
  \A r \in Requests : req[r].pc \in {"loaded", "captured", "resynced", "attaching", "open"} /\ req[r].review # None =>
    /\ req[r].review \in DOMAIN reviewed
    /\ reviewed[req[r].review].profile = req[r].profile
    /\ reviewed[req[r].review].contents.of[req[r].profile] = req[r].version

(* When a session is published, the ledger on disk trusts it: its grant is    *)
(* the live receipt of its profile, or the profile has no receipt at all.     *)
(* Whatever any daemon decided while servers were starting discards it.       *)
PublishedUnderLiveTrust ==
  [][\A r \in Requests : req[r].pc # "open" /\ req'[r].pc = "open" =>
       LET p == req[r].profile
       IN IF req[r].review = None THEN p \notin DOMAIN disk.profiles
          ELSE /\ p \in DOMAIN disk.profiles
               /\ disk.profiles[p].review = req[r].review
               /\ ~disk.profiles[p].revoked]_vars

(* A daemon that has seen a ledger publishes nothing while the directory is   *)
(* gone or holds no ledger.                                                   *)
NoPublicationWithoutLedger ==
  [][\A r \in Requests : req[r].pc # "open" /\ req'[r].pc = "open" =>
       (Store(r).disk.state = "ledger" => disk.state = "ledger")]_vars

(* Without a grant, what is published is what the files say now, however long *)
(* the vault and the servers took: every edit made under the editors' lock    *)
(* blocks the profiles it changes before it writes (no outside edits).        *)
UnreviewedIsCurrent ==
  [][\A r \in Requests : req[r].pc # "open" /\ req'[r].pc = "open" /\ req[r].review = None =>
       req[r].version = config.of[req[r].profile]]_vars

(* An acknowledged decision stays on disk, and survives a loss of power,      *)
(* until a later decision about the same profile, unless the whole directory  *)
(* goes: removed, or made just before the loss and its parent never synced    *)
(* (trust_disk::create_dir, save); RemoveDirectory stands for both.           *)
AcknowledgedIsKept ==
  \A p \in DOMAIN owed :
    /\ p \in DOMAIN disk.profiles /\ disk.profiles[p] = owed[p]
    /\ p \in DOMAIN durable.profiles /\ durable.profiles[p] = owed[p]

(* A review whose approval was revoked, blocked or replaced never trusts      *)
(* anything again: not on disk, and not after a crash.                        *)
DeadStaysDead == (Live(disk.profiles) \cup Live(durable.profiles)) \cap dead = {}

(* A decision outlives crashes and lost power exactly until the next decision *)
(* about its profile, in memory and on disk (trust_disk::save).               *)
DecisionsSurvive == AcknowledgedIsKept /\ DeadStaysDead

(* A store never grants what the ledger it loaded does not, and lists every   *)
(* other decided profile as revoked.                                          *)
Agrees(m) ==
  /\ DOMAIN m.grants \cup m.revoked = DOMAIN Receipts(m)
  /\ DOMAIN m.grants \cap m.revoked = {}
  /\ \A p \in DOMAIN m.grants :
       /\ ~Receipts(m)[p].revoked
       /\ m.grants[p].id = Receipts(m)[p].review
       /\ m.grants[p].resolution = Receipts(m)[p].print.of[p]

StoreAgrees == \A d \in Daemons : Agrees(store[d])

(* No sequence of approvals, revocations and edits, in any number of daemons, *)
(* brings a ledger to trust_disk::save that save refuses for its size, when   *)
(* the review is already used up.                                             *)
LedgerFits == \A r \in Requests : req[r].pc \in Saving => Decodes(req[r].next)

(* "Conflicting updates require a retry": when no save is under way, the      *)
(* directory holds a ledger or does not exist, so that a retry can succeed.   *)
ConflictIsRetryable == (\A r \in Requests : req[r].pc \notin Saving) => disk.state # "bare"
=============================================================================
