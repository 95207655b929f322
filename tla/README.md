# Verification of hypermesh-visor

hypermesh-visor is a daemon that lets agents see and drive a desktop, and a
companion program (the "bug") through which the person at that desktop stops
them. This directory holds TLA+ modules that model the daemon, the companion,
what passes between them and what they share with other processes, TLC
configurations that check the modules on small instances, and proofs that
TLAPS checks for every instance.

`PROJECT.json` lists the components, the runs, the lines of the source each
definition translates, the hazards, the findings and the theorems. Paths below
are relative to the repository.

## The system

| Part | Source | State it keeps | Operations | Module |
| --- | --- | --- | --- | --- |
| Automation gate | `src/automation.rs` | phase (off, running, paused), driving session, drive sample, epoch, generation, resume and injection sequences, queue of deferred controls, watchdog instants, keyboard latch, a published word | pause, stop, apply (start, resume), begin and end an injection, record a drive, note a poll, watchdog, note and finish a close, report a missing keyboard, shutdown cancel, reset | `Gate` |
| Callers of the gate | `src/api.rs` | session table, injection lock, gate lock | mouse, type, controls, companion poll, close, watchdog, shutdown | `Automation` |
| Injection of one request | `src/api.rs`, `src/input.rs`, `src/desktop/x11.rs` | keys and buttons down, notes of them | plan, cut into chunks, send, undo, release on any exit | `Plans`, `Release` |
| Feed, sound, views | `src/api.rs`, `src/session.rs`, `src/desktop/audio.rs`, `src/desktop/wayland.rs` | frames, activity lines, recorders, portal sessions | view, watch, listen, note, read the feed | `Feed`, `Activity`, `Listening`, `Portal` |
| MCP servers of a session | `src/mcp/stdio.rs`, `http.rs`, `subscription.rs`, `discovery.rs`, `audit.rs`, `src/api.rs` | per session: slots of clients, catalogs, a watch thread; an audit table | attach, call, approve, deny, refresh, reconnect, notification, close | `Attachments`, `ToolCalls` |
| MCP trust | `src/mcp/trust.rs`, `trust_disk.rs` | staged reviews, grants, revocations; a ledger on disk | stage, approve, cancel, revoke, block, sync, save | `TrustStore`, `Trust`, `TrustLedger` |
| MCP configuration | `src/mcp/config.rs`, `profiles.rs`, `servers.rs`, `bindings.rs`, `sources.rs` | files, a cache of bindings, a cache of the focus | edit, resolve, import, list, match the focused window | `Configuration`, `Imports`, `Sources`, `Routing` |
| Prompt door, stream, vault, orchestrator | `src/prompt.rs`, `stream.rs`, `vault.rs`, `orchestrator.rs` | parked requests, inbox, secrets, audit rows | submit, deliver, drive, fail over, redact | `PromptPass`, `Redaction` |
| Companion control | `companion/src/automation.rs`, `pointer.rs`, `visor.rs`, `window.rs` | local phase, pause mark, resume in flight, sequence marks, pointer baseline, queue of posts | input, ask, continue, snapshot, disconnect, poll, post | `Machine`, `Companion`, `Fallback`, `Pointer` |
| Companion cursor, screens, settings | the rest of `companion/src` | display cursor, dialogs, `companion.toml` | draw, review, revoke, reconnect, set | `Cursor`, `Review`, `Settings` |
| Runtime directory and startup | `src/companion_sock.rs`, `main.rs`, `bind.rs`, `local_peer.rs` | runtime lock, sockets, token file | start, replace a stale socket, check a peer, stop | `Startup`, `Access`, `Options` |
| Adapter for outside agents | `src/bin/hypermesh-desktop-mcp.rs` | lines read, answers | validate, ask the visor, answer | `Adapter` |
| Sign-in | `session/src` | a keychain entry | sign in (browser, device), refresh, log out | `Login` |

### How the parts interact

Every request is an HTTP handler on the tokio runtime. Handlers share
`AppState` behind mutexes; mouse and type move to blocking threads that take the
**injection lock** for the whole desktop call, while everything that touches
the phase takes only the **gate lock**. So a pause, a stop, a poll, a close or a
shutdown overtakes a call that is inside the X server. The call finds out from
an atomic word that every gate method publishes, which it reads without any
lock between two chunks. Controls that arrive meanwhile are queued in the gate
and replayed, in order and under one hold of the gate lock, when the call
unwinds.

The companion polls the daemon on its own socket and posts controls there.
Only that socket may lift a pause, and only its polls extend the trust that
lets TCP callers start. A watchdog task ends a running phase when polls stop.

The adapter and the companion's prompt window come in by a control socket, and
agents may by a loopback port with a token. Two daemons of one user may share
the configuration files and the trust directory, which editors and other
programs write too. MCP servers are children or HTTP servers that change their
tools, fail and end streams at any moment.

### What is hard

The order of a pause, a stop, a start, a close, a keyboard report and a poll
around one call that is slow, fails, is cancelled or never returns; the same
call outliving a shutdown that stopped waiting for it; sessions closed between
two locks of one handler; on the companion's side, posts that are lost or
answered late, a visor that restarts between two polls, and a snapshot older
than the pointer it is compared with; for MCP, servers taken out of a slot
while they are refreshed, and two daemons on one trust ledger with failing
system calls and lost power; files that two programs write without a common
lock; requests that are given up and done nevertheless. `PROJECT.json` lists
each hazard at its line with the properties that would catch it.

### What makes each component correct

* gate and its callers: a pause holds until the companion lifts it; an
  interrupted call stops within one chunk; nothing enters running on expired
  trust or without the keyboard; a queued control is replayed; a sample belongs
  to its stretch; a close takes the gate off the session; shutdown finishes;
* injection: a plan does what was asked, and nothing stays down after it;
* feed and sound: what is shown is of this session and of now, and shows no
  secret; recorders are given back;
* attachments: a routed catalog includes every announced change; no connection
  is lost or shared; every call has its audit row;
* trust: no approval of an expired or changed review, no revocation undone by
  another process, no ledger lost by a crash; a session runs what was reviewed,
  and trust is the word of the user about what was on screen;
* configuration: no edit overwrites another; what a review shows is what runs;
  a binding is chosen by recent facts;
* prompt door: every prompt has one audit row of its own, without a secret;
* companion: a pause of the user is not undone by an old snapshot or a lost
  post, both sides agree in the end, the user is told from the visor's own
  calls, the fallback is not put off for ever, the display is given back;
* startup: what a client finds in the runtime directory is one visor, and only
  this user is let in;
* sign-in: the entry keeps the newest token that works.

## Modules

| Module | Models | Checked by | Proved in |
| --- | --- | --- | --- |
| `Gate` | the gate as a record, one operator per method of `Gate` | through `Automation`, `Companion` | `GateProofs` |
| `Automation` | who calls it: mouse and type requests, controls, polls, the watchdog, keyboard reports, close, shutdown | `interrupts`, `endings`, `liveness`, `orphan_start` | `AutomationProofs` |
| `TrustStore` | the trust store and the comparison of a save, one operator per method | through `Trust` | `TrustProofs` |
| `Trust` | daemons that share a configuration directory: sessions being opened, reviews, decisions, edits, saves, crashes | `trust_*`, `first_save` (instances in `MCTrust`) | `TrustProofs` |
| `TrustLedger` | what the ledger on disk promises: one map that changes at once | `trust_disk`, as a refinement | `TrustProofs` |
| `Machine` | the companion's view of the automation, one operator per method | through `Companion`, `Pointer` | `CompanionProofs` |
| `Companion` | the companion's frame loop and poller against the visor's gate, over a link that loses, delays and cuts exchanges, with restarts | `companion` | `CompanionProofs` |
| `Fallback` | the pointer fallback: drives, waits, confirmations, its budget of deferrals | `parts` | `InputProofs` |
| `Pointer` | raw events of the user and of the visor's calls as a frame tells them apart; one click | `parts` | `InputProofs` |
| `Cursor` | the bug cursor on the user's display, with requests that fail | `parts` | `PartProofs` |
| `PromptPass` | the prompt door, the session stream, the pass and the doors of a model | `parts` | `StreamProofs` |
| `Startup` | visors that start, serve, stop and die in one runtime directory | `parts` | `PartProofs` |
| `Release` | the injection of one request: chunks, events, undo, guard | `parts`, `lifted_key` | `StreamProofs` |
| `Plans` | the checks and the steps of a pointer request | `parts` | `InputProofs` |
| `Adapter` | the adapter's loop over an agent's lines (extends `Plans`) | `parts` | `InputProofs` |
| `Feed` | the picture of a session: views, watches, close | `parts` | `PartProofs` |
| `Routing` | which MCP server the companion is told to prefer | `parts` | `PartProofs` |
| `Configuration` | the configuration files, their editors, the resolution of a profile | `parts` | `PartProofs` |
| `Imports`, `Sources` | configurations of other programs: what is made of them, where they are looked for | `parts` | `InputProofs` |
| `Login` | sign-in, refresh, log-out over one keychain entry | `parts` | `PartProofs` |
| `Review` | the screens on which trust is given, revoked and a server reconnected | `parts` | `InputProofs` |
| `Settings` | `companion.toml` and the notice file | `parts` | `PartProofs` |
| `Options` | the command line and the environment of a visor | `parts` | `InputProofs` |
| `Attachments` | the MCP servers of one session | `clients` | `ClientProofs` |
| `ToolCalls` | calls of MCP tools: approved, denied, audited | `clients` | `ClientProofs` |
| `Redaction`, `Activity` | what is taken out of a text; the lines of a feed | `clients` | |
| `Listening`, `Portal` | recorded sound; screenshots of a Wayland desktop | `clients` | `ClientProofs` |
| `Access` | who is let in at each door, with which token | `clients` | `ClientProofs` |
| `Clients` | what the four above promise together | `clients` | `ClientProofs` |
| `Outsiders` | what `Plans`, `Adapter`, `Options`, `Review`, `Imports` and `Sources` promise those outside the visor | `parts` | `InputProofs` |
| `MCParts`, `MCClients`, `MCTrust` | instances for TLC | | |

### Gate

A method runs under one mutex, so it is a function from a gate to a gate:
`Pause(g)`, `Stop(g)`, `ApplyDeferred(g, entry, fresh)` and so on carry the
names of the Rust methods. A drive is a set of at most one sample; `published`
is the atomic word, written by `Publish` exactly where the code calls
`publish()`. An `Instant` is modelled by its age, from 0 to `Timeout`, where it
stays: the code only asks whether the window has passed. Counters are natural
numbers; in the code they are 64-bit (the epoch has 62 bits in the published
word) and saturate or wrap far beyond any run.

### Automation

Each mouse or type request (`Injectors`) is a process with a program counter
through the handler's lock acquisitions and lock-free reads, in the code's
order:

| pc | code |
| --- | --- |
| idle, capture | watchdog, then the epoch is read (`mouse`, `type_keys`) |
| keyboard, precheck, stale, mark | the checks before the blocking task |
| wait, check, stretch | inside the injection lock: session, cancellation, root bounds, expired stretch |
| arm, generation | `InjectGuard::arm`, then the generation under another lock |
| loop, send | check of the word before each chunk, one desktop call |
| record | `record_mouse` or `record_type` |
| unwind, replay, unlock | `ReleaseGuard` and `InjectGuard` drop; the queue is replayed under the gate lock; the injection lock is released |

`replay.active` says that the gate lock is held by `end_inject`; every other
action on the gate waits for it (`GateFree`). Everything else that takes the
gate lock does so for one method call and is one action. Controls take two
further locks before they apply (`live`, `select`), which is modelled because
a close may come in between. Three history variables carry what properties
need: `held` (a pause landed and nobody entitled lifted it), `interrupted` (the
requests that had read the epoch before an interrupt) and `late` (chunks they
sent after it).

The session table is abstracted to the life of each session, so "most recently
touched" is any open session. Request bodies, coordinates, the Wayland refusal
and the HTTP layer are left out.

### TrustStore and Trust

The daemon holds one `TrustStore` behind a mutex; several daemons of one user
share the configuration files and the trust directory. `TrustStore` is the part
without steps: `Sync`, `Stage`, `Cancel`, `Approvable`, `AfterApprove`,
`BlockedLedger`, `AfterRevoke`, `AfterBlock` take a store and return one.
`Trust` has the steps.

| Model | Code |
| --- | --- |
| `store[d]` | `AppState.mcp_trust` of daemon `d`: `disk` (the snapshot last loaded), `grants`, `revoked`, `pending`. The field `receipts` is always the contents of `disk`, so it is read from there |
| `disk`, `durable` | the trust directory as processes see it, and as a loss of power leaves it: absent, a directory without a ledger, or a ledger |
| `config` | the reviewed files together. A receipt's digests are the contents they were taken from, so "every source still hashes to its pin" is equality |
| `req[r]` | one HTTP request, its pc and its locals |
| looked, loaded, captured | the lookup of `open_session`, inside the mutex: sync and grant, profile load, second sync and check |
| resynced, attaching, open | the vault is open and the store synced; the check before servers start; published |
| inspected, discovered | `mcp_discovery`: files read outside the mutex, sync, then the review is staged |
| approving, revoking, cancelling | `mcp_trust_decision` between its sync and its decision |
| editing, blocked | `profiles::edit` and `servers::edit`: under the editors' lock, before and after the profiles are blocked |
| save, made, locked, written, renamed | `trust_disk::save` after the decision, mkdir, flock, comparison with temporary file, rename |

Steps that are merged, and why that loses nothing a property tells apart:

* One step reads all configuration files. A torn read yields contents that no
  moment had; to the store that is one more value of `config`, fingerprinted
  and resolved from the same bytes.
* `sync` reads the ledger and then the files of the receipts it restores. They
  are one step, placed at the read of the ledger; a file that changes between
  the two makes the digest differ and the receipt is not restored.
* The last sync, the check and the insertion of a session happen under one
  hold of the mutex, and are one step at the read of the ledger. Another process
  may write the ledger between that read and the insertion; the properties
  speak of the ledger as that read saw it.
* The comparison and the write of the temporary file are one step: nobody
  reads that file, and the lock is held.
* The directory sync, the release of the lock and the update of the store are
  one step: the mutex is held, and the lock only keeps others out.

The kernel's lock is what `FlockFree` reads, so a dead daemon's lock is free at
once. An edit of a scope that contains a profile without a receipt adds one
that pins nothing; its random review id is used by no review and is `None`
here. `issued`, `reviewed`, `spent`, `dead` and `owed` are history.

A session that is open does not follow later decisions, as in the code: a
revocation blocks future sessions (docs/mcp-discovery.md:132). What happens to
its servers while it is open is module `Attachments`.

### Companion, Machine and Fallback

`Companion` has the companion's two threads. A frame is three steps (take the
snapshot; settle input and snapshot; finish with fallback, click, timer and
enqueue), because the poller runs between them; an exchange is two (the visor
handles it; the poller hears of it), and either half may be lost. A post the
poller gave up on may still be handled (`stragglers`). The visor is its real
gate, module `Gate`, which dies and comes back with another nonce.

| Model | Code |
| --- | --- |
| `queue`, `dropped` | `Poller::queue`, `resume_dropped` (companion/src/visor.rs) |
| `poller` | `visor_loop`: the batch being posted, the misses of `Link`, the snapshot cache |
| `machine`, `pending`, `frame` | `App::machine`, `App::pending`, the locals of `show` (companion/src/window.rs) |
| `owed` | history: a pause of the companion that no visor has handled and no resume replaced |

Notes on what the code does and the properties allow: a resume refused with 4xx
is posted again for ever; a straggling resume can lift a later pause, and a
batch in flight may post a cancelled resume, but the pause then follows it.

`Fallback` is what a frame does where X11 shows no raw pointer events: it
compares pointer and buttons with the drives of a snapshot that may be older
than they are. A place stands for all points within `FALLBACK_DISTANCE_PX`. The
visor there pauses and resumes only when the companion says so. A resume takes
the user two clicks or the idle time, which is longer than it takes a pause to
reach the visor and a poll to show it; so it comes only when no control is on
its way and both the visor and the snapshot are in the same pause, and the timer
not while a frame waits for a call (`PauseIsSeen`). Without that a resume could
race the pause it answers.

| Model | Code |
| --- | --- |
| `visor`, `answer`, `snap` | the gate as a poll shows it, the poll on its way, the snapshot in hand |
| `track` | `FallbackTrack`: baseline, hold, the wait and its budget |
| `resumes`, `age` | `seen_resume_seq` and `fallback_after_resume`; `SampleAge` |
| `excused` | history: who left the pointer where no drive has it since the last resume: the user, a call that recorded nothing (or whose drive was dropped before a frame saw it), or a drive that names the last point instead of the pointer |
| `judged`, `unjudged` | history: the last drive a frame judged by; ticks since a frame was not deferred |

### The smaller parts

Each of these modules has one variable per piece of state the code keeps, a
comment on each that names it, and one action per handler or system call; the
head of a module says what it leaves out. What needs saying beyond that:

* `Release`, `Plans`: `LiftsFirst` says whether a chunk may lift a key before it
  presses it. The plans the desktop tools make never do; one for a finding does.
* `Feed`: a view or a watch tests the session, captures without a lock, tests
  again and stores. `WatchedFeedIsCurrent` excuses a picture that was stored
  last by a request that has ended; without that excuse the feed stays stale
  (src/api.rs:1775). A store after the close keeps a frame of a closed session
  (src/api.rs:1694).
* `Attachments`: a later 405 on the subscription's GET ends its thread without
  failing (stream "none", which `CatalogSettles` exempts); the first
  subscription and every reopened stream invalidate. One HTTP server covers what
  a stdio server does.
* `PromptPass`: a text is the set of the secrets in it. Secrets given to
  POST /session are no needles, only those a stream pushes; prompts are driven
  even after the session is closed in between; the order of driving may differ
  from that of the inbox.
* `Configuration`: a file is its parsed contents and a revision is those
  contents, as the digest is. Validation of names and size limits are left out.
* `Routing`: that a probe of the compositor ends within `ProbeTicks` is an
  assumption; the code does not bound it.
* `Review`: a connection action is confirmed and then done, and counts twice
  against `MaxActions`.
* `Login`: refresh and log-out are the library's; the vendored command line has
  code of its own. An operation that deletes the entry does so also when another
  has stored a newer token since it read, and a log-out also when the issuer
  refused to revoke; `LiveTokenIsKept` excuses exactly these.
* `Sources`: entries only come; Linux places only.

## Runs

| Run | Instance | Shows |
| --- | --- | --- |
| `interrupts` | `Automation`: 1 call of up to 2 chunks, 2 controls of any kind, 1 session, window 1 | `PauseHeld`: pauses hold; `PublishedMatches`: the word is never behind; `AtMostOneLateChunk`; `NothingStaleIsAdmitted`: a start or resume over TCP enters running on a fresh poll only; after the keyboard is reported lost only a request that had looked before gets in, and no replayed one; expired trust is not renewed |
| `endings` | `Automation`: 1 call, 1 control, 2 sessions of which one is closed, shutdown at any time | `ClosedSessionLosesGate`; `CallsAreAccountedFor`: sequences, samples and the queue belong to the calls that are out, also over the reset |
| `liveness` | `Automation` with fair scheduling | `ExpiredRunEnds`: a quiet companion ends running; `WaitersAreServed`: closes, queued controls and a shutdown are served |
| `trust_sessions` | `Trust`: 2 daemons, 2 requests at a time and 4 in all, 1 profile with 2 versions, 2 reviews, limit 1 | `StoreAgrees`: a store agrees with its ledger; `PublishedUnderLiveTrust`; `UnreviewedIsCurrent`: without a grant a session runs the files as they are |
| `trust_disk` | `Trust`: 2 daemons, 3 decisions or edits, 2 profiles, failing calls, 2 crashes or losses of power | `DecisionsSurvive`: acknowledged decisions are kept, a dead review trusts nothing again; `LedgerIsAtomic`: `Trust` implements `TrustLedger` |
| `trust_restore` | `Trust`: 1 daemon, 3 requests one at a time, 2 profiles with 2 versions, limit 1; one restart or loss of power, one edit that ignores the editors' lock, the directory removed once while no save is under way | `AttachedAsReviewed`: what is attached was reviewed; `LedgerFits`: no save is refused for the size of its ledger; `NoPublicationWithoutLedger` |
| `companion` | `Companion`: 1 session, window 1, 2 misses, 2 inputs, 1 act of a client, 1 restart, 1 loss, 1 resume, 3 of these events in all | `UserIsObeyed`: no step undoes what the user did last; `Converges`: both sides agree once nobody acts |
| `parts` | 17 independent parts, see below | what each is for |
| `clients` | 7 more | what each is for |
| `orphan_start`, `lifted_key`, `first_save` | as needed | the three findings below |

`parts` and `clients` choose one part in the first state and move only that
one, so that one run checks modules that share no state; the number of states
is the sum of theirs. Fairness is asked for the attachments and the recorders
only, the parts with a liveness property there.

| Part | Bounds | Property |
| --- | --- | --- |
| `Fallback` | 2 places, settle and hold of 1 tick, 2 confirmations, 2 calls, 1 act of the user, 1 resume, 1 act of a client, 2 of these in all | `PausesForTheUser` |
| `PromptPass` | 2 requests, 1 secret, 2 hosts, 1 model, 7 bodies, 7 setups of doors | `AuditIsTrue` |
| `Startup` | 3 launches | `OneVisorAnswers` |
| `Release` | 3 strokes, chunks of 2, batches of 2, 2 faults | `NothingStaysDown` |
| `Feed` | 1 view, 2 watches, 2 pictures, 1 change | `WatchedFeedIsCurrent` |
| `Pointer` | 2 inputs, 2 snapshots | `UserIsToldFromCalls` |
| `Cursor` | 2 pictures, 4 failures | `DisplayIsGivenBack` |
| `Routing` | 2 sessions, 2 servers, every time 1 tick, 2 changes of the world | `RoutingIsCurrent` |
| `Configuration` | 2 dialogs, 2 profiles, 1 server, 2 commands, 2 edits, 1 outsider | `ConfigurationIsSound` |
| `Login` | 2 operations, 1 port, 1 tick between polls of 3, 1 rotation | `SignInIsSound` |
| `Plans` | axes from -5 to 6, 3 wheel ticks, drags of 4 in 2 hops | `RequestsAreCarriedOut` (`PlanIsWalked`) |
| `Adapter` | 3 lines, proper and malformed | `RequestsAreCarriedOut` (`AnswersAreTrue`) |
| `Options` | 4 words of 8 flags and 4 values | `RequestsAreCarriedOut` (`StartsAsTold`) |
| `Review` | 2 screens, 1 profile, 1 change of the sources, 2 reviews, 3 actions, 2 sessions | `TrustIsInformed` (`TrustIsTheUsersWord`) |
| `Imports` | entries of 3 fields | `TrustIsInformed` (`ImportsKeepTheirMeaning`) |
| `Sources` | 3 names of which one is unfit, 1 listed, 2 looked at | `TrustIsInformed` (`ListLeavesNothingOutUnsaid`) |
| `Settings` | 1 key of the menu and 1 other, 2 clicks, 2 saves at any moment, 2 notices, 1 kill | `SettingsAreCurrent` |
| `Attachments` | 1 HTTP server, 1 request, 2 changes, 2 connections, 2 faults, cleanup queue of 1 | `AttachmentsAreSound`, `PartsSettle` |
| `Redaction` | 5 pieces of text, tokens of 1 and 2, values of 2 | `TextsAreClean` |
| `Activity` | values of 2 and more, lines of 3, 2 kept, 3 notes | `TextsAreClean` |
| `Listening` | 1 listener, channel of 2, 3 chunks | `DesktopIsReadForItsSession`, `PartsSettle` |
| `Portal` | 2 views, 2 screens | `DesktopIsReadForItsSession` |
| `ToolCalls` | 2 requests, 3 moves of a slot | `RequestsAreOwn` |
| `Access` | 1 caller, 2 launches, 2 calls, back-off of at most 4, 5 environments | `RequestsAreOwn` |

Bounds of `Automation`. A second control is what it takes to order a stop, a
pause and a start around one call, and the queue grows with each (polls,
keyboard reports and closes add to it without bound on their number). Two chunks
are the least with a check between them. A window of one clock unit
distinguishes a fresh instant from an expired one, and "never" is a third value;
a larger window adds only intermediate ages that no comparison tells apart. The
number of polls, reports, watchdog ticks and clock ticks is not bounded. No run
has two calls in flight: what two of them do to each other is covered by the
proofs, which are for any number.

Bounds of `Trust`. `MaxStarts` limits the requests, `MaxCrashes`,
`MaxRemovals` and `MaxOutsideEdits` the environment. Two daemons with one
request each are what it takes to put any decision between two steps of another;
three decisions are an approval, its revocation and a stale save. The initial
ledgers include one approved and one revoked earlier, so that a first decision
already meets a restored receipt. Syncs without a decision (`list`) and the
expiry of reviews are not bounded.

Bounds of the parts. Each is the least at which every action fires and two
actors can pass each other: two screens, two dialogs, two watches, a chunk that
is not the last, a fault after a fault. Three launches are one that serves, one
that starts and one that died between them.

Deadlock is checked in the runs of `Automation` and `Companion`, where
something can always happen. It is not checked in the others: the bounds
end every behaviour, and actors at rest are a legitimate end.

Fairness. `Automation!FairSpec` assumes that the runtime schedules every task and
thread that can run, that the watchdog loop wakes and that time passes. That
the X server answers is not assumed but the antecedent `DesktopAnswers` of the
two properties that need it; a shutdown completes without it. Clients, the user
and the companion owe nothing. `Companion!FairSpec` assumes that both threads
go on, that a dead visor is started again and that a post that was sent is
handled or lost for good. `Attachments` assumes that its threads go on, that an
announcement arrives and that a stream that ended is opened again, `Listening`
that a recorder's thread goes on and a listener takes what there is. `Trust` states no liveness: a request that finds a lock taken fails at once
and leaves the retry to its caller.

Every property has a mutant in `PROJECT.json`: the definition with one plausible
fault (a dropped publish, a missing queue entry, a reset that forgets, a lock
that is not waited for), under which TLC finds the property violated. The
properties that join modules (`RequestsAreCarriedOut`, `TrustIsInformed`,
`TextsAreClean`, `DesktopIsReadForItsSession`, `RequestsAreOwn`) have one in each
of their modules.

## Findings

* `RunningSessionIsOpen` (`orphan_start`): a start picks its session before it
  takes the gate lock. If a close of that session completes in between, the
  gate ends up running for a session that no longer exists (src/api.rs:446).
* `NothingStaysDown` (`lifted_key`): a chunk notes its presses before it is sent
  and takes away the note of every key it lifts after, whatever their order, so
  a chunk that lifts a key before it presses it leaves it down with no note
  (src/api.rs:2326).
* `ConflictIsRetryable` (`first_save`): a save makes the trust directory before
  it holds the lock inside it. When two daemons save for the first time, the
  second can take the lock, find a directory without a ledger and fail, while the
  first fails because the lock is held. The directory stays without a ledger,
  which every later read and save refuses (src/mcp/trust_disk.rs:133). A crash or
  a failing write during the first save ends the same way.

### Smaller disagreements

What the models do as the code does, and a document, a comment or a reader
might expect otherwise. None has a run of its own.

* The gate. Mouse and type test the keyboard latch before they wait for the
  injection lock and not again (src/api.rs:2196, 2258), and a start or resume
  tests it before it picks a session and is applied (src/api.rs:422); so one of
  these that is past its test still enters running after the latch was set.
  `LatchShutsOut` says that nothing else does. A call is judged by the polls one
  lock before it begins. A call that begins after the
  shutdown cancel and outlives the bounded wait records into the gate after its
  reset (src/api.rs:2228). `mcp_call` holds the session table while a tool
  runs, so a pause can wait for it (src/api.rs:1470; README.md:105 says it does
  not).
* The companion. A move of the visor's own can be taken for the user's by the
  fallback (companion/src/automation.rs:651, README.md:105). Where a type cannot
  read the pointer it records the last point as a drive of the new stretch
  (src/automation.rs:801); if the user moved the pointer before the resume, the
  companion finds it off that drive and pauses though nobody touched it since.
  `enter_running` keeps the last point for later types and drops the drive so
  that no old target is compared with (src/automation.rs:926-930), and
  README.md:114 says that type coordinates are not a target; that holds only
  where no point was known at all. The property excuses such a guess. A click pauses through its
  raw press and, in the same or the next frame, is taken as a click on the bug
  (companion/src/window.rs:243, README.md:107). Clicks between the mapping of
  the window and `Watch::attach` count as the user's; of two clicks in a frame
  the last wins. `restore` forgets requests that failed, and a cursor leaks when
  a definition fails. A connection action that times out is reported as failed
  though the visor may still do it, and a timed-out approval as rejected
  (companion/src/visor.rs:376-395). A companion killed while it writes
  `companion.toml` leaves a file it then refuses to change; `NoticeCache` relies
  on every write having an mtime of its own.
* Settings. Nothing locks `companion.toml`: what an editor saves between the read
  and the write of a click is taken back by the click, and a save while the file
  is being filled may cost any key or leave text that does not parse
  (companion/src/settings.rs:192-213); README.md:160 says that a write replaces
  its key and keeps the rest. `SettingsAreCurrent` excuses exactly these keys
  (`doubt`) until an editor saves the file or, for its own key, a click does.
* Trust and files. A revocation does not drop pending reviews, so a late
  approval can grant again (src/mcp/trust.rs:375). A save syncs `mcp-trust/` and never the directory above
  it (src/mcp/trust_disk.rs:133, 179), so a loss of power may take a directory
  just made together with an acknowledged decision. `PowerLoss` alone keeps the
  directory; that outcome is a `RemoveDirectory` followed by a `PowerLoss`, which
  `DecisionsSurvive` excuses. `atomic_write` reports an
  error of the directory sync after the rename took effect
  (src/mcp/profiles.rs:191). Readers of the two configuration files take no
  lock. The listing skips profile directories that are links or misnamed.
* Sessions. A batch of a stream is applied in part when a secret that
  could be fetched in the preflight cannot be fetched again (src/stream.rs:153). A focus sample is stamped when it is stored and not when it
  was probed (src/api.rs:396). A listener that neither reads nor leaves keeps
  its recorder after the close. A portal that never answers holds its
  thread, and the file of a failed screenshot stays. A denied tool call writes
  an audit row without a look at the session; the audit table grows without
  bound.
* Redaction. The vault replaces values in the order they came, so one that
  contains another leaves its remainder (src/vault.rs:315); a line cut, or
  cleaned of control characters, before a value was known can show part of it;
  values of fewer than 4 characters are never replaced; an address followed by
  a dot at the end of a sentence is not seen.
* Doors. An adapter request given up after 30 s may still be done; the adapter
  reads the token once, so a restarted visor refuses it until it restarts too.
  Only the companion checks the user at the other end before it sends. The
  back-off of an accept loop delays a stop by up to a second. On the command
  line a flag after a flag that takes a value is taken as its value. The lock
  that README.md:156 gives the visor for its lifetime is held until `serve`
  returns (src/api.rs:895), and the process may live a little longer.
* Sign-in. A refresh deletes the entry also when another program stored a newer
  token (session/src/oauth.rs:169-172, against its comment at 148-150); a token
  may be put after a log-out; any request for `/callback` ends the listener; the
  busy flag stays set when the thread panics.

## Proofs

The theorems hold for every value of the constants that the named assumptions
allow. The assumptions say that constants have their types and that null values
are distinct, and TLC evaluates them in every run of their module. Runs and
proofs use the same modules; no cfg replaces a definition.

### Gate and Automation

For every finite or infinite set of sessions, requests and controllers, any
number of chunks and any window. `GateProofs` has one type lemma and one effect
lemma per method; a step lemma has one step per action.

* `TypesHold`. `TypeInv` adds to `TypeOK` that a request about to send has a
  chunk left and that a control past the keyboard check asks for start or resume;
  without them the step that decrements `left` and the one that applies a
  control could leave their types.
* `PauseHolds`. `PauseHeld` is not inductive: it says nothing while the queue is
  replayed. `HeldInv` says where the pause is in the meantime. While a call is in
  flight the phase is paused *and* the queue ends in a pause that no later stop,
  start or resume follows; during the replay either such a pause is still ahead,
  or the phase is paused and nothing that lifts it is. A control over TCP cannot
  append to the queue because the phase is paused; one from the companion
  clears `held`. `ReplayInv` adds that the queue is empty unless a call is in
  flight.
* `PublishedAlwaysMatches`, `OneLateChunk`. `EpochInv` says that the epoch a
  request holds is at most the gate's, and behind it if the request was
  interrupted. The word equals the gate, so the check before a chunk refuses
  every interrupted request, and a late chunk can only be the one already
  decided on (`LateInv`).
* `NothingStaleEverAdmitted` is an action property; it needs `LockInv` (one request
  is inside the injection lock, and the lock names it) and `ReplayInv`. Every
  method of the gate but the ones that start, resume or record is `Quiet`: it does
  not enter running and renews no trust of a stretch that lost it. No method lifts
  the keyboard latch (`LatchKept`), no request passes its look while the latch is
  set (`NoneJoin`, `NoControlJoins`), and what then enters running had passed it
  (`LatchEntry`). A call is not judged by the poll that holds when it begins.
* `CallsAccountedFor`. `FlightInv`: between arm and unwind the gate says that a
  call is out; while one is, the phase is not off; a generation that was read is
  at most the gate's, and behind it for an interrupted call about to record into
  a gate that is off. A method that is not an injection's own is `Sound`: it
  moves none of this.
* `ClosedLosesGate`. `ClosedInv`: whatever can put the gate on a session, the
  gate itself, the queue or the queue being replayed, was asked for by a control
  that picked that session, and a call inside the injection lock keeps its
  session from being closed. A method is `Detached`: it puts the gate on no
  session and queues no start or resume.

### Trust and TrustLedger

For every set of daemons, requests, reviews and versions, every finite set of
profiles, any limit, any bounds, and any initial ledgers that satisfy
`InitialLedgersWereWritten`.

* `TrustTypesHold`, `StoresAlwaysAgree`. `StoreAgrees` is not inductive: a store
  is brought up to date after a save from a ledger that was computed some steps
  before. `Inv` adds, per pc, what a request knows; that no two requests are
  inside one daemon's mutex (`Exclusive`); and, for a request in a save, that the
  ledger it carries is still its store's receipts with only its own scope decided
  (`Prepared`), which the mutex protects, and within the limit. `Fits` collects
  what a request's new record and its daemon's new store have to satisfy, and
  `StepFits` shows once that such a step keeps `Inv`; `EnvironmentFits` does the
  same for crashes, expiry and edits from outside.
* `PublicationIsUnderTrust`, `RemovalStopsPublication`. A session is published
  right after a sync, when the store holds the ledger on disk. By `Agrees` a
  profile that is neither revoked nor granted has no receipt, and a grant is its
  live receipt.
* `SavesFit`. Approve counts grants and revocations, not receipts. The two sets
  are disjoint and together the receipts, so the count is the size of the ledger
  (`RoomSuffices`).
* `DecisionsKept`, `SessionsAsReviewed`. `LedgerInv` adds what every copy of a
  receipt and of a review says (`ShownInv`: what its review showed), that a
  review is spent once, wherever it is pending (`SpendInv`), and how far a save
  is: one holds the lock, one made the directory, and between the comparison and
  the rename the ledger on disk is the one it compared with (`SaveInv`). All but
  six actions are `Ordinary`: they leave disk and history alone and hand on what
  they were given.
* `LedgerImplements`: the refinement of `TrustLedger`. `Rename` maps to one
  approval or one block, `SyncDirectory` to the step that makes it last,
  `PowerLoss` to the loss of what was not synced, `RemoveDirectory` to a removal.
  Every other step stutters.
* `UnreviewedRunsFiles` assumes `MaxOutsideEdits = 0 /\ MaxRemovals = 0`, as the
  run does: a writer that ignores the editors' lock, or a removal of the
  directory, takes away what the property is about. `CurrentInv` says that a
  request without a grant holds the current files unless its profile is decided
  in the ledger. The removal matters because a daemon that has never seen a
  ledger takes an absent one for an empty one.

### Companion

`UserAlwaysObeyed` for any numbers of inputs, acts of clients, restarts, losses
and resumes, any window and any nonempty set of sessions.

* A pause that is owed must be the last thing on its way. `PauseIsOnItsWay`
  speaks of the batch of the poller, the queue and what the frame has pending,
  as one sequence; the lemmas on sequences say where that one ends when a part is
  drained, posted, put back or retained. `PollerHolds` and `FrameHolds` say when a
  batch and a pending pause can exist; `PostedIsPaid` that a post the visor
  handled is not the pause owed.
* That no old report lifts it is `PauseIsMarked`: no resume is in flight and the
  mark is at least the newest report, which `see_visor` compares with.
* `WithoutResume` counts the pauses that `retain` leaves, as posts are pauses and
  resumes; a filtered sequence is opaque to the provers.

### Fallback

`FallbackPausesForTheUser` for any places, ticks, confirmations and bounds; the
run has two places and two events. That an unexplained pointer is the user's is
an argument about three views of one visor, of different age, and a pointer
younger than all of them. `FallbackInv` has four parts.

* `ViewInv`. A view is sound by itself: an injection is settled or out, and a
  drive is of the stretch shown and of an injection behind it. And the visor is
  later than the answer on its way, which is later than the snapshot
  (`ViewsAreOrdered`): counters grow, and a drive is shown until another
  injection or stretch takes its place.
* `NoteInv`. What frames noted of earlier snapshots, the sequence that settled,
  the drive last shown and the drive last judged by, is behind the one in hand;
  a drive that does not count is of before a resume the visor has not heard.
* `MoveInv`. Unless something is excused and unless a call has just moved it, the
  pointer is at the visor's drive (`TargetIsReached`), and the baseline is the
  pointer unless a drive not judged yet explains it (`BaselineIsPointer`). A
  pointer held to be off its drive is so because the visor no longer shows that
  drive (`HoldIsEarned`): after one more poll no view in flight does, after two
  the snapshot does not, and the age starts over. Here the two confirmations of
  `consider_displacement` are needed, and one is not enough.
* `WaitIsCounted`. A wait is open for at least as many ticks as no frame was
  judged, but for the one a frame is still owed.

`PausesForTheUser` is a step property: with the invariant, a frame that pauses
has judged by a drive, by a button or by the baseline, and each case names its
culprit.

### Startup and the other parts

`PartProofs` has a section a module; each proves its invariant from the module
alone.

* `OneVisorAnswersAlways`, any number of launches. `OneHolds`: the lock is held
  from `lock_runtime` to the return of `serve` and by one launch. `HolderListens`:
  only the holder listens, and where it listens the file is its own.
  `OpensInOrder`: what is open follows from how far the launch is; `TokenSettled`:
  a launch that serves has written or removed the token file.
* `WatchedFeedStaysCurrent`, any sets of views, watches and pictures. `FeedInv`:
  while the request that stored last goes on, the feed is what that request sent
  last. A view is gone once it stored, so that request is a watch.
* `DisplayAlwaysGivenBack`. `Knows`: an overlay that is mapped, a hidden sprite
  and a changed root are all written down in the companion's `BugCursor`, unless
  a request that takes one back failed, which `lost` remembers; so `restore`
  finds them.
* `SettingsStayCurrent`, any keys. `TomlInv`: what a click has read agrees with
  what was accepted last of every key but the doubtful ones and those saved since
  it read, and so does the file, but the doubtful ones, until the click empties
  it. `NoticeInv`: a filled cache of the notice's own time holds the notice.
* `ConfigurationStaysSound`, any profiles, servers and dialogs.
  `ConfigurationInv`: at most one edit is past the lock, it is made of the file
  that was shown, and no dialog takes the active profile away. `ReviewShows`: a
  review and a session choose the same entry of every name; this is a lemma about
  the operators of `resolve`, not about a state.
* `RoutingStaysCurrent`, any sessions, identities, files and periods.
  `RoutingInv`: a sample of age a was focused at most a + `ProbeTicks` ago, a
  file of age b was on disk at most b ago, and what a poll has taken was so a
  moment ago. The clock steps everything by one tick, so ages and the time since
  move together.
* `SignInStaysSound`, any number of operations, ports and rotations.
  `TokenFits`: a token anywhere is no newer than the issuer's newest of its
  session, so a token that died stays dead. `DeletesRightly`: an operation about
  to delete holds no token, a dead one, or one whose revocation was refused.
  `OpFits`: the interval is what was asked, and what the user must have answered
  at each step. Assumed of the constants: the bounds and ticks are natural
  numbers.

### Attachments and the other clients

`ClientProofs` has a section a module, as `PartProofs` has.

* `AttachmentsStaySound`, any finite set of servers, any requests and any
  number of changes. `AttachmentsInv` follows a connection between the slot of
  its server (`SlotFits`) and the hands of the refresh that took it out
  (`WorkFits`): it is up, of that server, and its listing is no older than what
  the connection was told when the listing began. `WorkApart`, `SlotApart` and
  `IsHeld` give one owner to every connection that is up; that no second refresh
  takes the server needs the placeholder the first leaves while the session is
  open. `Counts` states what a reader thread does, which touches no slot. Assumed
  of the constants: there are finitely many servers, and connections enough for
  the first attach.
* `DesktopStaysItsOwn`, any numbers of listeners and views. `HearerFits`: what a
  recorder gave is sent or is the chunk in hand, and a chunk of after the close
  is the last. `ViewFits` relates a view, what the portal did about it and its
  file: the view subscribed before it asked, so an answer that was given is in
  hand, and the file was written between its start and now. The two modules share
  nothing; the theorem is of both specifications at once.
* `RequestsStayOwn`, any callers, environments, launches and tool requests.
  `CallFits`: what a call met at each step, so that a token is of a launch so far
  and one that matches is of this launch, and a call past `admit` is this user's.
  `DirectoriesAgree` is about the two copies of `runtime_dir_from`, for any four
  values and lengths. `SentFits`: whoever calls a tool holds the lock of the
  sessions, so no close and no refresh comes between; `RowFits` and
  `RowIsAppended`: one row for a request that is through, none before. Assumed of
  the constants: a value of the environment is a length or unset, the appended
  lengths are natural numbers, and no request is called `Nobody`.

### Pointer, Plans and what outsiders are promised

`InputProofs` has a section a module. What `RequestsAreCarriedOut` and
`TrustIsInformed` join is proved a part at a time and then together
(`RequestsAreAlwaysCarriedOut`, `TrustIsAlwaysInformed`), of the specifications
of all parts at once, as they share no variable.

* `UserAlwaysToldFromCalls`, any number of events and snapshots and any cut of
  the queue into frames. `QueueIsMarked`: where the pointer is watched, a core
  press that was made since is in the queue behind the raw press of the same
  origin, or that raw press is what the last frame left behind; so a click is
  told by its raw event also where a frame ends between the two. A drain is a
  table over the positions of a batch (`DrainsStepByStep`, `TakeEffects`). The
  first attempt found a guard of the model that read `/\ a /\ b => c` on one
  line, which is `(a /\ b) => c`, and let a frame run before anything is
  attached; the guard now says what the code does.
* `PlansAreAlwaysWalked`, any places and requests. The lemmas say what each step
  of a plan is. The drag needs arithmetic: a share of the way is rounded towards
  zero (`ShareIs`, `QuotientIs`), is never outside the way (`OnTheWay`), and two
  shares that follow each other are at most `DragStep` apart (`ShareHops`,
  `ShortHops`), whatever the signs. Assumed:
  `DragStep` is positive and the bounds are natural numbers.
* `AnswersStayTrue`, any lines. `AdapterInv`: answers come in the order of their
  lines (`AnswersAreInOrder`), what the visor was asked had passed the adapter's
  checks (`ServedWereChecked`), and an effect on the desktop is of a request the
  visor took (`EffectsAreServed`). Assumed: the adapter's bound of a coordinate
  is at most the desktop's, as the two constants of the source are.
* `StartsAlwaysAsTold`, any words. The property reads the line from left to
  right, once more, at the end; the program reads it as it comes.
  `EachWordIsUnderstood`, `WantedIsLast` and `LineIsKept` say that the two
  readings agree on every prefix and what the visor keeps of it: of a flag that
  it was there, of a value the last, of a list all. That a list keeps as many
  values as there are flags is an induction on the cardinality of the flags read.
* `TrustIsAlwaysTheUsersWord`, any screens, profiles and requests. `PostFits`: a
  request to approve carries the word TRUST and what the screen showed then, and
  a decided review is taken from the pending ones. `DialogFits`, `ShownApart` and
  `OneDecisionEach`: a review on a screen is on no other and in no request yet,
  so that each gets one decision. `Later`: requests are only added, and what was
  done stays done, however long ago the screen gave up. It is the part of
  `TrustIsInformed` that is about `Review`.
* `ImportsAlwaysKeepMeaning`, any file, and `ListNeverLeavesOutUnsaid`, any
  places and entries. What an import is made of is a function of the entry; the
  proof goes through every transport it may name. What a list leaves out is
  counted against its limits, and each limit sets the mark that says so.

The prover cannot instantiate a theorem that takes an operator, so the induction
rules of the library are of no use here. Where an induction is needed it is made
from the axiom that a nonempty set of numbers has a least one, or over the set
of numbers at which the claim holds: `LeastOf`, `CountUp`, `TableExists` and
their like are lemmas about sets, and recursive functions are shown to exist by
them before they are used.

### Release and PromptPass

`StreamProofs` has both, and first what they share: sequences laid end to end
(`IsLaid`, `LaidInOrder`), of the events of strokes and of the lists of parts.

* `NothingEverStaysDown`, any number of keystrokes, sizes of chunks and batches
  and faults, wherever a request ends. Assumed is `~LiftsFirst`: no plan lifts
  what it has not pressed; `lifted_key` is the run without it, and it fails. A
  plan is *sound* if every lift has a press of its key before it; as keys repeat,
  that is a matter of counting (`PressesTo`, `LiftsTo`, `HoldsAt`), and so is what
  the guard has noted: between two chunks each key as often as it was pressed and
  not lifted, and while a chunk is sent with all of its presses and none of its
  lifts (`Agrees`). `ReleaseInv` holds next to this how far the desktop is into
  the chunk: between two strokes, or half way through an "A", which is two events
  a stroke (`Reaches`). From there on what is down is noted or lost by the desktop
  (`Covered`), and lifting the last note keeps it so; for an "A" because the Shift
  that came with it is noted before it (`ShiftIsFirst`), so that a Shift nobody
  lifts yet is still on the list.
* `AuditAlwaysTrue`, any requests, doors, models and bodies. Assumed are the
  names: no host and no model is called "none", "unknown" or blank.
  `PromptInv` says that the pass, with its needles and its report, is the one
  request's that holds the gate, and that the findings which are pending are of
  the prompt it asks about (`PassIsOnes`); that a prompt hears the doors of its
  plan in the plan's order and, in a failover, none after an answer
  (`AskingIs`); and that the rows of a request are those of its prompts so far, in
  their order (`RowsTell`), each clean and about its own prompt (`RowIs`). All of
  the state but the request is shared by every request, so a step has to leave
  the rows of the others as they are: their needles do not change once they are
  in the pass.

### Only model-checked

* Liveness (`ExpiredRunEnds`, `WaitersAreServed`, `Converges`, `PartsSettle`):
  fairness and ENABLED are outside what the prover does.
* `TextsAreClean` (`Redaction`, `Activity`): what a text is made of is computed by
  folds over its pieces and by sorting the values of a vault by their lengths; to
  say what a fold computes is an induction over data.
* `PartsTypeOK` and `ClientsTypeOK`: they choose, in the MC modules, the type
  invariant of the part that moves. The types of `PromptPass` and `Release` are
  part of their theorems, those of the others of the invariants above.

## Not modelled

* Harness and capability checks, the display harness, packaging, containers: no
  state beyond a process that runs or does not.
* The command line client in Go: vendored, and a client of the same requests.
* The native macOS helper and the pixels of every desktop backend: what they
  return is a value to the rest.
* Rendering, the wording of dialogs, JSON, TOML and HTTP as text: parsing is
  modelled only where a decision hangs on it.

## Plan

Modelled and checked: every component above. Proved: every safety invariant and
action property of the runs but `TextsAreClean` and the two that choose between
types. Next: `Redaction`, once what it removes is stated as a table over the
positions of a text, as the drains of `Pointer` and the plans of `Release` are;
then a model of `mcp_call` with time, for the hazards no property covers yet.
