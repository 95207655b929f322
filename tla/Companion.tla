------------------------------ MODULE Companion ------------------------------
(***************************************************************************)
(* The companion against the visor it watches.  Two threads of the         *)
(* companion run here: the window's frame loop (companion/src/window.rs),  *)
(* which turns physical input, clicks and snapshots into pauses and        *)
(* resumes, and the poller (companion/src/visor.rs), which posts them and  *)
(* fetches snapshots over a socket that may answer late or not at all.     *)
(* The visor is its real gate (module Gate); it may die and come back as a *)
(* process with another nonce, and TCP clients drive it meanwhile.         *)
(*                                                                         *)
(* A frame is three steps, because the poller runs between them: take the  *)
(* snapshot; settle input and snapshot; finish with fallback, click, timer *)
(* and enqueue.  An exchange is two: the visor handles it, then the poller *)
(* hears of it.  A post the poller gave up on may still be handled later.  *)
(*                                                                         *)
(* Left out: the keyboard report, drives (module Fallback), drawing, the   *)
(* poller's stop flag and the Wayland backend, on which nothing drives.    *)
(***************************************************************************)
EXTENDS Gate, Machine, FiniteSetsExt

CONSTANTS DisconnectMisses, \* failed polls before the companion shows nothing
          MaxInputs,        \* physical inputs and clicks
          MaxClients,       \* TCP starts, stops, pauses and mouse calls
          MaxRestarts,      \* times the visor process dies
          MaxLosses,        \* exchanges lost, late or cut while it is up
          MaxResumes,       \* times the idle timer or Continue resumes
          MaxEvents         \* all of these but the clients' together; with
                            \* none left the idle timer does not fire either

ASSUME CompanionAssumption ==
  /\ DisconnectMisses \in Nat \ {0}
  /\ {MaxInputs, MaxClients, MaxRestarts, MaxLosses, MaxResumes,
     MaxEvents} \subseteq Nat
  /\ Sessions # {}  \* one is open all along

VARIABLES
  gate, up, instance,  \* the visor: its gate, whether it runs, its nonce
  stragglers,          \* posts given up on that the visor will still handle
  queue,               \* Poller::queue
  dropped,             \* Poller::resume_dropped
  poller,              \* the poller thread
  machine, pending,    \* App::machine, App::pending
  frame,               \* the frame loop
  owed,                \* history: a pause the companion decided on that no
                       \* visor process has handled and no resume replaced
  spent                \* history: how much of each bound is used up

visorVars == << gate, up, instance, stragglers >>
frameVars == << machine, pending, frame >>
vars == << gate, up, instance, stragglers, queue, dropped, poller, machine,
           pending, frame, owed, spent >>

Posts == {"pause", "resume"}

\* Posts are pauses and resumes, so what retain leaves is the pauses.
WithoutResume(actions) ==
  [n \in 1..Cardinality({i \in DOMAIN actions : actions[i] # "resume"}) |-> "pause"]

Bounds == [inputs |-> MaxInputs, clients |-> MaxClients,
           restarts |-> MaxRestarts, losses |-> MaxLosses, resumes |-> MaxResumes]

Snapshots == [connected : BOOLEAN, phase : Phases, seq : Nat, instance : Nat]
Disconnected == [connected |-> FALSE, phase |-> "off", seq |-> 0, instance |-> 0]

\* The body of GET /companion as snapshot_from_body reads it.
SnapshotOf(g, nonce) ==
  [connected |-> TRUE, phase |-> g.phase, seq |-> g.resumeSeq, instance |-> nonce]

TheSession == CHOOSE s \in Sessions : TRUE

Init ==
  /\ gate = InitialGate /\ up = TRUE /\ instance = 1 /\ stragglers = {}
  /\ queue = << >> /\ dropped = FALSE
  /\ poller = [pc |-> "drain", batch |-> << >>, answer |-> Disconnected,
               misses |-> DisconnectMisses, cache |-> Disconnected, asked |-> FALSE]
  /\ machine = NewMachine /\ pending = << >>
  /\ frame = [pc |-> "begin", snap |-> Disconnected, restarted |-> FALSE]
  /\ owed = FALSE
  /\ spent = [b \in DOMAIN Bounds |-> 0]

CanSpend(b) ==
  /\ spent[b] < Bounds[b]
  /\ b = "clients" \/ MapThenSumSet(LAMBDA c : spent[c], DOMAIN Bounds \ {"clients"})
                        < MaxEvents
Spend(b) == CanSpend(b) /\ spent' = [spent EXCEPT ![b] = @ + 1]

-----------------------------------------------------------------------------
(* The visor's side of a post (api.rs control_automation, companion link). *)

HandlePost(g, action) ==
  IF action = "pause" THEN Pause(g) ELSE Apply(g, "resume", TheSession, TRUE)

\* What the companion still has to say, in the order it will be said.
Road == poller.batch \o queue \o pending

\* A pause that was handled is no longer owed, unless a resume follows it.
Handled(action) ==
  owed' = (owed /\ (action # "pause" \/ "resume" \in ToSet(Road)))

-----------------------------------------------------------------------------
(* The poller (visor_loop).                                                *)

\* Post what is left of a batch, or go on to fetch.
WithBatch(batch) ==
  [poller EXCEPT !.batch = batch, !.pc = IF batch = << >> THEN "fetch" ELSE "post"]

Drain ==
  /\ poller.pc = "drain" /\ poller' = WithBatch(queue)
  /\ queue' = << >>
  /\ UNCHANGED << visorVars, dropped, frameVars, owed, spent >>

VisorHandlesPost ==
  /\ up /\ poller.pc = "post" /\ poller' = [poller EXCEPT !.pc = "posted"]
  /\ gate' = HandlePost(gate, Head(poller.batch))
  /\ Handled(Head(poller.batch))
  /\ UNCHANGED << up, instance, stragglers, queue, dropped, frameVars, spent >>

PostOk ==
  /\ poller.pc = "posted" /\ poller' = WithBatch(Tail(poller.batch))
  /\ UNCHANGED << visorVars, queue, dropped, frameVars, owed, spent >>

\* restore_after_cancel: what goes back to the front of the queue.
Restored(failed, cancelled) == IF cancelled THEN WithoutResume(failed) ELSE failed

\* No connection, no answer within 300 ms, or the visor died meanwhile.  An
\* action not handled yet may be handled after the poller gave up.
PostFails ==
  /\ poller.pc \in {"post", "posted"} /\ poller' = WithBatch(<< >>)
  /\ queue' = Restored(poller.batch, dropped) \o queue
  /\ IF up THEN Spend("losses") ELSE UNCHANGED spent
  /\ \/ UNCHANGED stragglers
     \/ up /\ poller.pc = "post" /\ stragglers' = stragglers \cup {Head(poller.batch)}
  /\ UNCHANGED << gate, up, instance, dropped, frameVars, owed >>

StragglerHandled ==
  \E action \in stragglers :
    /\ stragglers' = stragglers \ {action}
    /\ gate' = HandlePost(gate, action)
    /\ Handled(action)
    /\ UNCHANGED << up, instance, queue, dropped, poller, frameVars, spent >>

\* GET /companion: the poll is noted and the body written.
VisorHandlesFetch ==
  /\ up /\ poller.pc = "fetch"
  /\ gate' = NotePoll(gate)
  /\ poller' = [poller EXCEPT !.pc = "fetched", !.answer = SnapshotOf(gate', instance)]
  /\ UNCHANGED << up, instance, stragglers, queue, dropped, frameVars, owed, spent >>

\* apply_poll and the cache write, for each of the three PollFetch results.
Polled(cache, misses, asked) ==
  poller' = [poller EXCEPT !.pc = "drain", !.answer = Disconnected,
                           !.cache = cache, !.misses = misses, !.asked = asked]

FetchReady ==
  /\ poller.pc = "fetched"
  /\ Polled(poller.answer, 0, FALSE)
  /\ UNCHANGED << visorVars, queue, dropped, frameVars, owed, spent >>

\* Misses past the limit are not told apart.
Missed(misses) == IF misses < DisconnectMisses THEN misses + 1 ELSE misses

\* Link::miss.
Miss ==
  LET misses == Missed(poller.misses)
  IN  Polled(IF misses = DisconnectMisses THEN Disconnected ELSE poller.cache,
             misses, poller.asked)

FetchDown ==
  /\ poller.pc \in {"fetch", "fetched"}
  /\ Miss
  /\ IF up THEN Spend("losses") ELSE UNCHANGED spent
  /\ UNCHANGED << visorVars, queue, dropped, frameVars, owed >>

\* A body that is cut off or does not parse asks for one pause.
FetchUnreadable ==
  /\ poller.pc = "fetched" /\ Spend("losses")
  /\ IF poller.cache.phase \in {"running", "paused"}
     THEN /\ Polled(poller.cache, poller.misses, TRUE)
          /\ queue' = IF poller.asked \/ "pause" \in ToSet(queue) THEN queue
                      ELSE Append(queue, "pause")
     ELSE Miss /\ UNCHANGED queue
  /\ UNCHANGED << visorVars, dropped, frameVars, owed >>

PollerActs ==
  \/ Drain \/ VisorHandlesPost \/ PostOk \/ PostFails
  \/ VisorHandlesFetch \/ FetchReady \/ FetchDown \/ FetchUnreadable

-----------------------------------------------------------------------------
(* The frame loop (window.rs show).  A frame ends with nothing pending.    *)

\* Nothing, or the one action this frame enqueues.
Pendings == {<< >>, << "pause" >>, << "resume" >>}

NotePause(p, cond) == IF cond THEN << "pause" >> ELSE p

\* Poller::cancel_resume.
CancelResume(cond) ==
  /\ dropped' = (dropped \/ cond)
  /\ queue' = IF cond THEN WithoutResume(queue) ELSE queue

FrameBegin ==
  /\ frame.pc = "begin"
  /\ LET snap == poller.cache
         restarted == snap.connected /\ Restarted(machine, snap.instance)
         again == restarted /\ machine.phase = "paused"
     IN  /\ frame' = [pc |-> "settle", snap |-> snap, restarted |-> restarted]
         /\ machine' = IF snap.connected
                       THEN NoteInstance(machine, snap.instance, snap.seq)
                       ELSE machine
         /\ pending' = NotePause(pending, again)
         /\ owed' = (owed \/ again)
  /\ UNCHANGED << visorVars, queue, dropped, poller, spent >>

SeeSnapshotOfRestart(m) ==
  IF ~frame.snap.connected THEN NoteDisconnect(m)
  ELSE SeeVisor(m, frame.snap.phase, frame.snap.seq)

\* A restart leaves a local pause as it is: it is posted again.
SeeSnapshot(m) ==
  IF ~frame.snap.connected THEN NoteDisconnect(m)
  ELSE IF frame.restarted /\ m.phase = "paused" THEN m
  ELSE SeeVisor(m, frame.snap.phase, frame.snap.seq)

\* Physical input is judged against the phase on screen and, unless it paused
\* that one, against the phase the snapshot brings (settle_live_input).
FrameSettle(live) ==
  /\ frame.pc = "settle"
  /\ LET onShown == live /\ PausesOnInput(machine)
         input == IF live THEN UserInput(machine) ELSE machine
         seen == SeeSnapshot(input)
         again == live /\ (~onShown \/ seen.phase = "running")
         onIncoming == again /\ PausesOnInput(seen)
         cancels == live \/ ~frame.snap.connected
         kept == NotePause(IF cancels THEN WithoutResume(pending) ELSE pending,
                           onShown \/ onIncoming)
     IN  /\ machine' = IF again THEN UserInput(seen) ELSE seen
         /\ pending' = IF machine'.phase = "off" /\ ~onShown /\ ~onIncoming
                       THEN << >> ELSE kept
         /\ CancelResume(cancels)
         /\ owed' = (owed \/ onShown \/ onIncoming)
  /\ frame' = [pc |-> "finish", snap |-> Disconnected, restarted |-> FALSE]
  /\ IF live THEN Spend("inputs") ELSE UNCHANGED spent
  /\ UNCHANGED << visorVars, poller >>

Clicks == {"none", "bug", "continue", "dismiss"}

\* What a click on the bug does (bug_click): ask only about a pause that was
\* on screen when the frame began.
AsksAbout(m) == m.phase = "paused" /\ ~m.fresh

AfterClick(m, click) ==
  CASE click = "bug" /\ AsksAbout(m) -> Ask(m)
    [] click = "bug" /\ PausesOnInput(m) -> UserInput(m)
    [] click = "continue" /\ ResumesOnContinue(m) -> Resumed(m)
    [] click = "dismiss" -> Dismiss(m)
    [] OTHER -> m

\* moved is what classify_fallback returned for this frame.
FrameFinish(moved, click) ==
  /\ frame.pc = "finish"
  /\ LET byPointer == moved /\ PausesOnInput(machine)
         m1 == IF moved THEN UserInput(machine) ELSE machine
         byClick == click = "bug" /\ PausesOnInput(m1)
         m2 == AfterClick(m1, click)
         continued == click = "continue" /\ ResumesOnContinue(m1)
         timed == ResumesOnTimer(m2) /\ CanSpend("resumes")
         resumes == continued \/ timed
         cancels == (moved /\ machine.phase # "off") \/ byClick
         noted == NotePause(IF cancels THEN WithoutResume(pending) ELSE pending,
                            byPointer \/ byClick)
         last == IF resumes THEN << "resume" >> ELSE noted
         kept == IF cancels THEN WithoutResume(queue) ELSE queue
     IN  /\ machine' = [IF timed THEN Resumed(m2) ELSE m2 EXCEPT !.fresh = FALSE]
         /\ queue' = kept \o last
         /\ dropped' = ((dropped \/ cancels) /\ last # << "resume" >>)
         /\ owed' = ((owed \/ byPointer \/ byClick) /\ ~resumes)
         /\ IF resumes THEN Spend("resumes")
            ELSE IF moved \/ click # "none" THEN Spend("inputs") ELSE UNCHANGED spent
  /\ pending' = << >>
  /\ frame' = [frame EXCEPT !.pc = "begin"]
  /\ UNCHANGED << visorVars, poller >>

\* resume_after_ms passes without input.  A frame reads the clock once, at its
\* beginning, so the wait never ends in the middle of one.
QuietPasses ==
  /\ frame.pc = "begin" /\ ~machine.quiet /\ machine.phase = "paused"
  /\ machine' = [machine EXCEPT !.quiet = TRUE]
  /\ UNCHANGED << visorVars, queue, dropped, poller, pending, frame, owed, spent >>

FrameActs ==
  \/ FrameBegin
  \/ \E live \in BOOLEAN : FrameSettle(live)
  \/ \E moved \in BOOLEAN, click \in Clicks : FrameFinish(moved, click)

-----------------------------------------------------------------------------
(* Others: TCP clients, the watchdog, the clock, the visor's process.      *)

OnlyGate == UNCHANGED << up, instance, stragglers, queue, dropped, poller,
                         frameVars, owed >>

\* start, stop and pause over TCP; a mouse call that begins and ends.
ClientActs ==
  /\ up /\ Spend("clients")
  /\ \/ gate' = Pause(gate)
     \/ gate.phase # "paused" /\ gate' = Stop(gate)
     \/ /\ gate.phase # "paused" /\ Admits(gate, "start", TheSession, FALSE)
        /\ gate' = Apply(gate, "start", TheSession, FALSE)
     \/ /\ MayBegin(gate, gate.epoch) /\ ~StaleReentry(gate)
        /\ gate' = SettleInject(BeginInject(gate, TheSession))
  /\ OnlyGate

WatchdogTick ==
  /\ up /\ gate' = Watchdog(gate)
  /\ UNCHANGED spent /\ OnlyGate

\* Time passes only while it can matter here; module Automation has the rest.
Tick ==
  /\ up /\ gate.phase = "running"
  /\ gate' = [gate EXCEPT !.trustedAt = Aged(@), !.lastPoll = Aged(@)]
  /\ UNCHANGED spent /\ OnlyGate

VisorDies ==
  /\ up /\ Spend("restarts")
  /\ up' = FALSE /\ stragglers' = {} /\ gate' = InitialGate
  /\ owed' = FALSE
  /\ UNCHANGED << instance, queue, dropped, poller, frameVars >>

\* A new process draws a new nonce.
VisorStarts ==
  /\ ~up /\ up' = TRUE /\ instance' = instance + 1
  /\ UNCHANGED << gate, stragglers, queue, dropped, poller, frameVars, owed, spent >>

Next ==
  \/ PollerActs \/ FrameActs \/ QuietPasses
  \/ StragglerHandled \/ ClientActs \/ WatchdogTick \/ Tick
  \/ VisorDies \/ VisorStarts

Spec == Init /\ [][Next]_vars

(***************************************************************************)
(* Both threads of the companion run for ever, a visor that died is        *)
(* started again, and a post that was sent is handled or lost for good.    *)
(* Nothing is assumed of clients, the watchdog, the clock and the user.    *)
(***************************************************************************)
FairSpec ==
  /\ Spec
  /\ WF_vars(PollerActs) /\ WF_vars(FrameActs)
  /\ WF_vars(StragglerHandled) /\ WF_vars(VisorStarts)

-----------------------------------------------------------------------------
(* Properties.                                                             *)

\* Every variable keeps its type (Poller, App and Machine of the companion).
CompanionTypeOK ==
  /\ gate \in Gates /\ up \in BOOLEAN /\ instance \in Nat \ {0}
  /\ stragglers \subseteq Posts /\ queue \in Seq(Posts) /\ dropped \in BOOLEAN
  /\ poller \in [pc : {"drain", "post", "posted", "fetch", "fetched"},
                 batch : Seq(Posts), answer : Snapshots,
                 misses : 0..DisconnectMisses, cache : Snapshots, asked : BOOLEAN]
  /\ machine \in Machines /\ pending \in Pendings
  /\ frame \in [pc : {"begin", "settle", "finish"}, snap : Snapshots,
                restarted : BOOLEAN]
  /\ owed \in BOOLEAN
  /\ \A b \in DOMAIN Bounds : spent[b] \in 0..Bounds[b]

\* A pause the user caused is the last thing on its way to the visor until a
\* visor has handled it: no failed post, disconnect, restart or snapshot loses
\* it or lets an older resume pass behind it (restore_after_cancel,
\* cancel_resume, note_user_input).
PauseIsOnItsWay == owed => Road # << >> /\ Last(Road) = "pause"

\* A resume the user overruled stays out of the queue although the poller may
\* have taken it and failed to post it (resume_dropped).
ResumeStaysCancelled == dropped => "resume" \notin ToSet(queue)

\* What the user did last wins, whatever is lost, late or restarted: a pause is
\* on its way until it is handled, a resume it overruled never leaves again, and
\* the threads keep their types (note_user_input, restore_after_cancel).
UserHasTheLastWord == CompanionTypeOK /\ PauseIsOnItsWay /\ ResumeStaysCancelled

\* A step lifts a pause that is on screen and that the visor has not heard of
\* only for a report that the visor entered running again after the newest
\* report the pause was judged by (see_visor, pause_mark, note_instance).
OldReportLiftsNothing ==
  owed /\ owed' /\ machine.phase = "paused" /\ machine'.phase = "running"
    => frame.snap.seq > machine.lastSeq

\* Neither a lost or late exchange nor an old report undoes what the user did last:
\* no step does (see_visor, restore_after_cancel, note_user_input).
UserIsObeyed == [][UserHasTheLastWord' /\ OldReportLiftsNothing]_vars

\* Once nobody acts any more, the companion shows the phase the visor is in:
\* neither a cancelled resume, a stale report nor a dead process's sequence
\* leaves the two apart for good (the whole of Machine).
Converges == <>[](up /\ machine.phase = gate.phase)
=============================================================================
