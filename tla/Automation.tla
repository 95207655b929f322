----------------------------- MODULE Automation -----------------------------
(***************************************************************************)
(* Who calls the gate: the control API of the visor (src/api.rs).  Mouse   *)
(* and type requests wait for the injection lock on blocking threads and   *)
(* read the published word without the gate lock; controls, companion      *)
(* polls, closes, the watchdog task and shutdown take only the gate lock,  *)
(* so they overtake a call that is still inside the desktop.               *)
(*                                                                         *)
(* One action per critical section or lock-free read.  A request is a      *)
(* process that runs once; the sets of requests bound the behaviours.  The *)
(* backend is X11: a Wayland daemon refuses every request modelled here.   *)
(*                                                                         *)
(* A definition named for what it gets wrong (AcquireLeaks, StopSilent)    *)
(* occurs in no action: it is the next definition with one fault, kept to  *)
(* show that a property notices the fault.                                 *)
(***************************************************************************)
EXTENDS Gate

CONSTANTS Injectors,   \* mouse and type requests
          Controllers, \* start, pause, resume and stop requests
          Actions,     \* the actions controllers ask for
          Closable,    \* sessions a client closes
          MaxChunks,   \* chunks an injection is cut into
          Shutdown,    \* the task that runs AppState::shutdown
          MayShutdown, \* whether that task may run
          NoOne        \* nobody holds the injection lock

ASSUME AutomationAssumption ==
  /\ MaxChunks \in Nat \ {0}
  /\ Actions \subseteq {"start", "pause", "resume", "stop"}
  /\ Closable \subseteq Sessions
  /\ MayShutdown \in BOOLEAN
  /\ Shutdown \notin Injectors /\ NoOne \notin Injectors /\ Shutdown # NoOne

VARIABLES
  gate,         \* AppState::automation
  sessions,     \* AppState::sessions, and how far a close of each has come
  injection,    \* who holds AppState::injection
  replay,       \* the end_inject that holds the gate lock, if any
  inj, ctl,     \* the requests
  stopping,     \* the shutdown task
  held,         \* history: a pause landed and nobody entitled has lifted it
  interrupted,  \* history: injectors that read the epoch before an interrupt
  late          \* history: chunks an interrupted injector sent after it

vars == << gate, sessions, injection, replay, inj, ctl, stopping,
           held, interrupted, late >>
history == << held, interrupted, late >>

InjectorStates ==
  {"idle", "capture", "keyboard", "precheck", "stale", "mark", "wait", "check",
   "stretch", "arm", "generation", "loop", "send", "record", "unwind",
   "replay", "unlock", "done"}
ControlStates == {"idle", "live", "select", "apply", "done"}
StoppingStates == {"up", "cancelled", "waited", "cleared", "stopped"}
SessionStates == {"new", "open", "removed", "noted", "closed", "cleared"}

\* A request that has not begun, or whose locals are gone.  A finished control
\* keeps the session it picked, for a property below.
InjectorAt(pc) == [pc |-> pc, session |-> NoSession, epoch |-> 0,
                   generation |-> 0, left |-> 0]
ControllerAt(pc, s) == [pc |-> pc, action |-> "pause", companion |-> FALSE,
                        session |-> s]
Injections == [pc : InjectorStates, session : MaybeSession, epoch : Nat,
               generation : Nat, left : 0..MaxChunks]
ControlRequests == [pc : ControlStates,
                    action : {"start", "pause", "resume", "stop"},
                    companion : BOOLEAN, session : MaybeSession]
Replays == [active : BOOLEAN, rest : Seq(Deferred), fresh : BOOLEAN]
NoReplay == [active |-> FALSE, rest |-> << >>, fresh |-> FALSE]

Init ==
  /\ gate = InitialGate
  /\ sessions = [s \in Sessions |-> "new"]
  /\ injection = NoOne
  /\ replay = NoReplay
  /\ inj = [r \in Injectors |-> InjectorAt("idle")]
  /\ ctl = [c \in Controllers |-> ControllerAt("idle", NoSession)]
  /\ stopping = "up"
  /\ held = FALSE
  /\ interrupted = {}
  /\ late = [r \in Injectors |-> 0]

\* end_inject keeps the gate lock while it replays the queue.
GateFree == ~replay.active

HasSession(s) == s \in Sessions /\ sessions[s] = "open"

\* Injectors that have read the epoch and not yet returned.
Reading == {r \in Injectors : inj[r].pc \notin {"idle", "capture", "done"}}
\* Injectors between begin_inject and end_inject.
Armed == {r \in Injectors : inj[r].pc \in {"generation", "loop", "send", "record",
                                           "unwind"}}

\* Bookkeeping of a step that pauses, stops or cancels when cond holds.
Interrupts(cond) ==
  /\ interrupted' = IF cond THEN interrupted \cup Reading ELSE interrupted
  /\ UNCHANGED late
Holds(cond) == held' = (held \/ cond)

-----------------------------------------------------------------------------
(* Mouse and type (api.rs mouse, type_keys).                               *)

GoInj(r, from, to) ==
  /\ inj[r].pc = from
  /\ inj' = [inj EXCEPT ![r] = IF to = "done" THEN InjectorAt("done")
                               ELSE [@ EXCEPT !.pc = to]]
OnlyInj == UNCHANGED << gate, sessions, injection, replay, ctl, stopping, history >>

Arrive(r, s, chunks) ==
  /\ inj[r].pc = "idle" /\ GateFree
  /\ gate' = Watchdog(gate)
  /\ inj' = [inj EXCEPT ![r].pc = "capture", ![r].session = s, ![r].left = chunks]
  /\ Interrupts(WatchdogFires(gate)) /\ Holds(WatchdogFires(gate))
  /\ UNCHANGED << sessions, injection, replay, ctl, stopping >>

Capture(r) ==
  /\ inj[r].pc = "capture"
  /\ inj' = [inj EXCEPT ![r].pc = "keyboard", ![r].epoch = gate.published.epoch]
  /\ OnlyInj

KeyboardCheck(r) ==
  /\ GateFree
  /\ GoInj(r, "keyboard", IF gate.keyboard THEN "precheck" ELSE "done")
  /\ OnlyInj

IsCancelled(r) == Cancelled(inj[r].epoch, gate.published)

Precheck(r) ==
  /\ GoInj(r, "precheck", IF IsCancelled(r) THEN "done" ELSE "stale")
  /\ OnlyInj

StaleCheck(r) ==
  /\ GateFree
  /\ GoInj(r, "stale", IF StaleReentry(gate) THEN "done" ELSE "mark")
  /\ OnlyInj

MarkVerb(r) ==
  /\ GoInj(r, "mark", IF HasSession(inj[r].session) THEN "wait" ELSE "done")
  /\ OnlyInj

\* The blocking task takes the injection lock, then looks for the session.
Acquire(r) ==
  /\ injection = NoOne
  /\ injection' = r
  /\ GoInj(r, "wait", IF HasSession(inj[r].session) THEN "check" ELSE "unlock")
  /\ UNCHANGED << gate, sessions, replay, ctl, stopping, history >>

\* A coordinate off the root, or a failed root_size, refuses too.
PostCheck(r) ==
  /\ \/ ~IsCancelled(r) /\ GoInj(r, "check", "stretch")
     \/ GoInj(r, "check", "unlock")
  /\ OnlyInj

StretchEnded(r) ==
  /\ GateFree
  /\ GoInj(r, "stretch", IF StaleReentry(gate) THEN "unlock" ELSE "arm")
  /\ OnlyInj

\* InjectGuard::arm.
Arm(r) ==
  /\ GateFree
  /\ IF MayBegin(gate, inj[r].epoch)
     THEN GoInj(r, "arm", "generation") /\ gate' = BeginInject(gate, inj[r].session)
     ELSE GoInj(r, "arm", "unlock") /\ UNCHANGED gate
  /\ UNCHANGED << sessions, injection, replay, ctl, stopping, history >>

ReadGeneration(r) ==
  /\ inj[r].pc = "generation" /\ GateFree
  /\ inj' = [inj EXCEPT ![r].pc = "loop", ![r].generation = gate.generation]
  /\ OnlyInj

ChunkCheckOnlyAtEnd(r) ==
  /\ GoInj(r, "loop", IF inj[r].left > 0 THEN "send"
                      ELSE IF IsCancelled(r) THEN "unwind" ELSE "record")
  /\ OnlyInj

ChunkCheckPastTheEnd(r) ==
  /\ GoInj(r, "loop", IF IsCancelled(r) THEN "unwind"
                      ELSE IF inj[r].left >= 0 THEN "send" ELSE "record")
  /\ OnlyInj

\* Before every chunk, and once more before the sample is recorded.
ChunkCheck(r) ==
  /\ GoInj(r, "loop", IF IsCancelled(r) THEN "unwind"
                      ELSE IF inj[r].left > 0 THEN "send" ELSE "record")
  /\ OnlyInj

\* One desktop call.  It may fail after the keys are already down.
SendChunk(r) ==
  /\ inj[r].pc = "send"
  /\ \E to \in {"loop", "unwind"} :
       inj' = [inj EXCEPT ![r].pc = to, ![r].left = @ - 1]
  /\ late' = [late EXCEPT ![r] = IF r \in interrupted THEN @ + 1 ELSE @]
  /\ UNCHANGED << gate, sessions, injection, replay, ctl, stopping, held, interrupted >>

Record(r) ==
  /\ GateFree
  /\ GoInj(r, "record", "unwind")
  /\ gate' = IF Accepts(gate, inj[r].generation)
             THEN StoreDrive(gate, inj[r].session) ELSE gate
  /\ UNCHANGED << sessions, injection, replay, ctl, stopping, history >>

\* ReleaseGuard lets go of held inputs, then InjectGuard ends the injection.
\* The gate lock is held from here until EndInject.
BeginUnwind(r) ==
  /\ GateFree
  /\ GoInj(r, "unwind", "replay")
  /\ gate' = SettleInject(gate)
  /\ replay' = [active |-> TRUE, rest |-> gate.deferred, fresh |-> PollFresh(gate)]
  /\ UNCHANGED << sessions, injection, ctl, stopping, history >>

ReplayOne(r) ==
  /\ inj[r].pc = "replay" /\ replay.rest # << >>
  /\ gate' = ApplyDeferred(gate, Head(replay.rest), replay.fresh)
  /\ replay' = [replay EXCEPT !.rest = Tail(@)]
  /\ UNCHANGED << sessions, injection, inj, ctl, stopping, history >>

EndInject(r) ==
  /\ replay.rest = << >>
  /\ GoInj(r, "replay", "unlock")
  /\ gate' = Publish(gate)
  /\ replay' = NoReplay
  /\ UNCHANGED << sessions, injection, ctl, stopping, history >>

Unlock(r) ==
  /\ GoInj(r, "unlock", "done")
  /\ injection' = NoOne
  /\ interrupted' = interrupted \ {r} /\ late' = [late EXCEPT ![r] = 0]
  /\ UNCHANGED << gate, sessions, replay, ctl, stopping, held >>

Inject(r) ==
  \/ Capture(r) \/ KeyboardCheck(r) \/ Precheck(r) \/ StaleCheck(r) \/ MarkVerb(r)
  \/ Acquire(r) \/ PostCheck(r) \/ StretchEnded(r) \/ Arm(r) \/ ReadGeneration(r)
  \/ ChunkCheck(r) \/ Record(r) \/ BeginUnwind(r) \/ ReplayOne(r) \/ EndInject(r)
  \/ Unlock(r)

-----------------------------------------------------------------------------
(* Controls (api.rs control_automation).                                   *)

EndCtl(c, from) ==
  /\ ctl[c].pc = from
  /\ ctl' = [ctl EXCEPT ![c] = ControllerAt("done", ctl[c].session)]
OnlyCtl == UNCHANGED << gate, sessions, injection, replay, inj, stopping, history >>

\* Pause is accepted from anyone, in any phase.
ControlPause(c, companion) ==
  /\ EndCtl(c, "idle") /\ GateFree
  /\ gate' = Pause(gate)
  /\ Interrupts(TRUE) /\ Holds(TRUE)
  /\ UNCHANGED << sessions, injection, replay, inj, stopping >>

\* Once paused, only the companion socket may start, resume or stop.
Permitted(action, phase, companion) == companion \/ ~LiftsUserPause(action, phase)

ControlStop(c, companion) ==
  /\ EndCtl(c, "idle") /\ GateFree
  /\ IF Permitted("stop", gate.phase, companion)
     THEN /\ gate' = Stop(gate)
          /\ held' = (held /\ ~companion)
          /\ Interrupts(TRUE)
     ELSE UNCHANGED << gate, history >>
  /\ UNCHANGED << sessions, injection, replay, inj, stopping >>

\* Start and resume look at the keyboard latch under a lock of their own.
ControlKeyboardCheck(c, action, companion) ==
  /\ GateFree
  /\ IF gate.keyboard
     THEN /\ ctl[c].pc = "idle"
          /\ ctl' = [ctl EXCEPT ![c].pc = "live", ![c].action = action,
                                ![c].companion = companion]
     ELSE EndCtl(c, "idle")
  /\ OnlyCtl

\* control_session: the gate's live session while one exists ...
ControlLive(c) ==
  /\ ctl[c].pc = "live" /\ GateFree
  /\ ctl' = [ctl EXCEPT ![c].pc = "select",
       ![c].session = IF gate.phase = "off" THEN NoSession ELSE gate.session]
  /\ OnlyCtl

\* ... else the most recently touched one (any open one: touches are data).
ControlSelect(c) ==
  /\ ctl[c].pc = "select"
  /\ \E s \in MaybeSession :
       /\ IF HasSession(ctl[c].session) THEN s = ctl[c].session
          ELSE HasSession(s) \/ (s = NoSession /\ ~\E t \in Sessions : HasSession(t))
       /\ ctl' = [ctl EXCEPT ![c].pc = "apply", ![c].session = s]
  /\ OnlyCtl

\* The 403 and Gate::apply, under one lock.
ControlApply(c) ==
  /\ GateFree
  /\ EndCtl(c, "apply")
  /\ LET k == ctl[c]
     IN  IF /\ Permitted(k.action, gate.phase, k.companion)
            /\ Admits(gate, k.action, k.session, k.companion)
         THEN /\ gate' = Apply(gate, k.action, k.session, k.companion)
              /\ held' = (held /\ ~k.companion)
              /\ UNCHANGED << interrupted, late >>
         ELSE UNCHANGED << gate, history >>
  /\ UNCHANGED << sessions, injection, replay, inj, stopping >>

ControlArrive(c) ==
  \E companion \in BOOLEAN :
    \/ "pause" \in Actions /\ ControlPause(c, companion)
    \/ "stop" \in Actions /\ ControlStop(c, companion)
    \/ \E action \in Actions \cap {"start", "resume"} :
         ControlKeyboardCheck(c, action, companion)

-----------------------------------------------------------------------------
(* The companion socket, the watchdog and the clock.                       *)

OnlyGate == UNCHANGED << sessions, injection, replay, inj, ctl, stopping >>

CompanionPoll ==
  /\ GateFree
  /\ gate' = NotePoll(gate)
  /\ Interrupts(WatchdogFires(gate)) /\ Holds(WatchdogFires(gate))
  /\ OnlyGate

\* spawn_companion_watch, and a poll of /companion that came over TCP.
WatchdogTick ==
  /\ GateFree
  /\ gate' = Watchdog(gate)
  /\ Interrupts(WatchdogFires(gate)) /\ Holds(WatchdogFires(gate))
  /\ OnlyGate

\* companion_interrupt, and the header of a poll just before it is noted.
KeyboardReport ==
  /\ GateFree
  /\ gate' = SetKeyboardUnavailable(gate)
  /\ Interrupts(gate.phase = "running" \/ (gate.injecting /\ gate.keyboard))
  /\ UNCHANGED held
  /\ OnlyGate

Tick ==
  /\ gate' = [gate EXCEPT !.trustedAt = Aged(@), !.lastPoll = Aged(@)]
  /\ UNCHANGED history
  /\ OnlyGate

-----------------------------------------------------------------------------
(* Sessions open and close (api.rs open_session, close_session).           *)

OnlySessions == UNCHANGED << injection, replay, inj, ctl, stopping >>

OpenSession(s) ==
  /\ sessions[s] = "new"
  /\ sessions' = [sessions EXCEPT ![s] = "open"]
  /\ UNCHANGED << gate, history >> /\ OnlySessions

CloseRemove(s) ==
  /\ s \in Closable /\ sessions[s] = "open"
  /\ sessions' = [sessions EXCEPT ![s] = "removed"]
  /\ UNCHANGED << gate, history >> /\ OnlySessions

CloseNote(s) ==
  /\ sessions[s] = "removed" /\ GateFree
  /\ sessions' = [sessions EXCEPT ![s] = "noted"]
  /\ gate' = NoteSessionClosed(gate, s)
  /\ Interrupts(gate.session = s /\ ~gate.injecting)
  /\ UNCHANGED held /\ OnlySessions

\* The blocking task: both locks, taken and released here.
CloseFinish(s) ==
  /\ sessions[s] = "noted" /\ injection = NoOne /\ GateFree
  /\ sessions' = [sessions EXCEPT ![s] = "closed"]
  /\ gate' = FinishClosedSession(gate, s)
  /\ UNCHANGED history /\ OnlySessions

-----------------------------------------------------------------------------
(* AppState::shutdown.  The wait for the injection lock is bounded.        *)

GoStopping(from, to) == stopping = from /\ stopping' = to

StopCancel ==
  /\ MayShutdown /\ GateFree
  /\ GoStopping("up", "cancelled")
  /\ gate' = ShutdownCancel(gate)
  /\ held' = FALSE
  /\ Interrupts(TRUE)
  /\ UNCHANGED << sessions, injection, replay, inj, ctl >>

StopWait ==
  /\ GoStopping("cancelled", "waited")
  /\ \/ injection = NoOne /\ injection' = Shutdown
     \/ injection # NoOne /\ UNCHANGED injection   \* lock_for gave up
  /\ UNCHANGED << gate, sessions, replay, inj, ctl, history >>

StopClear ==
  /\ GoStopping("waited", "cleared")
  /\ sessions' = [s \in Sessions |-> IF sessions[s] = "open" THEN "cleared"
                                     ELSE sessions[s]]
  /\ UNCHANGED << gate, injection, replay, inj, ctl, history >>

StopReset ==
  /\ GateFree
  /\ GoStopping("cleared", "stopped")
  /\ gate' = Reset(gate)
  /\ held' = FALSE
  /\ injection' = IF injection = Shutdown THEN NoOne ELSE injection
  /\ UNCHANGED << sessions, replay, inj, ctl, interrupted, late >>

-----------------------------------------------------------------------------
InjectorStep(r) == Inject(r) \/ SendChunk(r)
ControlStep(c) == ControlLive(c) \/ ControlSelect(c) \/ ControlApply(c)
CloseStep(s) == CloseNote(s) \/ CloseFinish(s)
StoppingStep == StopWait \/ StopClear \/ StopReset

Next ==
  \/ \E r \in Injectors : \/ \E s \in Sessions, n \in 1..MaxChunks : Arrive(r, s, n)
                          \/ InjectorStep(r)
  \/ \E c \in Controllers : ControlArrive(c) \/ ControlStep(c)
  \/ CompanionPoll \/ WatchdogTick \/ KeyboardReport \/ Tick
  \/ \E s \in Sessions : OpenSession(s) \/ CloseRemove(s) \/ CloseStep(s)
  \/ StopCancel \/ StoppingStep

Spec == Init /\ [][Next]_vars

-----------------------------------------------------------------------------
(* Fairness.  Every request runs on a task or thread the runtime keeps     *)
(* scheduling, the watchdog is a loop with a bounded sleep, and time       *)
(* passes.  Nothing is assumed of clients, users or the companion.         *)

Scheduling ==
  /\ WF_vars(Tick) /\ WF_vars(WatchdogTick) /\ WF_vars(StoppingStep)
  /\ \A c \in Controllers : WF_vars(ControlStep(c))
  /\ \A s \in Sessions : WF_vars(CloseStep(s))

\* Every thread of an injection goes on, except inside a desktop call.
FairSpec == Spec /\ Scheduling /\ \A r \in Injectors : WF_vars(Inject(r))

\* The X server answers every desktop call.
DesktopAnswers == \A r \in Injectors : WF_vars(SendChunk(r))

-----------------------------------------------------------------------------
(* Properties.                                                             *)

\* Types of every variable.
TypeOK ==
  /\ gate \in Gates
  /\ sessions \in [Sessions -> SessionStates]
  /\ injection \in Injectors \cup {Shutdown, NoOne}
  /\ replay \in Replays
  /\ inj \in [Injectors -> Injections]
  /\ ctl \in [Controllers -> ControlRequests]
  /\ stopping \in StoppingStates
  /\ held \in BOOLEAN
  /\ interrupted \subseteq Injectors
  /\ late \in [Injectors -> Nat]

\* The word injection threads read without the lock is never behind the gate
\* it summarises, in any state those threads can run in (Gate::publish).
PublishedMatches ==
  gate.published = [epoch |-> gate.epoch, phase |-> gate.phase]

\* Once a pause landed (from anyone, or from the watchdog) the gate stays
\* paused until the companion lifts it or the daemon shuts down, whatever the
\* order in which queued controls, closes and injections unwind
\* (Gate::pause, replay_queued, clear_session; api.rs control_automation).
PauseHeld == held /\ GateFree => gate.phase = "paused"

\* A request that was under way when a pause, stop, close, keyboard loss or
\* shutdown landed moves the desktop at most once more: the chunk it had
\* already decided to send (api.rs injection_cancelled, Gate::begin_inject).
AtMostOneLateChunk == \A r \in Injectors : late[r] <= 1

\* A control is queued only while a call is in flight to replay it, so none
\* is stranded in the gate (Gate::defer, Gate::finish_inject, Gate::reset).
QueueOnlyInFlight ==
  /\ gate.deferred # << >> => gate.injecting
  /\ gate.injecting => \E r \in Armed : injection = r

\* The companion sees an unsettled sequence exactly while a desktop call is
\* out, even when shutdown reset the gate underneath it; its fallback checks
\* wait on that (Gate::begin_inject, finish_inject, reset).
SettledTracksFlight ==
  /\ gate.settledSeq <= gate.injectSeq
  /\ gate.settledSeq < gate.injectSeq <=> Armed # {}

\* The sample a poll returns was recorded in the stretch the gate is in and by
\* an injection that has begun; one from before a resume would read as the
\* user moving the pointer (Gate::enter_running, Gate::store).
DriveIsCurrent ==
  \A d \in gate.drive : /\ d.resumeSeq = gate.resumeSeq
                        /\ d.injectSeq <= gate.injectSeq

\* What a poll says of calls is true: queue, sequences and sample are those of
\* the call that is out and of the stretch the gate is in (Gate::begin_inject,
\* finish_inject, store, reset).
FlightsAreAccountedFor == SettledTracksFlight /\ DriveIsCurrent /\ QueueOnlyInFlight

\* After DELETE of a session returned, no mouse or type call puts the gate
\* back on it; only a start or resume that picked the session beforehand can
\* (Gate::note_session_closed, finish_closed_session; api.rs close_session).
ClosedSessionLosesGate ==
  \A s \in Sessions :
    sessions[s] = "closed" /\ gate.session = s =>
      \E c \in Controllers : ctl[c].session = s /\ ctl[c].pc = "done"

\* A call that was under way at a shutdown and outlived the reset does not
\* bring the phase back to running when it records its sample: its epoch or
\* its generation is old (Gate::accepts, shutdown_cancel, reset).
InterruptedRecordIsDropped ==
  [][\A r \in interrupted : Record(r) /\ gate.phase = "off" => gate'.phase = "off"]_vars

\* What is recorded of a call is of that call and of the stretch the gate is in,
\* also when a shutdown has reset the gate under it.
CallsAreAccountedFor == []FlightsAreAccountedFor /\ InterruptedRecordIsDropped

\* A control that arrived over TCP, whether applied at once or replayed when a
\* call unwinds, enters running only if a companion poll was inside the
\* window at that moment (Gate::apply, reentry_is_stale, reentry_admitted).  A
\* call enters without a new stretch (resumeSeq stays) and is not meant: it looks
\* at the window one lock before it begins, in StretchEnded.
TcpEntryIsFresh ==
  [][gate.phase # "running" /\ gate'.phase = "running"
       /\ gate'.resumeSeq # gate.resumeSeq =>
     \/ replay.active /\ (replay.fresh \/ Head(replay.rest).companion)
     \/ ~replay.active /\ PollFresh(gate)
     \/ \E c \in Controllers : /\ ctl[c].companion
                               /\ ctl[c].pc = "apply" /\ ctl'[c].pc = "done"]_vars

\* Requests past their look at the keyboard latch, from which they may enter running.
SawKeyboard == {r \in Injectors : inj[r].pc \notin {"idle", "capture", "keyboard", "done"}}
ControlsSawKeyboard == {c \in Controllers : ctl[c].pc \in {"live", "select", "apply"}}

\* Once the companion reported that it cannot see the keyboard, running is entered
\* only by what had looked at the latch before: a call (mouse, type_keys) past
\* api.rs:2196 or 2258, or a start or resume past api.rs:422.  Those do enter, for
\* the gate does not look again; but the report is never withdrawn, nobody joins
\* them, a queued control is none of them, and no poll, close or watchdog enters
\* for them.
LatchShutsOut ==
  [][~gate.keyboard =>
       /\ ~gate'.keyboard
       /\ SawKeyboard' \subseteq SawKeyboard
       /\ ControlsSawKeyboard' \subseteq ControlsSawKeyboard
       /\ gate.phase # "running" /\ gate'.phase = "running" =>
            /\ ~replay.active
            /\ \/ \E r \in SawKeyboard : inj'[r].pc # inj[r].pc
               \/ \E c \in ControlsSawKeyboard : ctl'[c].pc = "done"]_vars

\* A start or resume over TCP is judged by the poll that holds when it enters
\* running, a replayed one by the latch that holds then as well; any other request
\* by the latch that held when it looked (Gate::apply, apply_deferred; api.rs
\* keyboard_blocked).
ReentryIsJudged == TcpEntryIsFresh /\ LatchShutsOut

\* While running, trust that has run out is not renewed by a late poll, an
\* injection or a start: the stretch has to end first (Gate::note_poll,
\* begin_inject, enter_running).
ExpiredTrustIsFinal ==
  [][gate.phase = "running" /\ gate'.phase = "running" /\ GapExpired(gate)
       => gate'.trustedAt = gate.trustedAt]_vars

\* What was true only when a control was queued admits nothing into running: a
\* control over TCP needs a fresh poll and a replayed one the keyboard too; after
\* the report of its loss only a request that had looked before still gets in; and
\* running does not renew trust that ran out.
NothingStaleIsAdmitted == ReentryIsJudged /\ ExpiredTrustIsFinal

\* When the companion goes quiet a running phase ends (Gate::watchdog,
\* spawn_companion_watch).
ExpiredRunEnds ==
  (gate.phase = "running" /\ GapExpired(gate)) ~> gate.phase # "running"

\* A close that took the session out of the map finishes, if the calls it waits
\* for return (close_session waits for the injection lock).
CloseCompletes ==
  DesktopAnswers =>
    \A s \in Sessions : sessions[s] = "removed" ~> sessions[s] = "closed"

\* If calls return, every queued control is taken off the queue, by the unwind
\* or by shutdown (Gate::defer, end_inject).
ControlsAreReplayed ==
  DesktopAnswers => (gate.deferred # << >> ~> gate.deferred = << >> /\ GateFree)

\* Shutdown finishes even if a desktop call never returns (lock_for).
ShutdownCompletes == stopping = "cancelled" ~> stopping = "stopped"

\* Whoever waits for a call is served in the end: a close and a queued control
\* if calls return, a shutdown in any case.
WaitersAreServed == CloseCompletes /\ ControlsAreReplayed /\ ShutdownCompletes

\* What src/automation.rs:437 promises: losing the driving session ends a
\* running automation, so a closed session does not drive.
RunningSessionIsOpen ==
  \A s \in Sessions :
    gate.phase = "running" /\ gate.session = s => sessions[s] # "closed"
=============================================================================
