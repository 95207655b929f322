-------------------------------- MODULE Gate --------------------------------
(***************************************************************************)
(* The automation gate of the visor daemon (src/automation.rs, struct      *)
(* Gate) as a record and one operator per method.  Every method runs under *)
(* one mutex, so a method is a function from a gate to a gate; the modules *)
(* that EXTEND this one say who calls it and when.                         *)
(*                                                                         *)
(* Left out: the pointer, the coordinates of a drive, the notice and       *)
(* control_seq (a tag no code reads).  Counters are Nat: the code          *)
(* saturates or wraps them at 2^62 or above.  An Instant is the age it     *)
(* has now, in units of which the watchdog window is Timeout; an age that  *)
(* reached Timeout stays there, and Never is an instant not yet recorded.  *)
(*                                                                         *)
(* A definition named for what it gets wrong (StopSilent, WatchdogAsleep)  *)
(* is used by no module: it is the next definition with one fault, kept to *)
(* show that a property notices the fault.                                 *)
(***************************************************************************)
EXTENDS Integers, Sequences, SequencesExt

CONSTANTS Sessions,   \* the session ids
          NoSession,  \* Option::None for a session
          Timeout     \* companion_poll_timeout, in clock units

ASSUME GateAssumption ==
  /\ NoSession \notin Sessions
  /\ Timeout \in Nat \ {0}

Phases == {"off", "running", "paused"}
MaybeSession == Sessions \cup {NoSession}
Never == -1
Ages == {Never} \cup 0..Timeout

(***************************************************************************)
(* A queued control (enum Deferred).  Fields a kind does not carry hold    *)
(* NoSession, 0 or FALSE.  A drive is a set of at most one sample.         *)
(***************************************************************************)
Kinds == {"stop", "pause", "close", "keyboard", "start", "resume"}
Deferred == [kind : Kinds, session : MaybeSession, generation : Nat,
             companion : BOOLEAN]
Drives == [resumeSeq : Nat, injectSeq : Nat]

Entry(kind) == [kind |-> kind, session |-> NoSession, generation |-> 0,
                companion |-> FALSE]
CloseEntry(s, n) == [Entry("close") EXCEPT !.session = s, !.generation = n]
ReentryEntry(kind, s, companion) ==
  [Entry(kind) EXCEPT !.session = s, !.companion = companion]

Gates ==
  [session : MaybeSession, phase : Phases, drive : SUBSET Drives,
   generation : Nat, resumeSeq : Nat, injectSeq : Nat, settledSeq : Nat,
   injecting : BOOLEAN, deferred : Seq(Deferred), epoch : Nat,
   trustedAt : Ages, lastPoll : Ages, keyboard : BOOLEAN,
   published : [epoch : Nat, phase : Phases]]

InitialGate ==
  [session |-> NoSession, phase |-> "off", drive |-> {}, generation |-> 0,
   resumeSeq |-> 0, injectSeq |-> 0, settledSeq |-> 0, injecting |-> FALSE,
   deferred |-> << >>, epoch |-> 0, trustedAt |-> Never, lastPoll |-> Never,
   keyboard |-> TRUE, published |-> [epoch |-> 0, phase |-> "off"]]

-----------------------------------------------------------------------------
(* The clock.                                                              *)

Aged(age) == IF age \in 0..(Timeout - 1) THEN age + 1 ELSE age

PollFresh(g) == g.lastPoll # Never /\ g.lastPoll < Timeout

\* No trusted instant counts as expired: a TCP start must not invent one.
GapExpired(g) == g.trustedAt = Never \/ g.trustedAt >= Timeout

\* The first injection, with no trusted instant yet, is allowed.
StaleReentry(g) ==
  g.phase = "off" /\ g.trustedAt # Never /\ g.trustedAt >= Timeout

-----------------------------------------------------------------------------
(* The word injection threads read without the mutex.                      *)

Publish(g) == [g EXCEPT !.published = [epoch |-> g.epoch, phase |-> g.phase]]
Cancelled(captured, word) == word.epoch # captured \/ word.phase = "paused"

BumpEpoch(g) == [g EXCEPT !.epoch = @ + 1]
Defer(g, entry) == [g EXCEPT !.deferred = Append(@, entry)]

Reset(g) ==
  Publish([g EXCEPT !.session = NoSession, !.phase = "off", !.drive = {},
                    !.generation = @ + 1, !.injecting = FALSE,
                    !.deferred = << >>])

\* One grace window, only when the companion's own control enters running.
EnterRunning(g, s, grace) ==
  LET fresh == g.phase # "running"
  IN  Publish([g EXCEPT !.session = s, !.phase = "running", !.drive = {},
                        !.resumeSeq = @ + 1,
                        !.trustedAt = IF fresh /\ grace THEN 0 ELSE @])

-----------------------------------------------------------------------------
(* Interrupts.  While an injection is in flight they are queued as well.   *)

PauseNotQueued(g) == Publish([BumpEpoch(g) EXCEPT !.phase = "paused"])

Pause(g) ==
  LET paused == [BumpEpoch(g) EXCEPT !.phase = "paused"]
  IN  Publish(IF g.injecting THEN Defer(paused, Entry("pause")) ELSE paused)

StopSilent(g) ==
  IF g.injecting THEN Defer(BumpEpoch(g), Entry("stop")) ELSE Reset(BumpEpoch(g))

\* In flight, stop only cancels: the phase stays until the queue is replayed.
Stop(g) ==
  IF g.injecting
  THEN Publish(Defer(BumpEpoch(g), Entry("stop")))
  ELSE Reset(BumpEpoch(g))

ShutdownCancel(g) ==
  Publish(IF g.injecting THEN Defer(BumpEpoch(g), Entry("stop"))
                         ELSE BumpEpoch(g))

\* set_keyboard_interrupt(false).  Reporting TRUE changes nothing.
SetKeyboardUnavailable(g) ==
  LET latched   == [g EXCEPT !.keyboard = FALSE]
      cancelled == [BumpEpoch(latched) EXCEPT !.phase = "paused"]
  IN  CASE g.injecting /\ g.keyboard ->
             Publish(Defer(cancelled, Entry("keyboard")))
        [] g.injecting /\ ~g.keyboard /\ g.phase # "paused" ->
             Publish(cancelled)
        [] ~g.injecting /\ g.phase = "running" -> Pause(latched)
        [] OTHER -> latched

\* Whether note_poll or watchdog pauses a running phase at this instant.
WatchdogFires(g) == g.phase = "running" /\ GapExpired(g)

NotePoll(g) ==
  IF WatchdogFires(g) THEN Pause(g)
                      ELSE [g EXCEPT !.lastPoll = 0, !.trustedAt = 0]

WatchdogAsleep(g) == g

Watchdog(g) == IF WatchdogFires(g) THEN Pause(g) ELSE g

-----------------------------------------------------------------------------
(* The driving session goes away.                                          *)

\* A pause survives the loss of its session.
ClearSession(g, s) ==
  IF g.session # s THEN g
  ELSE IF g.phase = "paused"
       THEN Publish([g EXCEPT !.session = NoSession, !.drive = {},
                              !.generation = @ + 1])
       ELSE Reset(g)

NoteSessionClosed(g, s) ==
  IF g.session # s THEN g
  ELSE IF g.injecting THEN Defer(g, CloseEntry(s, g.generation))
  ELSE ClearSession(BumpEpoch(g), s)

FinishNothing(g, s) == g

FinishClosedSession(g, s) ==
  IF g.injecting
  THEN IF g.session = s THEN Defer(g, CloseEntry(s, g.generation)) ELSE g
  ELSE ClearSession(g, s)

-----------------------------------------------------------------------------
(* Replaying the queue.  fresh says whether the last companion poll was    *)
(* inside the window when the call unwound, not when the entry was queued. *)

ReentryAdmittedAsQueued(g, companion, fresh) == g.keyboard

ReentryAdmitted(g, companion, fresh) ==
  g.keyboard /\ (g.phase = "running" \/ companion \/ fresh)

ApplyDeferred(g, entry, fresh) ==
  CASE entry.kind = "stop" -> Reset(g)
    [] entry.kind = "pause" -> Publish([g EXCEPT !.phase = "paused"])
    [] entry.kind = "close" ->
         IF g.session = entry.session /\ g.generation = entry.generation
         THEN ClearSession(g, entry.session) ELSE g
    [] entry.kind = "keyboard" ->
         IF g.phase = "running"
         THEN Publish([g EXCEPT !.phase = "paused", !.keyboard = FALSE])
         ELSE [g EXCEPT !.keyboard = FALSE]
    [] entry.kind = "start" ->
         IF ReentryAdmitted(g, entry.companion, fresh)
         THEN EnterRunning(g, entry.session, entry.companion) ELSE g
    [] entry.kind = "resume" ->
         IF g.phase = "running" THEN g
         ELSE IF entry.session # NoSession
              THEN IF ReentryAdmitted(g, entry.companion, fresh)
                   THEN EnterRunning(g, entry.session, entry.companion) ELSE g
              ELSE IF g.phase = "paused" /\ g.keyboard THEN Reset(g) ELSE g

\* The scratch replay that decides whether a queued TCP control is stale.
PhaseAfterDeferred(g) ==
  FoldLeft(LAMBDA scratch, entry : ApplyDeferred(scratch, entry, PollFresh(g)),
           g, g.deferred).phase

-----------------------------------------------------------------------------
(* Controls (Gate::apply).                                                 *)

\* Leaving paused is the user-interrupt boundary.
LiftsUserPause(action, phase) ==
  phase = "paused" /\ action \in {"start", "resume", "stop"}

ReentryIsStale(g, companion) ==
  /\ ~companion
  /\ ~PollFresh(g)
  /\ (IF g.injecting THEN PhaseAfterDeferred(g) ELSE g.phase) # "running"

\* Not NeedsSession and not StalePoll.
Admits(g, action, s, companion) ==
  CASE action = "start" -> s # NoSession /\ ~ReentryIsStale(g, companion)
    [] action = "resume" ->
         \/ s = NoSession
         \/ ~g.injecting /\ g.phase # "paused"
         \/ ~ReentryIsStale(g, companion)

Apply(g, action, s, companion) ==
  CASE g.injecting -> Defer(g, ReentryEntry(action, s, companion))
    [] ~g.injecting /\ action = "start" -> EnterRunning(g, s, companion)
    [] ~g.injecting /\ action = "resume" ->
         IF g.phase # "paused" THEN g
         ELSE IF s = NoSession THEN Reset(g) ELSE EnterRunning(g, s, companion)

-----------------------------------------------------------------------------
(* An injection: one mouse or type call in flight.                         *)

MayBegin(g, captured) == g.epoch = captured /\ g.phase # "paused"

BeginInject(g, s) ==
  Publish([g EXCEPT
    !.injectSeq = @ + 1, !.injecting = TRUE, !.session = s,
    !.trustedAt = IF g.phase # "running" /\ @ = Never THEN 0 ELSE @,
    !.phase = "running"])

SettleKeepsQueue(g) ==
  [g EXCEPT !.injecting = FALSE,
            !.settledSeq = IF @ < g.injectSeq THEN g.injectSeq ELSE @]

\* end_inject up to replay_queued, which takes the queue out of the gate.
SettleInject(g) ==
  [g EXCEPT !.injecting = FALSE, !.deferred = << >>,
            !.settledSeq = IF @ < g.injectSeq THEN g.injectSeq ELSE @]

AcceptsAnyGeneration(g, generation) == g.phase # "paused"

Accepts(g, generation) == g.generation = generation /\ g.phase # "paused"

\* record_mouse and record_type once the sample is accepted.
StoreDrive(g, s) ==
  Publish([g EXCEPT
    !.session = s,
    !.trustedAt = IF g.phase # "running" /\ @ = Never THEN 0 ELSE @,
    !.phase = "running",
    !.drive = {[resumeSeq |-> g.resumeSeq, injectSeq |-> g.injectSeq]}])
=============================================================================
