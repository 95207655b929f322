----------------------------- MODULE GateProofs -----------------------------
(***************************************************************************)
(* What each method of the gate returns: a gate.                           *)
(***************************************************************************)
EXTENDS Gate, TLAPS

LEMMA PublishType == ASSUME NEW g \in Gates PROVE Publish(g) \in Gates
BY DEF Gates, Publish

LEMMA BumpEpochType == ASSUME NEW g \in Gates PROVE BumpEpoch(g) \in Gates
BY DEF Gates, BumpEpoch

LEMMA DeferType ==
  ASSUME NEW g \in Gates, NEW e \in Deferred PROVE Defer(g, e) \in Gates
<1>1. Append(g.deferred, e) \in Seq(Deferred)
  BY DEF Gates
<1>2. QED
  BY <1>1 DEF Gates, Defer

LEMMA EntryType ==
  /\ \A kind \in Kinds : Entry(kind) \in Deferred
  /\ \A s \in MaybeSession, n \in Nat : CloseEntry(s, n) \in Deferred
  /\ \A kind \in Kinds, s \in MaybeSession, companion \in BOOLEAN :
       ReentryEntry(kind, s, companion) \in Deferred
BY DEF Entry, CloseEntry, ReentryEntry, Deferred, Kinds, MaybeSession

LEMMA FieldTypes ==
  /\ NoSession \in MaybeSession
  /\ "off" \in Phases /\ "running" \in Phases /\ "paused" \in Phases
  /\ << >> \in Seq(Deferred)
  /\ {} \in SUBSET Drives
  /\ 0 \in Ages /\ Never \in Ages
BY GateAssumption DEF MaybeSession, Phases, Ages

LEMMA GateFields ==
  ASSUME NEW g \in Gates
  PROVE  /\ g.session \in MaybeSession /\ g.phase \in Phases
         /\ g.drive \in SUBSET Drives /\ g.generation \in Nat
         /\ g.resumeSeq \in Nat /\ g.injectSeq \in Nat /\ g.settledSeq \in Nat
         /\ g.injecting \in BOOLEAN /\ g.deferred \in Seq(Deferred)
         /\ g.epoch \in Nat /\ g.trustedAt \in Ages /\ g.lastPoll \in Ages
         /\ g.keyboard \in BOOLEAN
BY DEF Gates

LEMMA ResetType == ASSUME NEW g \in Gates PROVE Reset(g) \in Gates
<1>1. PICK n \in Nat : n = g.generation + 1
  BY GateFields
<1>2. PICK q \in Seq(Deferred) : q = << >>
  BY FieldTypes
<1>3. PICK d \in SUBSET Drives : d = {}
  BY FieldTypes
<1>4. [g EXCEPT !.session = NoSession, !.phase = "off", !.drive = d,
               !.generation = n, !.injecting = FALSE, !.deferred = q] \in Gates
  BY FieldTypes DEF Gates
<1>5. QED
  BY <1>1, <1>2, <1>3, <1>4, PublishType DEF Reset

LEMMA EnterRunningType ==
  ASSUME NEW g \in Gates, NEW s \in MaybeSession, NEW grace \in BOOLEAN
  PROVE  EnterRunning(g, s, grace) \in Gates
<1>1. PICK n \in Nat : n = g.resumeSeq + 1
  BY GateFields
<1>2. PICK t \in Ages : t = IF g.phase # "running" /\ grace THEN 0 ELSE g.trustedAt
  BY GateFields, FieldTypes
<1>3. PICK d \in SUBSET Drives : d = {}
  BY FieldTypes
<1>4. [g EXCEPT !.session = s, !.phase = "running", !.drive = d,
               !.resumeSeq = n, !.trustedAt = t] \in Gates
  BY FieldTypes DEF Gates
<1>5. QED
  BY <1>1, <1>2, <1>3, <1>4, PublishType DEF EnterRunning

LEMMA PauseType == ASSUME NEW g \in Gates PROVE Pause(g) \in Gates
<1> DEFINE h == [BumpEpoch(g) EXCEPT !.phase = "paused"]
<1>1. h \in Gates
  BY BumpEpochType, FieldTypes DEF Gates
<1>2. Defer(h, Entry("pause")) \in Gates
  BY <1>1, DeferType, EntryType DEF Kinds
<1>3. QED
  BY <1>1, <1>2, PublishType DEF Pause

LEMMA StopType ==
  ASSUME NEW g \in Gates
  PROVE  Stop(g) \in Gates /\ ShutdownCancel(g) \in Gates
<1>1. BumpEpoch(g) \in Gates
  BY BumpEpochType
<1>2. Defer(BumpEpoch(g), Entry("stop")) \in Gates
  BY <1>1, DeferType, EntryType DEF Kinds
<1>3. QED
  BY <1>1, <1>2, PublishType, ResetType DEF Stop, ShutdownCancel

LEMMA SetKeyboardUnavailableType ==
  ASSUME NEW g \in Gates PROVE SetKeyboardUnavailable(g) \in Gates
<1> DEFINE latched == [g EXCEPT !.keyboard = FALSE]
           cancelled == [BumpEpoch(latched) EXCEPT !.phase = "paused"]
<1>1. latched \in Gates
  BY DEF Gates
<1>2. BumpEpoch(latched) \in Gates
  BY <1>1, BumpEpochType
<1>. HIDE DEF latched
<1>3. cancelled \in Gates
  BY <1>2, FieldTypes DEF Gates
<1>. HIDE DEF cancelled
<1>4. Defer(cancelled, Entry("keyboard")) \in Gates
  BY <1>3, DeferType, EntryType DEF Kinds
<1>5. /\ Publish(cancelled) \in Gates /\ Pause(latched) \in Gates
      /\ Publish(Defer(cancelled, Entry("keyboard"))) \in Gates
  BY <1>1, <1>3, <1>4, PublishType, PauseType
<1>6. g.injecting \in BOOLEAN /\ g.keyboard \in BOOLEAN
  BY GateFields
<1>7. SetKeyboardUnavailable(g) \in
        {latched, Publish(cancelled), Pause(latched),
         Publish(Defer(cancelled, Entry("keyboard")))}
  BY <1>6 DEF SetKeyboardUnavailable, latched, cancelled
<1>8. QED
  BY <1>1, <1>5, <1>7

LEMMA PollType ==
  ASSUME NEW g \in Gates PROVE NotePoll(g) \in Gates /\ Watchdog(g) \in Gates
<1>1. [g EXCEPT !.lastPoll = 0, !.trustedAt = 0] \in Gates
  BY FieldTypes DEF Gates
<1>2. QED
  BY <1>1, PauseType DEF NotePoll, Watchdog

LEMMA AgedType ==
  ASSUME NEW g \in Gates
  PROVE  [g EXCEPT !.trustedAt = Aged(@), !.lastPoll = Aged(@)] \in Gates
<1>1. \A age \in Ages : Aged(age) \in Ages
  BY GateAssumption DEF Ages, Aged, Never
<1>2. PICK t \in Ages, p \in Ages : t = Aged(g.trustedAt) /\ p = Aged(g.lastPoll)
  BY <1>1, GateFields
<1>3. [g EXCEPT !.trustedAt = t, !.lastPoll = p] \in Gates
  BY DEF Gates
<1>4. QED
  BY <1>2, <1>3

LEMMA ClearSessionType ==
  ASSUME NEW g \in Gates, NEW s PROVE ClearSession(g, s) \in Gates
<1>1. PICK n \in Nat : n = g.generation + 1
  BY GateFields
<1>2. PICK d \in SUBSET Drives : d = {}
  BY FieldTypes
<1>3. [g EXCEPT !.session = NoSession, !.drive = d, !.generation = n] \in Gates
  BY FieldTypes DEF Gates
<1>4. QED
  BY <1>1, <1>2, <1>3, PublishType, ResetType DEF ClearSession

LEMMA CloseType ==
  ASSUME NEW g \in Gates, NEW s \in Sessions
  PROVE  NoteSessionClosed(g, s) \in Gates /\ FinishClosedSession(g, s) \in Gates
<1>1. CloseEntry(s, g.generation) \in Deferred
  BY EntryType, GateFields DEF MaybeSession
<1>2. Defer(g, CloseEntry(s, g.generation)) \in Gates
  BY <1>1, DeferType
<1>3. QED
  BY <1>2, BumpEpochType, ClearSessionType DEF NoteSessionClosed, FinishClosedSession

LEMMA ApplyDeferredType ==
  ASSUME NEW g \in Gates, NEW e \in Deferred, NEW fresh \in BOOLEAN
  PROVE  ApplyDeferred(g, e, fresh) \in Gates
<1>1. /\ e.kind \in Kinds /\ e.session \in MaybeSession /\ e.companion \in BOOLEAN
  BY DEF Deferred
<1>2. /\ [g EXCEPT !.phase = "paused"] \in Gates
      /\ [g EXCEPT !.phase = "paused", !.keyboard = FALSE] \in Gates
      /\ [g EXCEPT !.keyboard = FALSE] \in Gates
  BY FieldTypes DEF Gates
<1>3. /\ Publish([g EXCEPT !.phase = "paused"]) \in Gates
      /\ Publish([g EXCEPT !.phase = "paused", !.keyboard = FALSE]) \in Gates
      /\ EnterRunning(g, e.session, e.companion) \in Gates
      /\ ClearSession(g, e.session) \in Gates
      /\ Reset(g) \in Gates
  BY <1>1, <1>2, PublishType, EnterRunningType, ClearSessionType, ResetType
<1>4. CASE e.kind \in {"stop", "pause", "close"}
  BY <1>3, <1>4 DEF ApplyDeferred
<1>5. CASE e.kind = "keyboard"
  BY <1>2, <1>3, <1>5 DEF ApplyDeferred
<1>6. CASE e.kind \in {"start", "resume"}
  BY <1>3, <1>6 DEF ApplyDeferred
<1>7. QED
  BY <1>1, <1>4, <1>5, <1>6 DEF Kinds

LEMMA ApplyType ==
  ASSUME NEW g \in Gates, NEW action \in {"start", "resume"},
         NEW s \in MaybeSession, NEW companion \in BOOLEAN
  PROVE  Apply(g, action, s, companion) \in Gates
<1>1. ReentryEntry(action, s, companion) \in Deferred
  BY EntryType DEF Kinds
<1>2. Defer(g, ReentryEntry(action, s, companion)) \in Gates
  BY <1>1, DeferType
<1>3. g.injecting \in BOOLEAN
  BY GateFields
<1>4. QED
  BY <1>2, <1>3, EnterRunningType, ResetType DEF Apply

LEMMA InjectionType ==
  ASSUME NEW g \in Gates, NEW s \in MaybeSession
  PROVE  /\ BeginInject(g, s) \in Gates /\ SettleInject(g) \in Gates
         /\ StoreDrive(g, s) \in Gates
<1>1. PICK n \in Nat : n = g.injectSeq + 1
  BY GateFields
<1>2. PICK t \in Ages :
        t = IF g.phase # "running" /\ g.trustedAt = Never THEN 0 ELSE g.trustedAt
  BY GateFields, FieldTypes
<1>3. PICK q \in Seq(Deferred) : q = << >>
  BY FieldTypes
<1>4. PICK m \in Nat :
        m = IF g.settledSeq < g.injectSeq THEN g.injectSeq ELSE g.settledSeq
  BY GateFields
<1> DEFINE sample == [resumeSeq |-> g.resumeSeq, injectSeq |-> g.injectSeq]
<1>5. PICK d \in SUBSET Drives : d = {sample}
  <2>1. sample \in Drives
    BY GateFields DEF Drives
  <2>2. {sample} \in SUBSET Drives
    BY <2>1, Zenon
  <2>3. QED
    BY <2>2, Zenon
<1>6. BeginInject(g, s) \in Gates
  <2>1. [g EXCEPT !.injectSeq = n, !.injecting = TRUE, !.session = s,
                 !.trustedAt = t, !.phase = "running"] \in Gates
    BY FieldTypes DEF Gates
  <2>2. QED
    BY <1>1, <1>2, <2>1, PublishType DEF BeginInject
<1>7. SettleInject(g) \in Gates
  <2>1. [g EXCEPT !.injecting = FALSE, !.deferred = q, !.settledSeq = m] \in Gates
    BY DEF Gates
  <2>2. QED
    BY <1>3, <1>4, <2>1 DEF SettleInject
<1>8. StoreDrive(g, s) \in Gates
  <2>1. [g EXCEPT !.session = s, !.trustedAt = t, !.phase = "running",
                 !.drive = d] \in Gates
    BY FieldTypes DEF Gates
  <2>2. QED
    BY <1>2, <1>5, <2>1, PublishType DEF StoreDrive
<1>9. QED
  BY <1>6, <1>7, <1>8

-----------------------------------------------------------------------------
(***************************************************************************)
(* What each method does to the fields the invariants speak of: the phase, *)
(* the epoch, the word that publishes both, and the queue.                 *)
(***************************************************************************)
Matches(g) == g.published = [epoch |-> g.epoch, phase |-> g.phase]

LEMMA PublishEffect ==
  ASSUME NEW g \in Gates
  PROVE  /\ Publish(g).phase = g.phase /\ Publish(g).epoch = g.epoch
         /\ Publish(g).injecting = g.injecting /\ Publish(g).deferred = g.deferred
         /\ Matches(Publish(g))
BY DEF Gates, Publish, Matches

LEMMA DeferEffect ==
  ASSUME NEW g \in Gates, NEW e
  PROVE  /\ Defer(g, e).phase = g.phase /\ Defer(g, e).epoch = g.epoch
         /\ Defer(g, e).injecting = g.injecting
         /\ Defer(g, e).deferred = Append(g.deferred, e)
         /\ Matches(g) => Matches(Defer(g, e))
BY DEF Gates, Defer, Matches

LEMMA ResetEffect ==
  ASSUME NEW g \in Gates
  PROVE  /\ Reset(g).phase = "off" /\ Reset(g).epoch = g.epoch
         /\ Reset(g).injecting = FALSE /\ Reset(g).deferred = << >>
         /\ Matches(Reset(g))
BY DEF Gates, Reset, Publish, Matches

LEMMA EnterRunningEffect ==
  ASSUME NEW g \in Gates, NEW s, NEW grace
  PROVE  /\ EnterRunning(g, s, grace).epoch = g.epoch
         /\ EnterRunning(g, s, grace).injecting = g.injecting
         /\ EnterRunning(g, s, grace).deferred = g.deferred
         /\ Matches(EnterRunning(g, s, grace))
BY DEF Gates, EnterRunning, Publish, Matches

LEMMA PauseEffect ==
  ASSUME NEW g \in Gates
  PROVE  /\ Pause(g).phase = "paused" /\ Pause(g).epoch = g.epoch + 1
         /\ Pause(g).injecting = g.injecting
         /\ Pause(g).deferred = IF g.injecting
                                THEN Append(g.deferred, Entry("pause"))
                                ELSE g.deferred
         /\ Matches(Pause(g))
BY DEF Gates, Pause, BumpEpoch, Defer, Publish, Matches

LEMMA StopEffect ==
  ASSUME NEW g \in Gates
  PROVE  /\ Stop(g).epoch = g.epoch + 1 /\ ShutdownCancel(g).epoch = g.epoch + 1
         /\ Stop(g).injecting = g.injecting
         /\ ShutdownCancel(g).injecting = g.injecting
         /\ ~g.injecting => /\ Stop(g).deferred = << >>
                            /\ ShutdownCancel(g).deferred = g.deferred
         /\ Matches(Stop(g)) /\ Matches(ShutdownCancel(g))
BY DEF Gates, Stop, ShutdownCancel, Reset, BumpEpoch, Defer, Publish, Matches

LEMMA SetKeyboardUnavailableEffect ==
  ASSUME NEW g \in Gates
  PROVE  LET h == SetKeyboardUnavailable(g)
         IN  /\ g.phase = "paused" => h.phase = "paused"
             /\ h.epoch \in {g.epoch, g.epoch + 1}
             /\ g.phase = "running" \/ (g.injecting /\ g.keyboard)
                  => h.epoch = g.epoch + 1
             /\ h.injecting = g.injecting
             /\ h.deferred \in {g.deferred, Append(g.deferred, Entry("keyboard"))}
             /\ ~g.injecting => h.deferred = g.deferred
             /\ Matches(g) => Matches(h)
<1>1. CASE g.injecting /\ g.keyboard
  BY <1>1 DEF Gates, SetKeyboardUnavailable, Pause, BumpEpoch, Defer, Publish, Matches
<1>2. CASE g.injecting /\ ~g.keyboard
  BY <1>2 DEF Gates, SetKeyboardUnavailable, Pause, BumpEpoch, Defer, Publish, Matches
<1>3. CASE ~g.injecting
  BY <1>3 DEF Gates, SetKeyboardUnavailable, Pause, BumpEpoch, Defer, Publish, Matches
<1>4. QED
  BY <1>1, <1>2, <1>3

LEMMA PollEffect ==
  ASSUME NEW g \in Gates, ~WatchdogFires(g)
  PROVE  /\ Watchdog(g) = g
         /\ NotePoll(g).phase = g.phase /\ NotePoll(g).epoch = g.epoch
         /\ NotePoll(g).injecting = g.injecting
         /\ NotePoll(g).deferred = g.deferred
         /\ NotePoll(g).published = g.published
BY DEF Gates, NotePoll, Watchdog

LEMMA ClearSessionEffect ==
  ASSUME NEW g \in Gates, NEW s
  PROVE  /\ g.phase = "paused" => ClearSession(g, s).phase = "paused"
         /\ ClearSession(g, s).epoch = g.epoch
         /\ ~g.injecting => ~ClearSession(g, s).injecting
         /\ g.deferred = << >> => ClearSession(g, s).deferred = << >>
         /\ Matches(g) => Matches(ClearSession(g, s))
BY DEF Gates, ClearSession, Reset, Publish, Matches

LEMMA NoteSessionClosedEffect ==
  ASSUME NEW g \in Gates, NEW s \in Sessions,
         NEW h, h = NoteSessionClosed(g, s)
  PROVE  /\ g.phase = "paused" => h.phase = "paused"
         /\ h.epoch >= g.epoch
         /\ g.session = s /\ ~g.injecting => h.epoch = g.epoch + 1
         /\ h.injecting = g.injecting
         /\ g.injecting => h.deferred \in
               {g.deferred, Append(g.deferred, CloseEntry(s, g.generation))}
         /\ ~g.injecting /\ g.deferred = << >> => h.deferred = << >>
         /\ Matches(g) => Matches(h)
<1>1. CASE g.session # s
  BY <1>1, GateFields DEF NoteSessionClosed
<1>2. CASE g.session = s /\ g.injecting
  <2>1. h = Defer(g, CloseEntry(s, g.generation))
    BY <1>2 DEF NoteSessionClosed
  <2>2. h.epoch >= g.epoch /\ h.injecting = g.injecting
    BY <2>1, GateFields, DeferEffect
  <2>3. /\ g.phase = "paused" => h.phase = "paused"
        /\ Matches(g) => Matches(h)
    BY <2>1, DeferEffect
  <2>4. h.deferred = Append(g.deferred, CloseEntry(s, g.generation))
    BY <2>1, DeferEffect
  <2>5. QED
    BY <1>2, <2>2, <2>3, <2>4
<1>3. CASE g.session = s /\ ~g.injecting
  <2>1. /\ BumpEpoch(g) \in Gates /\ BumpEpoch(g).epoch = g.epoch + 1
        /\ BumpEpoch(g).phase = g.phase /\ BumpEpoch(g).injecting = FALSE
        /\ BumpEpoch(g).session = s /\ BumpEpoch(g).deferred = g.deferred
    BY <1>3, BumpEpochType DEF BumpEpoch, Gates
  <2>2. Matches(ClearSession(BumpEpoch(g), s))
    BY <2>1 DEF ClearSession, Reset, Publish, Matches, Gates
  <2>3. ClearSession(BumpEpoch(g), s).injecting = FALSE
    BY <2>1 DEF ClearSession, Reset, Publish, Gates
  <2>4. h = ClearSession(BumpEpoch(g), s)
    BY <1>3 DEF NoteSessionClosed
  <2>5. /\ ClearSession(BumpEpoch(g), s).epoch = g.epoch + 1
        /\ g.phase = "paused" => ClearSession(BumpEpoch(g), s).phase = "paused"
        /\ g.deferred = << >> => ClearSession(BumpEpoch(g), s).deferred = << >>
    BY <2>1, ClearSessionEffect
  <2>6. h.epoch = g.epoch + 1 /\ h.epoch >= g.epoch
    BY <2>4, <2>5, GateFields
  <2>7. h.injecting = g.injecting
    BY <1>3, <2>3, <2>4, GateFields
  <2>8. QED
    BY <1>3, <2>2, <2>4, <2>5, <2>6, <2>7
<1>4. QED
  BY <1>1, <1>2, <1>3

LEMMA FinishClosedSessionEffect ==
  ASSUME NEW g \in Gates, NEW s \in Sessions,
         NEW h, h = FinishClosedSession(g, s)
  PROVE  /\ g.phase = "paused" => h.phase = "paused"
         /\ h.epoch = g.epoch
         /\ h.injecting = g.injecting
         /\ g.injecting => h.deferred \in
               {g.deferred, Append(g.deferred, CloseEntry(s, g.generation))}
         /\ ~g.injecting /\ g.deferred = << >> => h.deferred = << >>
         /\ Matches(g) => Matches(h)
<1>1. CASE g.injecting
  BY <1>1 DEF FinishClosedSession, Gates, Defer, Matches
<1>2. CASE ~g.injecting
  <2>1. ClearSession(g, s).injecting = FALSE
    BY <1>2 DEF ClearSession, Reset, Publish, Gates
  <2>2. QED
    BY <1>2, <2>1, ClearSessionEffect DEF FinishClosedSession, Gates
<1>3. QED
  BY <1>1, <1>2

\* Replaying one entry queues nothing and moves no epoch; a close or a keyboard
\* loss leaves a pause alone.
LEMMA ApplyDeferredEffect ==
  ASSUME NEW g \in Gates, NEW e \in Deferred, NEW fresh \in BOOLEAN,
         g.injecting = FALSE, g.deferred = << >>,
         NEW h, h = ApplyDeferred(g, e, fresh)
  PROVE  /\ h.epoch = g.epoch /\ h.injecting = FALSE /\ h.deferred = << >>
         /\ e.kind \in {"close", "keyboard"} /\ g.phase = "paused"
              => h.phase = "paused"
         /\ Matches(g) => Matches(h)
<1>1. e.kind \in Kinds
  BY DEF Deferred
<1>2. CASE e.kind \in {"stop", "pause"}
  BY <1>2, ResetEffect DEF ApplyDeferred, Publish, Gates, Matches
<1>3. CASE e.kind = "close"
  BY <1>3, ClearSessionEffect DEF ApplyDeferred, Gates
<1>4. CASE e.kind = "keyboard"
  BY <1>4 DEF ApplyDeferred, Publish, Gates, Matches
<1>5. CASE e.kind \in {"start", "resume"}
  <2>1. h \in {g, Reset(g), EnterRunning(g, e.session, e.companion)}
    BY <1>5 DEF ApplyDeferred
  <2>2. e.kind \notin {"close", "keyboard"}
    BY <1>5
  <2>3. CASE h = g
    BY <2>2, <2>3
  <2>4. CASE h = Reset(g)
    BY <2>2, <2>4, ResetEffect
  <2>5. CASE h = EnterRunning(g, e.session, e.companion)
    BY <2>2, <2>5, EnterRunningEffect
  <2>6. QED
    BY <2>1, <2>3, <2>4, <2>5
<1>6. QED
  BY <1>1, <1>2, <1>3, <1>4, <1>5 DEF Kinds

LEMMA ApplyDeferredEpoch ==
  ASSUME NEW g \in Gates, NEW e \in Deferred, NEW fresh \in BOOLEAN,
         g.injecting = FALSE, g.deferred = << >>
  PROVE  ApplyDeferred(g, e, fresh).epoch = g.epoch
<1>1. PICK h : h = ApplyDeferred(g, e, fresh)
  OBVIOUS
<1>2. h.epoch = g.epoch
  BY <1>1, ApplyDeferredEffect
<1>3. QED
  BY <1>1, <1>2

LEMMA ApplyEffect ==
  ASSUME NEW g \in Gates, NEW action \in {"start", "resume"},
         NEW s \in MaybeSession, NEW companion \in BOOLEAN,
         NEW h, h = Apply(g, action, s, companion)
  PROVE  /\ h.epoch = g.epoch /\ h.injecting = g.injecting
         /\ ~g.injecting /\ g.deferred = << >> => h.deferred = << >>
         /\ Matches(g) => Matches(h)
<1>1. CASE g.injecting
  BY <1>1 DEF Apply, Defer, Gates, Matches
<1>2. CASE ~g.injecting
  <2>1. h \in {g, Reset(g), EnterRunning(g, s, companion)}
    BY <1>2 DEF Apply
  <2>2. g.injecting = FALSE
    BY <1>2, GateFields
  <2>3. CASE h = g
    BY <2>3
  <2>4. CASE h = Reset(g)
    BY <2>2, <2>4, ResetEffect
  <2>5. CASE h = EnterRunning(g, s, companion)
    BY <2>2, <2>5, EnterRunningEffect
  <2>6. QED
    BY <2>1, <2>3, <2>4, <2>5
<1>3. QED
  BY <1>1, <1>2

LEMMA BeginInjectEffect ==
  ASSUME NEW g \in Gates, NEW s
  PROVE  /\ BeginInject(g, s).epoch = g.epoch /\ BeginInject(g, s).injecting = TRUE
         /\ Matches(BeginInject(g, s))
BY DEF Gates, BeginInject, Publish, Matches

LEMMA SettleInjectEffect ==
  ASSUME NEW g \in Gates
  PROVE  /\ SettleInject(g).epoch = g.epoch /\ SettleInject(g).phase = g.phase
         /\ SettleInject(g).injecting = FALSE /\ SettleInject(g).deferred = << >>
         /\ SettleInject(g).published = g.published
BY DEF Gates, SettleInject

LEMMA StoreDriveEffect ==
  ASSUME NEW g \in Gates, NEW s
  PROVE  /\ StoreDrive(g, s).epoch = g.epoch
         /\ StoreDrive(g, s).injecting = g.injecting
         /\ StoreDrive(g, s).deferred = g.deferred
         /\ Matches(StoreDrive(g, s))
BY DEF Gates, StoreDrive, Publish, Matches
=============================================================================
