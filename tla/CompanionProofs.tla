--------------------------- MODULE CompanionProofs ---------------------------
(***************************************************************************)
(* The user is obeyed: the inductive invariant that follows a pause from   *)
(* the frame that decides on it to the visor that handles it, and the      *)
(* theorems of module Companion, for every value of its constants.         *)
(***************************************************************************)
EXTENDS Companion, GateProofs, FiniteSetTheorems, SequenceTheorems

-----------------------------------------------------------------------------
(* The invariant.                                                          *)

\* A batch is what the poller still has to post.
PollerHolds == poller.pc \in {"post", "posted"} <=> poller.batch # << >>

\* What is pending when a frame settles is a pause for a visor that restarted.
FrameHolds ==
  /\ pending \in {<< >>, << "pause" >>}
  /\ frame.pc = "begin" => pending = << >>
  /\ frame.pc = "settle" /\ pending # << >> =>
       frame.snap.connected /\ frame.restarted /\ machine.phase = "paused"

\* A post that was handled is not the pause that is owed: there is another.
PostedIsPaid ==
  poller.pc = "posted" /\ owed =>
    Tail(poller.batch) # << >> \/ queue # << >> \/ pending # << >>

\* A pause that is owed was judged by the newest report, and no resume is in flight.
Marked(m) ==
  /\ ~m.holding
  /\ m.phase = "paused" => m.mark >= m.lastSeq
PauseIsMarked == owed => Marked(machine)

SpentTyped == spent \in [DOMAIN Bounds -> Nat]

Inv ==
  /\ UserHasTheLastWord /\ SpentTyped
  /\ PollerHolds /\ FrameHolds /\ PostedIsPaid /\ PauseIsMarked

-----------------------------------------------------------------------------
(* Sequences of posts.                                                     *)

Ends(s) == s # << >> /\ Last(s) = "pause"

\* Where the last of three sequences ends.
EndsIn(b, q, p) ==
  \/ Ends(p)
  \/ p = << >> /\ Ends(q)
  \/ p = << >> /\ q = << >> /\ Ends(b)

LEMMA EndOfTwo ==
  ASSUME NEW s \in Seq(Posts), NEW t \in Seq(Posts)
  PROVE  /\ s \o t \in Seq(Posts)
         /\ s \o t = << >> <=> s = << >> /\ t = << >>
         /\ Ends(s \o t) <=> Ends(t) \/ (t = << >> /\ Ends(s))
BY DEF Ends, Last

LEMMA EndOfThree ==
  ASSUME NEW b \in Seq(Posts), NEW q \in Seq(Posts), NEW p \in Seq(Posts)
  PROVE  Ends(b \o q \o p) <=> EndsIn(b, q, p)
<1>1. Ends((b \o q) \o p) <=> Ends(p) \/ (p = << >> /\ Ends(b \o q))
  BY EndOfTwo
<1>2. Ends(b \o q) <=> Ends(q) \/ (q = << >> /\ Ends(b))
  BY EndOfTwo
<1>3. QED
  BY <1>1, <1>2 DEF EndsIn

LEMMA EndOfTail ==
  ASSUME NEW s \in Seq(Posts), s # << >>
  PROVE  /\ Tail(s) \in Seq(Posts)
         /\ Tail(s) # << >> => (Ends(Tail(s)) <=> Ends(s))
         /\ Tail(s) = << >> => (Ends(s) <=> Head(s) = "pause")
         /\ Head(s) \in Posts
         /\ Tail(s) = << >> => Len(s) = 1 /\ s[1] = Head(s)
<1>1. /\ Len(s) \in Nat \ {0} /\ Head(s) = s[1] /\ s[1] \in Posts
      /\ Tail(s) \in Seq(Posts) /\ Len(Tail(s)) = Len(s) - 1
      /\ \A i \in 1..(Len(s) - 1) : Tail(s)[i] = s[i + 1]
  OBVIOUS
<1>2. ASSUME Tail(s) # << >> PROVE Ends(Tail(s)) <=> Ends(s)
  <2>1. Len(Tail(s)) # 0
    BY <1>1, <1>2
  <2>2. Tail(s)[Len(Tail(s))] = s[Len(s)]
    BY <1>1, <2>1
  <2>3. QED
    BY <1>2, <2>2 DEF Ends, Last
<1>3. ASSUME Tail(s) = << >> PROVE Ends(s) <=> Head(s) = "pause"
  <2>1. Len(s) = 1
    BY <1>1, <1>3
  <2>2. QED
    BY <1>1, <2>1 DEF Ends, Last
<1>4. Tail(s) = << >> => Len(s) = 1
  BY <1>1
<1>5. QED
  BY <1>1, <1>2, <1>3, <1>4

LEMMA SinglePosts ==
  /\ << >> \in Seq(Posts) /\ << "pause" >> \in Seq(Posts) /\ << "resume" >> \in Seq(Posts)
  /\ Ends(<< "pause" >>) /\ ~Ends(<< >>) /\ ~Ends(<< "resume" >>)
  /\ << "pause" >> # << >> /\ << "resume" >> # << >> /\ << "pause" >> # << "resume" >>
  /\ "resume" \notin ToSet(<< >>) /\ "resume" \notin ToSet(<< "pause" >>)
BY DEF Ends, Last, Posts, ToSet

\* What is said of a resume in a sequence put together of two.
LEMMA NoResumeInTwo ==
  ASSUME NEW s \in Seq(Posts), NEW t \in Seq(Posts),
         "resume" \notin ToSet(s), "resume" \notin ToSet(t)
  PROVE  "resume" \notin ToSet(s \o t)
BY DEF ToSet

\* WithoutResume keeps a pause at the end where it is.
LEMMA WithoutResumeFacts ==
  ASSUME NEW s \in Seq(Posts)
  PROVE  /\ WithoutResume(s) \in Seq(Posts)
         /\ "resume" \notin ToSet(WithoutResume(s))
         /\ Ends(s) => Ends(WithoutResume(s))
         /\ s = << >> => WithoutResume(s) = << >>
<1> DEFINE K == {i \in DOMAIN s : s[i] # "resume"}
           n == Cardinality(K)
<1>1. IsFiniteSet(1..Len(s)) /\ DOMAIN s = 1..Len(s) /\ Len(s) \in Nat
  BY FS_Interval
<1>2. IsFiniteSet(K)
  BY <1>1, FS_Subset
<1>3. n \in Nat
  BY <1>2, FS_CardinalityType
<1>4. WithoutResume(s) = [i \in 1..n |-> "pause"]
  BY DEF WithoutResume
<1>5. K # {} => n # 0
  BY <1>2, FS_EmptySet
<1>6. Ends(s) => K # {}
  <2>1. ASSUME Ends(s) PROVE Len(s) \in DOMAIN s /\ s[Len(s)] # "resume"
    BY <2>1 DEF Ends, Last
  <2>2. QED
    BY <2>1
<1>7. K = {} => n = 0
  BY FS_EmptySet
<1>8. s = << >> => K = {}
  OBVIOUS
<1> HIDE DEF K, n
<1>9. PICK w : w = [i \in 1..n |-> "pause"]
  OBVIOUS
<1>10. w \in Seq(Posts) /\ Len(w) = n /\ DOMAIN w = 1..n
  BY <1>3, <1>9 DEF Posts
<1>11. \A i \in 1..n : w[i] = "pause"
  BY <1>9
<1>12. "resume" \notin ToSet(w)
  BY <1>10, <1>11 DEF ToSet
<1>13. n # 0 => Ends(w)
  BY <1>3, <1>10, <1>11 DEF Ends, Last
<1>14. n = 0 => w = << >>
  BY <1>10
<1>15. QED
  BY <1>4, <1>5, <1>6, <1>7, <1>8, <1>9, <1>10, <1>12, <1>13, <1>14

-----------------------------------------------------------------------------
(* The machine.                                                            *)

LEMMA MachineTypes ==
  ASSUME NEW m \in Machines
  PROVE  /\ UserInput(m) \in Machines /\ NoteDisconnect(m) \in Machines
         /\ Ask(m) \in Machines /\ Dismiss(m) \in Machines /\ Resumed(m) \in Machines
         /\ [m EXCEPT !.fresh = FALSE] \in Machines
         /\ \A i \in Nat, n \in Nat : NoteInstance(m, i, n) \in Machines
         /\ \A ph \in Phases, n \in Nat : SeeVisor(m, ph, n) \in Machines
<1>1. UserInput(m) \in Machines
  BY DEF Machines, MachinePhases, UserInput, EnterPaused
<1>2. NoteDisconnect(m) \in Machines
  BY DEF Machines, MachinePhases, NoteDisconnect, EnterPaused
<1>3. Ask(m) \in Machines /\ Dismiss(m) \in Machines /\ Resumed(m) \in Machines
  BY DEF Machines, MachinePhases, Ask, Dismiss, Resumed
<1>4. [m EXCEPT !.fresh = FALSE] \in Machines
  BY DEF Machines
<1>5. ASSUME NEW i \in Nat, NEW n \in Nat PROVE NoteInstance(m, i, n) \in Machines
  BY DEF Machines, NoteInstance
<1>6. ASSUME NEW ph \in Phases, NEW n \in Nat PROVE SeeVisor(m, ph, n) \in Machines
  <2>1. SeeRunning(m, n) \in Machines
    BY DEF Machines, MachinePhases, SeeRunning
  <2>2. SeePaused(m, n) \in Machines
    <3>1. PICK h \in Machines : h = [m EXCEPT !.lastSeq = n]
      BY DEF Machines
    <3>2. PICK q \in Machines : q = [EnterPaused(h, TRUE) EXCEPT !.holding = FALSE]
      BY DEF Machines, MachinePhases, EnterPaused
    <3>3. [q EXCEPT !.mark = n] \in Machines
      BY DEF Machines
    <3>4. QED
      BY <3>1, <3>2, <3>3 DEF SeePaused
  <2>3. [m EXCEPT !.lastSeq = n, !.phase = "off", !.asking = FALSE, !.holding = FALSE] \in Machines
    BY DEF Machines, MachinePhases
  <2>4. QED
    BY <2>1, <2>2, <2>3 DEF SeeVisor, Phases
<1>7. QED
  BY <1>1, <1>2, <1>3, <1>4, <1>5, <1>6

\* Nothing but a resume of the companion leaves a pause without its mark.
LEMMA MarkedStays ==
  ASSUME NEW m \in Machines, Marked(m)
  PROVE  /\ Marked(UserInput(m)) /\ Marked(NoteDisconnect(m))
         /\ Marked(Ask(m)) /\ Marked(Dismiss(m)) /\ Marked([m EXCEPT !.fresh = FALSE])
         /\ \A i \in Nat, n \in Nat : Marked(NoteInstance(m, i, n))
         /\ \A ph \in Phases, n \in Nat : Marked(SeeVisor(m, ph, n))
<1>1. Marked(UserInput(m))
  BY DEF Machines, MachinePhases, UserInput, EnterPaused, Marked
<1>2. Marked(NoteDisconnect(m))
  BY DEF Machines, NoteDisconnect, Marked
<1>3. Marked(Ask(m)) /\ Marked(Dismiss(m)) /\ Marked([m EXCEPT !.fresh = FALSE])
  BY DEF Machines, Ask, Dismiss, Marked
<1>4. ASSUME NEW i \in Nat, NEW n \in Nat PROVE Marked(NoteInstance(m, i, n))
  BY DEF Machines, NoteInstance, Marked
<1>5. ASSUME NEW ph \in Phases, NEW n \in Nat PROVE Marked(SeeVisor(m, ph, n))
  <2>1. Marked(SeeRunning(m, n))
    BY DEF Machines, MachinePhases, SeeRunning, Follows, Marked
  <2>2. Marked(SeePaused(m, n))
    BY DEF Machines, MachinePhases, SeePaused, EnterPaused, IsStale, Marked
  <2>3. Marked([m EXCEPT !.lastSeq = n, !.phase = "off", !.asking = FALSE, !.holding = FALSE])
    BY DEF Machines, Marked
  <2>4. QED
    BY <2>1, <2>2, <2>3 DEF SeeVisor, Phases
<1>6. QED
  BY <1>1, <1>2, <1>3, <1>4, <1>5

\* Input on a running automation, and a visor that restarted under a pause, mark it.
LEMMA PauseMarks ==
  ASSUME NEW m \in Machines
  PROVE  /\ PausesOnInput(m) => Marked(UserInput(m))
         /\ \A i \in Nat, n \in Nat :
              Restarted(m, i) /\ m.phase = "paused" => Marked(NoteInstance(m, i, n))
         /\ \A i \in Nat, n \in Nat : NoteInstance(m, i, n).phase = m.phase
         /\ UserInput(m).phase # "running"
         /\ UserInput(m).phase = "off" <=> m.phase = "off"
BY DEF Machines, MachinePhases, PausesOnInput, UserInput, EnterPaused, Restarted,
       NoteInstance, Marked

-----------------------------------------------------------------------------
(* What every step needs.                                                  *)

Pollers ==
  [pc : {"drain", "post", "posted", "fetch", "fetched"}, batch : Seq(Posts),
   answer : Snapshots, misses : 0..DisconnectMisses, cache : Snapshots, asked : BOOLEAN]

\* The four threads' variables, each with its type.
VisorTyped == gate \in Gates /\ up \in BOOLEAN /\ instance \in Nat \ {0} /\ stragglers \subseteq Posts
PollerTyped == queue \in Seq(Posts) /\ dropped \in BOOLEAN /\ poller \in Pollers
FrameTyped ==
  /\ machine \in Machines /\ pending \in Pendings
  /\ frame \in [pc : {"begin", "settle", "finish"}, snap : Snapshots, restarted : BOOLEAN]
HistoryTyped == owed \in BOOLEAN /\ \A b \in DOMAIN Bounds : spent[b] \in 0..Bounds[b]

LEMMA TypeParts ==
  /\ CompanionTypeOK <=> VisorTyped /\ PollerTyped /\ FrameTyped /\ HistoryTyped
  /\ CompanionTypeOK' <=> VisorTyped' /\ PollerTyped' /\ FrameTyped' /\ HistoryTyped'
BY DEF CompanionTypeOK, VisorTyped, PollerTyped, FrameTyped, HistoryTyped, Pollers

LEMMA PendingsArePosts == \A p \in Pendings : p \in Seq(Posts)
BY SinglePosts DEF Pendings

\* PauseIsOnItsWay, said of the three parts of the road.
LEMMA OnItsWay ==
  /\ PollerTyped /\ FrameTyped =>
       (PauseIsOnItsWay <=> (owed => EndsIn(poller.batch, queue, pending)))
  /\ PollerTyped' /\ FrameTyped' =>
       (PauseIsOnItsWay' <=> (owed' => EndsIn(poller'.batch, queue', pending')))
<1>1. ASSUME PollerTyped, FrameTyped
      PROVE  PauseIsOnItsWay <=> (owed => EndsIn(poller.batch, queue, pending))
  <2>1. poller.batch \in Seq(Posts) /\ queue \in Seq(Posts) /\ pending \in Seq(Posts)
    BY <1>1, PendingsArePosts DEF PollerTyped, FrameTyped, Pollers
  <2>2. Ends(poller.batch \o queue \o pending) <=> EndsIn(poller.batch, queue, pending)
    BY <2>1, EndOfThree
  <2>3. QED
    BY <2>2 DEF PauseIsOnItsWay, Road, Ends
<1>2. ASSUME PollerTyped', FrameTyped'
      PROVE  PauseIsOnItsWay' <=> (owed' => EndsIn(poller'.batch, queue', pending'))
  <2>1. poller'.batch \in Seq(Posts) /\ queue' \in Seq(Posts) /\ pending' \in Seq(Posts)
    BY <1>2, PendingsArePosts DEF PollerTyped, FrameTyped, Pollers
  <2>2. Ends(poller'.batch \o queue' \o pending') <=> EndsIn(poller'.batch, queue', pending')
    BY <2>1, EndOfThree
  <2>3. QED
    BY <2>2 DEF PauseIsOnItsWay, Road, Ends
<1>3. QED
  BY <1>1, <1>2

LEMMA BoundsAre ==
  /\ DOMAIN Bounds = {"inputs", "clients", "restarts", "losses", "resumes"}
  /\ \A b \in DOMAIN Bounds : Bounds[b] \in Nat
BY CompanionAssumption DEF Bounds

LEMMA Spending ==
  ASSUME HistoryTyped, SpentTyped, owed' \in BOOLEAN,
         UNCHANGED spent \/ \E b \in {"inputs", "clients", "restarts", "losses", "resumes"} : Spend(b)
  PROVE  HistoryTyped' /\ SpentTyped'
<1>1. CASE UNCHANGED spent
  BY <1>1 DEF HistoryTyped, SpentTyped
<1>2. ASSUME NEW b \in DOMAIN Bounds, Spend(b)
      PROVE  HistoryTyped' /\ SpentTyped'
  <2>1. spent[b] \in Nat /\ spent[b] < Bounds[b] /\ Bounds[b] \in Nat
    BY <1>2, BoundsAre DEF SpentTyped, Spend, CanSpend
  <2>2. spent' = [spent EXCEPT ![b] = spent[b] + 1]
    BY <1>2 DEF Spend
  <2>3. SpentTyped'
    BY <2>1, <2>2 DEF SpentTyped
  <2>4. ASSUME NEW c \in DOMAIN Bounds PROVE spent'[c] \in 0..Bounds[c]
    <3>1. CASE c = b
      BY <2>1, <2>2, <3>1 DEF SpentTyped
    <3>2. CASE c # b
      BY <2>2, <3>2 DEF SpentTyped, HistoryTyped
    <3>3. QED
      BY <3>1, <3>2
  <2>5. QED
    BY <2>3, <2>4 DEF HistoryTyped
<1>3. QED
  BY <1>1, <1>2, BoundsAre

LEMMA SessionType == TheSession \in MaybeSession
BY CompanionAssumption DEF TheSession, MaybeSession

LEMMA HandlePostType ==
  ASSUME NEW g \in Gates, NEW action \in Posts PROVE HandlePost(g, action) \in Gates
BY SessionType, PauseType, ApplyType DEF HandlePost

\* A step that leaves the frame loop alone and adds no debt.
LEMMA FrameRests ==
  ASSUME Inv, UNCHANGED frameVars, owed' => owed
  PROVE  FrameTyped' /\ FrameHolds' /\ PauseIsMarked'
BY TypeParts DEF Inv, UserHasTheLastWord, frameVars, FrameTyped, FrameHolds, PauseIsMarked, Marked

\* A step that leaves the poller alone.
LEMMA PollerRests ==
  ASSUME Inv, UNCHANGED << queue, dropped, poller >>
  PROVE  PollerTyped' /\ PollerHolds' /\ ResumeStaysCancelled'
BY TypeParts DEF Inv, UserHasTheLastWord, PollerTyped, PollerHolds, ResumeStaysCancelled

\* A step that only moves the visor, and may pay what is owed.
LEMMA OnlyTheVisorMoves ==
  ASSUME Inv, UNCHANGED << queue, dropped, poller >>, UNCHANGED frameVars,
         VisorTyped', owed' \in BOOLEAN, owed' => owed,
         UNCHANGED spent \/ \E b \in {"inputs", "clients", "restarts", "losses", "resumes"} : Spend(b)
  PROVE  Inv'
<1>1. FrameTyped' /\ FrameHolds' /\ PauseIsMarked'
  BY FrameRests
<1>2. PollerTyped' /\ PollerHolds' /\ ResumeStaysCancelled'
  BY PollerRests
<1>3. HistoryTyped' /\ SpentTyped'
  BY Spending, TypeParts DEF Inv, UserHasTheLastWord
<1>4. CompanionTypeOK'
  BY <1>1, <1>2, <1>3, TypeParts
<1>5. PauseIsOnItsWay' /\ PostedIsPaid'
  BY DEF Inv, UserHasTheLastWord, PauseIsOnItsWay, Road, PostedIsPaid, frameVars
<1>6. QED
  BY <1>1, <1>2, <1>3, <1>4, <1>5 DEF Inv, UserHasTheLastWord

-----------------------------------------------------------------------------
(* The visor, its clients and the clock.                                   *)

LEMMA InitialGateType == InitialGate \in Gates
<1>1. PICK q \in Seq(Deferred) : q = << >>
  BY FieldTypes
<1>2. PICK d \in SUBSET Drives : d = {}
  BY FieldTypes
<1>3. InitialGate = [session |-> NoSession, phase |-> "off", drive |-> d, generation |-> 0,
        resumeSeq |-> 0, injectSeq |-> 0, settledSeq |-> 0, injecting |-> FALSE,
        deferred |-> q, epoch |-> 0, trustedAt |-> Never, lastPoll |-> Never,
        keyboard |-> TRUE, published |-> [epoch |-> 0, phase |-> "off"]]
  BY <1>1, <1>2 DEF InitialGate
<1>4. QED
  BY <1>3, FieldTypes DEF Gates

LEMMA VisorStepsKeep ==
  ASSUME Inv, StragglerHandled \/ ClientActs \/ WatchdogTick \/ Tick \/ VisorDies \/ VisorStarts
  PROVE  Inv'
<1>1. gate \in Gates /\ stragglers \subseteq Posts /\ up \in BOOLEAN /\ instance \in Nat \ {0}
      /\ owed \in BOOLEAN
  BY TypeParts DEF Inv, UserHasTheLastWord, VisorTyped, HistoryTyped
<1>2. CASE StragglerHandled
  <2>1. PICK action \in stragglers :
          /\ stragglers' = stragglers \ {action}
          /\ gate' = HandlePost(gate, action)
          /\ Handled(action)
          /\ UNCHANGED << up, instance, queue, dropped, poller, frameVars, spent >>
    BY <1>2 DEF StragglerHandled
  <2>2. gate' \in Gates
    BY <1>1, <2>1, HandlePostType
  <2>3. VisorTyped'
    BY <1>1, <2>1, <2>2 DEF VisorTyped
  <2>4. owed' \in BOOLEAN /\ (owed' => owed)
    BY <1>1, <2>1 DEF Handled
  <2>5. QED
    BY <2>1, <2>3, <2>4, OnlyTheVisorMoves
<1>3. CASE ClientActs
  <2>1. gate' \in Gates
    <3>1. Pause(gate) \in Gates /\ Stop(gate) \in Gates
      BY <1>1, PauseType, StopType
    <3>2. Apply(gate, "start", TheSession, FALSE) \in Gates
      BY <1>1, SessionType, ApplyType
    <3>3. SettleInject(BeginInject(gate, TheSession)) \in Gates
      BY <1>1, SessionType, InjectionType
    <3>4. QED
      BY <1>3, <3>1, <3>2, <3>3 DEF ClientActs
  <2>2. UNCHANGED << up, instance, stragglers, queue, dropped, poller, frameVars, owed >>
        /\ Spend("clients")
    BY <1>3 DEF ClientActs, OnlyGate
  <2>3. VisorTyped'
    BY <1>1, <2>1, <2>2 DEF VisorTyped
  <2>4. QED
    BY <1>1, <2>2, <2>3, OnlyTheVisorMoves
<1>4. CASE WatchdogTick \/ Tick
  <2>1. gate' \in Gates
    BY <1>1, <1>4, PollType, AgedType DEF WatchdogTick, Tick
  <2>2. UNCHANGED << up, instance, stragglers, queue, dropped, poller, frameVars, owed, spent >>
    BY <1>4 DEF WatchdogTick, Tick, OnlyGate
  <2>3. VisorTyped'
    BY <1>1, <2>1, <2>2 DEF VisorTyped
  <2>4. QED
    BY <1>1, <2>2, <2>3, OnlyTheVisorMoves
<1>5. CASE VisorDies
  <2>1. VisorTyped'
    BY <1>1, <1>5, InitialGateType DEF VisorDies, VisorTyped
  <2>2. QED
    BY <1>5, <2>1, OnlyTheVisorMoves DEF VisorDies
<1>6. CASE VisorStarts
  <2>1. VisorTyped'
    BY <1>1, <1>6 DEF VisorStarts, VisorTyped
  <2>2. QED
    BY <1>1, <1>6, <2>1, OnlyTheVisorMoves DEF VisorStarts
<1>7. QED
  BY <1>2, <1>3, <1>4, <1>5, <1>6

-----------------------------------------------------------------------------
(* The poller.                                                             *)

LEMMA SnapshotTypes ==
  /\ Disconnected \in Snapshots
  /\ \A g \in Gates, n \in Nat : SnapshotOf(g, n) \in Snapshots
BY GateFields DEF Disconnected, Snapshots, SnapshotOf, Phases

\* What the poller's steps rest on: the frame loop stands still, and no debt is added.
LEMMA PollerSteps ==
  ASSUME Inv, UNCHANGED frameVars, owed' \in BOOLEAN, owed' => owed,
         VisorTyped', PollerTyped',
         UNCHANGED spent \/ \E b \in {"inputs", "clients", "restarts", "losses", "resumes"} : Spend(b),
         ResumeStaysCancelled', PollerHolds', PostedIsPaid',
         owed' => EndsIn(poller'.batch, queue', pending')
  PROVE  Inv'
<1>1. FrameTyped' /\ FrameHolds' /\ PauseIsMarked'
  BY FrameRests
<1>2. HistoryTyped' /\ SpentTyped'
  BY Spending, TypeParts DEF Inv, UserHasTheLastWord
<1>3. CompanionTypeOK'
  BY <1>1, <1>2, TypeParts
<1>4. PauseIsOnItsWay'
  BY <1>1, OnItsWay
<1>5. QED
  BY <1>1, <1>2, <1>3, <1>4 DEF Inv, UserHasTheLastWord

\* What the invariant says of the poller.
LEMMA PollerFacts ==
  ASSUME Inv
  PROVE  /\ VisorTyped /\ owed \in BOOLEAN /\ dropped \in BOOLEAN
         /\ poller \in Pollers /\ poller.batch \in Seq(Posts)
         /\ poller.pc \in {"drain", "post", "posted", "fetch", "fetched"}
         /\ queue \in Seq(Posts) /\ pending \in Seq(Posts)
         /\ owed => EndsIn(poller.batch, queue, pending)
         /\ dropped => "resume" \notin ToSet(queue)
         /\ poller.pc \in {"post", "posted"} <=> poller.batch # << >>
         /\ poller.pc = "posted" /\ owed =>
              Tail(poller.batch) # << >> \/ queue # << >> \/ pending # << >>
BY TypeParts, OnItsWay, PendingsArePosts
   DEF Inv, UserHasTheLastWord, PollerTyped, FrameTyped, HistoryTyped, Pollers,
       ResumeStaysCancelled, PollerHolds, PostedIsPaid

LEMMA WithBatchType ==
  ASSUME poller \in Pollers, NEW b \in Seq(Posts)
  PROVE  /\ WithBatch(b) \in Pollers /\ WithBatch(b).batch = b
         /\ WithBatch(b).pc = IF b = << >> THEN "fetch" ELSE "post"
BY DEF WithBatch, Pollers

LEMMA PolledType ==
  ASSUME poller \in Pollers, NEW cache \in Snapshots, NEW misses \in 0..DisconnectMisses,
         NEW asked \in BOOLEAN, Polled(cache, misses, asked)
  PROVE  poller' \in Pollers /\ poller'.pc = "drain" /\ poller'.batch = poller.batch
BY SnapshotTypes DEF Polled, Pollers

LEMMA DrainKeeps == ASSUME Inv, Drain PROVE Inv'
<1>1. /\ poller.pc = "drain" /\ poller' = WithBatch(queue) /\ queue' = << >>
      /\ UNCHANGED << visorVars, dropped, frameVars, owed, spent >>
  BY DEF Drain
<1>2. /\ poller' \in Pollers /\ poller'.batch = queue
      /\ poller'.pc = IF queue = << >> THEN "fetch" ELSE "post"
  BY <1>1, PollerFacts, WithBatchType
<1>3. VisorTyped'
  BY <1>1, PollerFacts DEF visorVars, VisorTyped
<1>4. PollerTyped'
  BY <1>1, <1>2, PollerFacts, SinglePosts DEF PollerTyped
<1>5. ResumeStaysCancelled'
  BY <1>1, SinglePosts DEF ResumeStaysCancelled
<1>6. PollerHolds' /\ PostedIsPaid'
  BY <1>2 DEF PollerHolds, PostedIsPaid
<1>7. owed' => EndsIn(poller'.batch, queue', pending')
  BY <1>1, <1>2, PollerFacts, SinglePosts DEF EndsIn, frameVars
<1>8. QED
  BY <1>1, <1>3, <1>4, <1>5, <1>6, <1>7, PollerFacts, PollerSteps

LEMMA VisorHandlesPostKeeps == ASSUME Inv, VisorHandlesPost PROVE Inv'
<1> DEFINE action == Head(poller.batch)
<1>1. /\ poller.pc = "post" /\ poller' = [poller EXCEPT !.pc = "posted"]
      /\ gate' = HandlePost(gate, action) /\ Handled(action)
      /\ UNCHANGED << up, instance, stragglers, queue, dropped, frameVars, spent >>
  BY DEF VisorHandlesPost
<1>2. /\ poller.batch # << >> /\ action \in Posts
      /\ poller' \in Pollers /\ poller'.pc = "posted" /\ poller'.batch = poller.batch
  <2>1. poller.batch # << >>
    BY <1>1, PollerFacts
  <2>2. action \in Posts
    BY <2>1, PollerFacts, EndOfTail
  <2>3. QED
    BY <1>1, <2>1, <2>2, PollerFacts DEF Pollers
<1>3. VisorTyped'
  <2>1. gate' \in Gates
    BY <1>1, <1>2, PollerFacts, HandlePostType DEF VisorTyped
  <2>2. QED
    BY <1>1, <2>1, PollerFacts DEF VisorTyped
<1>4. PollerTyped'
  BY <1>1, <1>2, PollerFacts DEF PollerTyped
<1>5. ResumeStaysCancelled'
  BY <1>1, PollerFacts DEF ResumeStaysCancelled
<1>6. PollerHolds'
  BY <1>2 DEF PollerHolds
<1>7. owed' \in BOOLEAN /\ (owed' => owed)
  BY <1>1, PollerFacts DEF Handled
<1>8. owed' => EndsIn(poller'.batch, queue', pending')
  BY <1>1, <1>2, <1>7, PollerFacts DEF EndsIn, frameVars
<1>9. PostedIsPaid'
  <2>1. SUFFICES ASSUME owed', Tail(poller.batch) = << >>, queue = << >>, pending = << >>
                 PROVE  FALSE
    BY <1>1, <1>2 DEF PostedIsPaid, frameVars
  <2>2. Ends(poller.batch)
    BY <1>7, <2>1, PollerFacts, SinglePosts DEF EndsIn
  <2>3. action = "pause"
    BY <1>2, <2>1, <2>2, PollerFacts, EndOfTail
  <2>4. Road = poller.batch
    BY <2>1, PollerFacts DEF Road
  <2>5. "resume" \in ToSet(poller.batch)
    BY <1>1, <2>1, <2>3, <2>4 DEF Handled
  <2>6. Len(poller.batch) = 1 /\ poller.batch[1] = "pause"
    BY <1>2, <2>1, <2>3, PollerFacts, EndOfTail
  <2>7. QED
    BY <2>5, <2>6, PollerFacts DEF ToSet
<1>10. QED
  BY <1>1, <1>3, <1>4, <1>5, <1>6, <1>7, <1>8, <1>9, PollerSteps

LEMMA PostOkKeeps == ASSUME Inv, PostOk PROVE Inv'
<1>1. /\ poller.pc = "posted" /\ poller' = WithBatch(Tail(poller.batch))
      /\ UNCHANGED << visorVars, queue, dropped, frameVars, owed, spent >>
  BY DEF PostOk
<1>2. poller.batch # << >> /\ Tail(poller.batch) \in Seq(Posts)
  BY <1>1, PollerFacts, EndOfTail
<1>3. /\ poller' \in Pollers /\ poller'.batch = Tail(poller.batch)
      /\ poller'.pc = IF Tail(poller.batch) = << >> THEN "fetch" ELSE "post"
  BY <1>1, <1>2, PollerFacts, WithBatchType
<1>4. VisorTyped' /\ PollerTyped' /\ ResumeStaysCancelled'
  BY <1>1, <1>3, PollerFacts DEF visorVars, VisorTyped, PollerTyped, ResumeStaysCancelled
<1>5. PollerHolds' /\ PostedIsPaid'
  BY <1>3 DEF PollerHolds, PostedIsPaid
<1>6. owed' => EndsIn(poller'.batch, queue', pending')
  <2>1. SUFFICES ASSUME owed PROVE EndsIn(Tail(poller.batch), queue, pending)
    BY <1>1, <1>3 DEF frameVars
  <2>2. EndsIn(poller.batch, queue, pending)
        /\ (Tail(poller.batch) # << >> \/ queue # << >> \/ pending # << >>)
    BY <1>1, <2>1, PollerFacts
  <2>3. Tail(poller.batch) # << >> /\ Ends(poller.batch) => Ends(Tail(poller.batch))
    BY <1>2, PollerFacts, EndOfTail
  <2>4. QED
    BY <2>2, <2>3, SinglePosts DEF EndsIn
<1>7. QED
  BY <1>1, <1>4, <1>5, <1>6, PollerFacts, PollerSteps

LEMMA PostFailsKeeps == ASSUME Inv, PostFails PROVE Inv'
<1> DEFINE back == Restored(poller.batch, dropped)
<1>1. /\ poller.pc \in {"post", "posted"} /\ poller' = WithBatch(<< >>)
      /\ queue' = back \o queue
      /\ UNCHANGED spent \/ Spend("losses")
      /\ UNCHANGED << gate, up, instance, dropped, frameVars, owed >>
  BY DEF PostFails
<1>2. /\ poller' \in Pollers /\ poller'.batch = << >> /\ poller'.pc = "fetch"
  BY <1>1, PollerFacts, WithBatchType, SinglePosts
<1>3. poller.batch # << >>
  BY <1>1, PollerFacts
<1>4. /\ back \in Seq(Posts)
      /\ Ends(poller.batch) => Ends(back)
      /\ dropped => "resume" \notin ToSet(back)
  BY PollerFacts, WithoutResumeFacts DEF Restored
<1>5. queue' \in Seq(Posts) /\ (Ends(queue') <=> Ends(queue) \/ (queue = << >> /\ Ends(back)))
  BY <1>1, <1>4, PollerFacts, EndOfTwo
<1>6. VisorTyped'
  <2>1. stragglers' \subseteq Posts
    <3>1. Head(poller.batch) \in Posts
      BY <1>3, PollerFacts, EndOfTail
    <3>2. QED
      BY <3>1, PollerFacts DEF PostFails, VisorTyped
  <2>2. QED
    BY <1>1, <2>1, PollerFacts DEF VisorTyped
<1>7. PollerTyped'
  BY <1>1, <1>2, <1>5, PollerFacts DEF PollerTyped
<1>8. ResumeStaysCancelled'
  BY <1>1, <1>4, PollerFacts, NoResumeInTwo DEF ResumeStaysCancelled
<1>9. PollerHolds' /\ PostedIsPaid'
  BY <1>2 DEF PollerHolds, PostedIsPaid
<1>10. owed' => EndsIn(poller'.batch, queue', pending')
  BY <1>1, <1>2, <1>4, <1>5, PollerFacts DEF EndsIn, frameVars
<1>11. QED
  BY <1>1, <1>6, <1>7, <1>8, <1>9, <1>10, PollerFacts, PollerSteps

\* A fetch and what becomes of it: no batch is open, and the queue keeps its end.
LEMMA FetchKeeps ==
  ASSUME Inv, VisorHandlesFetch \/ FetchReady \/ FetchDown \/ FetchUnreadable
  PROVE  Inv'
<1>1. /\ poller \in Pollers /\ poller.pc \in {"fetch", "fetched"} /\ poller.batch = << >>
      /\ poller.cache \in Snapshots /\ poller.answer \in Snapshots
      /\ poller.misses \in 0..DisconnectMisses /\ poller.asked \in BOOLEAN
      /\ DisconnectMisses \in Nat \ {0}
  BY PollerFacts, CompanionAssumption
     DEF VisorHandlesFetch, FetchReady, FetchDown, FetchUnreadable, Pollers
<1>2. Miss => poller' \in Pollers /\ poller'.pc = "drain" /\ poller'.batch = << >>
  <2>1. Missed(poller.misses) \in 0..DisconnectMisses
    BY <1>1 DEF Missed
  <2>2. PICK cache \in Snapshots :
          cache = IF Missed(poller.misses) = DisconnectMisses THEN Disconnected ELSE poller.cache
    BY <1>1, SnapshotTypes
  <2>3. Miss => Polled(cache, Missed(poller.misses), poller.asked)
    BY <2>2 DEF Miss
  <2>4. QED
    BY <1>1, <2>1, <2>2, <2>3, PolledType
<1>3. /\ poller' \in Pollers /\ poller'.pc \in {"fetched", "drain"} /\ poller'.batch = << >>
      /\ queue' = queue \/ queue' = Append(queue, "pause")
      /\ gate' = gate \/ (up /\ gate' = NotePoll(gate))
      /\ UNCHANGED spent \/ Spend("losses")
      /\ UNCHANGED << up, instance, stragglers, dropped, frameVars, owed >>
  <2>1. CASE VisorHandlesFetch
    <3>1. gate' \in Gates
      BY <2>1, PollerFacts, PollType DEF VisorHandlesFetch, VisorTyped
    <3>2. PICK a \in Snapshots : a = SnapshotOf(gate', instance)
      BY <3>1, PollerFacts, SnapshotTypes DEF VisorTyped
    <3>3. poller' = [poller EXCEPT !.pc = "fetched", !.answer = a]
      BY <2>1, <3>2 DEF VisorHandlesFetch
    <3>4. poller' \in Pollers /\ poller'.pc = "fetched" /\ poller'.batch = << >>
      BY <1>1, <3>3 DEF Pollers
    <3>5. QED
      BY <2>1, <3>4 DEF VisorHandlesFetch
  <2>2. CASE FetchReady
    <3>1. Polled(poller.answer, 0, FALSE)
      BY <2>2 DEF FetchReady
    <3>2. 0 \in 0..DisconnectMisses
      BY <1>1
    <3>3. poller' \in Pollers /\ poller'.pc = "drain" /\ poller'.batch = << >>
      BY <1>1, <3>1, <3>2, PolledType
    <3>4. QED
      BY <2>2, <3>3 DEF FetchReady, visorVars
  <2>3. CASE FetchDown
    BY <1>2, <2>3 DEF FetchDown, visorVars
  <2>4. CASE FetchUnreadable
    <3>1. Polled(poller.cache, poller.misses, TRUE) =>
            poller' \in Pollers /\ poller'.pc = "drain" /\ poller'.batch = << >>
      BY <1>1, PolledType
    <3>2. QED
      BY <1>2, <2>4, <3>1 DEF FetchUnreadable, visorVars
  <2>5. QED
    BY <2>1, <2>2, <2>3, <2>4
<1>4. queue' \in Seq(Posts) /\ (Ends(queue) => Ends(queue')) /\ (dropped => "resume" \notin ToSet(queue'))
  <2>1. CASE queue' = queue
    BY <2>1, PollerFacts
  <2>2. CASE queue' = Append(queue, "pause")
    <3>1. queue' = queue \o << "pause" >>
      BY <2>2, PollerFacts, SinglePosts, AppendIsConcat DEF Posts
    <3>2. QED
      BY <3>1, PollerFacts, SinglePosts, EndOfTwo, NoResumeInTwo
  <2>3. QED
    BY <1>3, <2>1, <2>2
<1>5. VisorTyped'
  BY <1>3, PollerFacts, PollType DEF VisorTyped
<1>6. PollerTyped' /\ ResumeStaysCancelled' /\ PollerHolds' /\ PostedIsPaid'
  BY <1>3, <1>4, PollerFacts
     DEF PollerTyped, ResumeStaysCancelled, PollerHolds, PostedIsPaid
<1>7. owed' => EndsIn(poller'.batch, queue', pending')
  BY <1>1, <1>3, <1>4, PollerFacts, SinglePosts DEF EndsIn, frameVars
<1>8. QED
  BY <1>3, <1>5, <1>6, <1>7, PollerFacts, PollerSteps

-----------------------------------------------------------------------------
(* The frame loop.                                                         *)

\* What the invariant says of the frame loop.
LEMMA FrameFacts ==
  ASSUME Inv
  PROVE  /\ machine \in Machines /\ pending \in {<< >>, << "pause" >>}
         /\ frame.pc \in {"begin", "settle", "finish"} /\ frame.snap \in Snapshots
         /\ frame.restarted \in BOOLEAN
         /\ frame \in [pc : {"begin", "settle", "finish"}, snap : Snapshots, restarted : BOOLEAN]
         /\ frame.pc = "begin" => pending = << >>
         /\ frame.pc = "settle" /\ pending # << >> =>
              frame.snap.connected /\ frame.restarted /\ machine.phase = "paused"
         /\ owed => Marked(machine)
BY TypeParts DEF Inv, UserHasTheLastWord, FrameTyped, FrameHolds, PauseIsMarked

\* What the frame's steps rest on: the poller's batch stays, a cancelled resume is
\* taken out, and a pause that is owed is at the end of what is pending and queued.
LEMMA FrameSteps ==
  ASSUME Inv, UNCHANGED << visorVars, poller >>, owed' \in BOOLEAN,
         FrameTyped', FrameHolds', queue' \in Seq(Posts), dropped' \in BOOLEAN,
         UNCHANGED spent \/ \E b \in {"inputs", "clients", "restarts", "losses", "resumes"} : Spend(b),
         ResumeStaysCancelled', PauseIsMarked',
         owed' => \/ Ends(pending') \/ (pending' = << >> /\ Ends(queue'))
                  \/ owed /\ pending' = << >> /\ queue' = << >> /\ pending = << >> /\ queue = << >>
  PROVE  Inv'
<1>1. VisorTyped'
  BY PollerFacts DEF visorVars, VisorTyped
<1>2. PollerTyped' /\ PollerHolds'
  BY PollerFacts DEF PollerTyped, PollerHolds
<1>3. HistoryTyped' /\ SpentTyped'
  BY Spending, TypeParts DEF Inv, UserHasTheLastWord
<1>4. CompanionTypeOK'
  BY <1>1, <1>2, <1>3, TypeParts
<1>5. owed' => EndsIn(poller'.batch, queue', pending')
  BY PollerFacts, SinglePosts DEF EndsIn
<1>6. PostedIsPaid'
  BY PollerFacts, SinglePosts DEF PostedIsPaid
<1>7. PauseIsOnItsWay'
  BY <1>2, <1>5, OnItsWay
<1>8. QED
  BY <1>2, <1>3, <1>4, <1>6, <1>7 DEF Inv, UserHasTheLastWord

LEMMA FrameBeginKeeps == ASSUME Inv, FrameBegin PROVE Inv'
<1> DEFINE snap == poller.cache
           restarted == snap.connected /\ Restarted(machine, snap.instance)
           again == restarted /\ machine.phase = "paused"
<1>1. /\ frame.pc = "begin"
      /\ frame' = [pc |-> "settle", snap |-> snap, restarted |-> restarted]
      /\ machine' = IF snap.connected THEN NoteInstance(machine, snap.instance, snap.seq)
                    ELSE machine
      /\ pending' = NotePause(pending, again)
      /\ owed' = (owed \/ again)
      /\ UNCHANGED << visorVars, queue, dropped, poller, spent >>
  BY DEF FrameBegin
<1>2. /\ snap \in Snapshots /\ snap.connected \in BOOLEAN /\ snap.instance \in Nat
      /\ snap.seq \in Nat
  BY PollerFacts DEF Pollers, Snapshots
<1>3. restarted \in BOOLEAN /\ again \in BOOLEAN
  BY <1>2 DEF Restarted
<1>4. machine' \in Machines /\ machine'.phase = machine.phase
  BY <1>1, <1>2, FrameFacts, MachineTypes, PauseMarks
<1>5. pending' = IF again THEN << "pause" >> ELSE << >>
  BY <1>1, FrameFacts DEF NotePause
<1>6. PauseIsMarked'
  <2>1. ASSUME owed PROVE Marked(machine')
    BY <1>1, <1>2, <2>1, FrameFacts, MarkedStays
  <2>2. ASSUME again PROVE Marked(machine')
    BY <1>1, <1>2, <2>2, FrameFacts, PauseMarks
  <2>3. QED
    BY <1>1, <2>1, <2>2 DEF PauseIsMarked, Marked
<1>7. FrameTyped'
  BY <1>1, <1>2, <1>3, <1>4, <1>5 DEF FrameTyped, Pendings
<1>8. FrameHolds'
  BY <1>1, <1>4, <1>5 DEF FrameHolds
<1>9. ResumeStaysCancelled' /\ owed' \in BOOLEAN
  BY <1>1, <1>3, PollerFacts DEF ResumeStaysCancelled
<1>10. owed' => \/ Ends(pending') \/ (pending' = << >> /\ Ends(queue'))
                \/ owed /\ pending' = << >> /\ queue' = << >> /\ pending = << >> /\ queue = << >>
  BY <1>1, <1>5, PollerFacts, FrameFacts, SinglePosts DEF EndsIn
<1>11. QED
  BY <1>1, <1>6, <1>7, <1>8, <1>9, <1>10, PollerFacts, FrameSteps

LEMMA QuietPassesKeeps == ASSUME Inv, QuietPasses PROVE Inv'
<1>1. /\ machine' = [machine EXCEPT !.quiet = TRUE]
      /\ UNCHANGED << visorVars, queue, dropped, poller, pending, frame, owed, spent >>
  BY DEF QuietPasses
<1>2. machine' \in Machines /\ machine'.phase = machine.phase /\ (Marked(machine) => Marked(machine'))
  BY <1>1, FrameFacts DEF Machines, Marked
<1>3. FrameTyped' /\ FrameHolds'
  BY <1>1, <1>2, FrameFacts DEF FrameTyped, FrameHolds, Pendings
<1>4. PauseIsMarked' /\ ResumeStaysCancelled'
  BY <1>1, <1>2, FrameFacts, PollerFacts DEF PauseIsMarked, ResumeStaysCancelled, Marked
<1>5. owed' => \/ Ends(pending') \/ (pending' = << >> /\ Ends(queue'))
               \/ owed /\ pending' = << >> /\ queue' = << >> /\ pending = << >> /\ queue = << >>
  <2>1. owed => EndsIn(poller.batch, queue, pending)
    BY PollerFacts
  <2>2. QED
    BY <1>1, <2>1, SinglePosts DEF EndsIn
<1>6. QED
  BY <1>1, <1>3, <1>4, <1>5, PollerFacts, FrameSteps

\* What is pending holds no resume until the frame ends.
LEMMA PendingIsKept ==
  ASSUME NEW p \in {<< >>, << "pause" >>}, NEW cancels \in BOOLEAN, NEW cond \in BOOLEAN
  PROVE  NotePause(IF cancels THEN WithoutResume(p) ELSE p, cond)
           = IF cond THEN << "pause" >> ELSE p
<1>1. WithoutResume(<< >>) = << >>
  BY SinglePosts, WithoutResumeFacts
<1>2. WithoutResume(<< "pause" >>) = << "pause" >>
  <2>1. {i \in DOMAIN << "pause" >> : << "pause" >>[i] # "resume"} = {1}
    OBVIOUS
  <2>2. Cardinality({1}) = 1
    BY FS_Singleton
  <2>3. [n \in 1..1 |-> "pause"] = << "pause" >>
    OBVIOUS
  <2>4. QED
    BY <2>1, <2>2, <2>3 DEF WithoutResume
<1>3. QED
  BY <1>1, <1>2 DEF NotePause

LEMMA SeenFacts ==
  ASSUME Inv, NEW m \in Machines
  PROVE  /\ SeeSnapshot(m) \in Machines
         /\ Marked(m) => Marked(SeeSnapshot(m))
         /\ frame.snap.connected /\ frame.restarted /\ m.phase = "paused" => SeeSnapshot(m) = m
<1>1. frame.snap.connected \in BOOLEAN /\ frame.snap.phase \in Phases /\ frame.snap.seq \in Nat
  BY FrameFacts DEF Snapshots
<1>2. QED
  BY <1>1, MachineTypes, MarkedStays DEF SeeSnapshot

LEMMA FrameSettleKeeps ==
  ASSUME Inv, NEW live \in BOOLEAN, FrameSettle(live)
  PROVE  Inv' /\ OldReportLiftsNothing
<1> DEFINE onShown == live /\ PausesOnInput(machine)
           input == IF live THEN UserInput(machine) ELSE machine
           seen == SeeSnapshot(input)
           again == live /\ (~onShown \/ seen.phase = "running")
           onIncoming == again /\ PausesOnInput(seen)
           cancels == live \/ ~frame.snap.connected
           paused == onShown \/ onIncoming
<1>1. /\ frame.pc = "settle"
      /\ machine' = IF again THEN UserInput(seen) ELSE seen
      /\ pending' = IF machine'.phase = "off" /\ ~onShown /\ ~onIncoming THEN << >>
                    ELSE NotePause(IF cancels THEN WithoutResume(pending) ELSE pending,
                                   onShown \/ onIncoming)
      /\ dropped' = (dropped \/ cancels)
      /\ queue' = IF cancels THEN WithoutResume(queue) ELSE queue
      /\ owed' = (owed \/ onShown \/ onIncoming)
      /\ frame' = [pc |-> "finish", snap |-> Disconnected, restarted |-> FALSE]
      /\ UNCHANGED spent \/ Spend("inputs")
      /\ UNCHANGED << visorVars, poller >>
  BY DEF FrameSettle, CancelResume
<1>2. frame.snap.connected \in BOOLEAN /\ frame.restarted \in BOOLEAN /\ machine \in Machines
      /\ frame.snap.phase \in Phases /\ frame.snap.seq \in Nat
  BY FrameFacts DEF Snapshots
<1>3. input \in Machines
  BY <1>2, MachineTypes
<1>4. seen \in Machines
  BY <1>3, SeenFacts
<1>5. machine' \in Machines
  BY <1>1, <1>4, MachineTypes
<1>6. onShown \in BOOLEAN /\ again \in BOOLEAN /\ onIncoming \in BOOLEAN /\ cancels \in BOOLEAN
      /\ paused \in BOOLEAN
  BY <1>2 DEF PausesOnInput
<1>7. PauseIsMarked'
  <2>1. ASSUME owed PROVE Marked(machine')
    <3>1. Marked(input)
      BY <1>2, <2>1, FrameFacts, MarkedStays
    <3>2. Marked(seen)
      BY <1>3, <3>1, SeenFacts
    <3>3. QED
      BY <1>1, <1>4, <3>2, MarkedStays
  <2>2. ASSUME onShown PROVE Marked(machine')
    <3>1. Marked(input)
      BY <1>2, <2>2, PauseMarks
    <3>2. Marked(seen)
      BY <1>3, <3>1, SeenFacts
    <3>3. QED
      BY <1>1, <1>4, <3>2, MarkedStays
  <2>3. ASSUME onIncoming PROVE Marked(machine')
    BY <1>1, <1>4, <2>3, PauseMarks
  <2>4. owed' => Marked(machine')
    BY <1>1, <2>1, <2>2, <2>3
  <2>5. QED
    BY <2>4 DEF PauseIsMarked, Marked
<1>8. pending # << >> => machine'.phase # "off"
  <2>1. SUFFICES ASSUME pending # << >> PROVE machine'.phase # "off"
    OBVIOUS
  <2>2. frame.snap.connected /\ frame.restarted /\ machine.phase = "paused"
    BY <1>1, <2>1, FrameFacts
  <2>3. input.phase = "paused"
    BY <1>2, <2>2 DEF Machines, UserInput
  <2>4. seen = input
    BY <1>3, <2>2, <2>3, SeenFacts
  <2>5. QED
    BY <1>1, <1>4, <2>3, <2>4, PauseMarks
<1>9. OldReportLiftsNothing
  <2>1. SUFFICES ASSUME owed, machine.phase = "paused", machine'.phase = "running"
                 PROVE  frame.snap.seq > machine.lastSeq
    BY DEF OldReportLiftsNothing
  <2>2. ~live
    <3>1. SUFFICES ASSUME live PROVE FALSE
      OBVIOUS
    <3>2. again
      BY <2>1, <3>1 DEF PausesOnInput
    <3>3. QED
      BY <1>1, <1>4, <2>1, <3>2, PauseMarks
  <2>3. machine' = SeeSnapshot(machine)
    BY <1>1, <2>2
  <2>4. Marked(machine)
    BY <2>1, FrameFacts
  <2>5. frame.snap.connected /\ machine' = SeeVisor(machine, frame.snap.phase, frame.snap.seq)
    BY <1>2, <2>1, <2>3 DEF SeeSnapshot, NoteDisconnect, EnterPaused, Machines
  <2>6. CASE frame.snap.phase = "running"
    <3>1. machine' = SeeRunning(machine, frame.snap.seq)
      BY <2>5, <2>6 DEF SeeVisor
    <3>2. QED
      BY <1>2, <2>1, <2>4, <3>1 DEF SeeRunning, Follows, Marked, Machines
  <2>7. CASE frame.snap.phase = "paused"
    <3>1. machine' = SeePaused(machine, frame.snap.seq)
      BY <2>5, <2>7 DEF SeeVisor
    <3>2. QED
      BY <1>2, <2>1, <3>1 DEF SeePaused, EnterPaused, Machines
  <2>8. CASE frame.snap.phase = "off"
    <3>1. machine' = [machine EXCEPT !.lastSeq = frame.snap.seq, !.phase = "off",
                                     !.asking = FALSE, !.holding = FALSE]
      BY <2>5, <2>8 DEF SeeVisor
    <3>2. QED
      BY <1>2, <2>1, <3>1 DEF Machines
  <2>9. QED
    BY <1>2, <2>6, <2>7, <2>8 DEF Phases
<1> HIDE DEF onShown, input, seen, again, onIncoming, cancels
<1>10. pending' = IF paused THEN << "pause" >> ELSE pending
  <2>1. pending \in {<< >>, << "pause" >>}
    BY FrameFacts
  <2>2. NotePause(IF cancels THEN WithoutResume(pending) ELSE pending, paused)
          = IF paused THEN << "pause" >> ELSE pending
    BY <1>6, <2>1, PendingIsKept
  <2>3. QED
    BY <1>1, <1>8, <2>1, <2>2
<1> HIDE DEF paused
<1>11. owed' = (owed \/ paused)
  BY <1>1 DEF paused
<1>12. FrameTyped' /\ FrameHolds'
  BY <1>1, <1>5, <1>10, FrameFacts, SnapshotTypes DEF FrameTyped, FrameHolds, Pendings
<1>13. /\ queue' \in Seq(Posts) /\ dropped' \in BOOLEAN /\ owed' \in BOOLEAN
       /\ Ends(queue) => Ends(queue')
       /\ queue = << >> => queue' = << >>
       /\ dropped' => "resume" \notin ToSet(queue')
  BY <1>1, <1>6, <1>11, PollerFacts, WithoutResumeFacts
<1>14. owed' => \/ Ends(pending') \/ (pending' = << >> /\ Ends(queue'))
                \/ owed /\ pending' = << >> /\ queue' = << >> /\ pending = << >> /\ queue = << >>
  <2>1. owed => EndsIn(poller.batch, queue, pending)
    BY PollerFacts
  <2>2. QED
    BY <1>10, <1>11, <1>13, <2>1, SinglePosts DEF EndsIn
<1>15. QED
  BY <1>1, <1>7, <1>9, <1>12, <1>13, <1>14, FrameSteps DEF ResumeStaysCancelled

LEMMA PauseStays ==
  ASSUME NEW m \in Machines
  PROVE  Ask(m).phase = m.phase /\ Dismiss(m).phase = m.phase
BY DEF Machines, Ask, Dismiss

LEMMA ClickFacts ==
  ASSUME NEW m \in Machines, NEW click \in Clicks
  PROVE  /\ AfterClick(m, click) \in Machines
         /\ ~(click = "continue" /\ ResumesOnContinue(m)) =>
              /\ Marked(m) => Marked(AfterClick(m, click))
              /\ m.phase = "paused" => AfterClick(m, click).phase = "paused"
         /\ click = "bug" /\ PausesOnInput(m) => Marked(AfterClick(m, click))
<1>1. CASE click = "bug" /\ AsksAbout(m)
  <2>1. AfterClick(m, click) = Ask(m) /\ ~PausesOnInput(m)
    BY <1>1 DEF AfterClick, AsksAbout, PausesOnInput
  <2>2. QED
    BY <1>1, <2>1, MachineTypes, MarkedStays, PauseStays
<1>2. CASE click = "bug" /\ ~AsksAbout(m) /\ PausesOnInput(m)
  <2>1. AfterClick(m, click) = UserInput(m) /\ m.phase # "paused"
    BY <1>2 DEF AfterClick, PausesOnInput
  <2>2. QED
    BY <1>2, <2>1, MachineTypes, MarkedStays, PauseMarks
<1>3. CASE click = "continue" /\ ResumesOnContinue(m)
  <2>1. AfterClick(m, click) = Resumed(m)
    BY <1>3 DEF AfterClick
  <2>2. QED
    BY <1>3, <2>1, MachineTypes
<1>4. CASE click = "dismiss"
  <2>1. AfterClick(m, click) = Dismiss(m)
    BY <1>4 DEF AfterClick
  <2>2. QED
    BY <1>4, <2>1, MachineTypes, MarkedStays, PauseStays
<1>5. CASE \/ click = "bug" /\ ~AsksAbout(m) /\ ~PausesOnInput(m)
           \/ click = "continue" /\ ~ResumesOnContinue(m)
           \/ click = "none"
  <2>1. AfterClick(m, click) = m
    BY <1>5 DEF AfterClick
  <2>2. QED
    BY <1>5, <2>1
<1>6. QED
  BY <1>1, <1>2, <1>3, <1>4, <1>5 DEF Clicks

LEMMA FrameFinishKeeps ==
  ASSUME Inv, NEW moved \in BOOLEAN, NEW click \in Clicks, FrameFinish(moved, click)
  PROVE  Inv' /\ OldReportLiftsNothing
<1> DEFINE byPointer == moved /\ PausesOnInput(machine)
           m1 == IF moved THEN UserInput(machine) ELSE machine
           byClick == click = "bug" /\ PausesOnInput(m1)
           m2 == AfterClick(m1, click)
           continued == click = "continue" /\ ResumesOnContinue(m1)
           timed == ResumesOnTimer(m2) /\ CanSpend("resumes")
           resumes == continued \/ timed
           cancels == (moved /\ machine.phase # "off") \/ byClick
           noted == NotePause(IF cancels THEN WithoutResume(pending) ELSE pending,
                              byPointer \/ byClick)
           last == IF resumes THEN << "resume" >> ELSE noted
           kept == IF cancels THEN WithoutResume(queue) ELSE queue
           paused == byPointer \/ byClick
<1>1. /\ frame.pc = "finish"
      /\ machine' = [IF timed THEN Resumed(m2) ELSE m2 EXCEPT !.fresh = FALSE]
      /\ queue' = kept \o last
      /\ dropped' = ((dropped \/ cancels) /\ last # << "resume" >>)
      /\ owed' = ((owed \/ byPointer \/ byClick) /\ ~resumes)
      /\ UNCHANGED spent \/ Spend("resumes") \/ Spend("inputs")
      /\ pending' = << >> /\ frame' = [frame EXCEPT !.pc = "begin"]
      /\ UNCHANGED << visorVars, poller >>
  BY DEF FrameFinish
<1>2. machine \in Machines /\ m1 \in Machines
  BY FrameFacts, MachineTypes
<1>3. m2 \in Machines
  BY <1>2, ClickFacts
<1>4. machine' \in Machines
  BY <1>1, <1>3, MachineTypes
<1>5. /\ byPointer \in BOOLEAN /\ byClick \in BOOLEAN /\ paused \in BOOLEAN
      /\ cancels \in BOOLEAN /\ resumes \in BOOLEAN
  BY DEF PausesOnInput, ResumesOnContinue, ResumesOnTimer, CanSpend
<1>6. ~resumes => machine' = [m2 EXCEPT !.fresh = FALSE] /\ ~continued
  BY <1>1
<1>7. PauseIsMarked'
  <2>1. SUFFICES ASSUME owed' PROVE Marked(machine')
    BY DEF PauseIsMarked, Marked
  <2>2. ~resumes /\ (owed \/ byPointer \/ byClick)
    BY <1>1, <2>1
  <2>3. owed => Marked(m1)
    BY <1>2, FrameFacts, MarkedStays
  <2>4. byPointer => Marked(m1)
    BY <1>2, PauseMarks
  <2>5. Marked(m1) => Marked(m2)
    BY <1>2, <1>6, <2>2, ClickFacts
  <2>6. byClick => Marked(m2)
    BY <1>2, ClickFacts
  <2>7. Marked(m2)
    BY <2>2, <2>3, <2>4, <2>5, <2>6
  <2>8. QED
    BY <1>3, <1>6, <2>2, <2>7, MarkedStays
<1>8. OldReportLiftsNothing
  <2>1. SUFFICES ASSUME owed', machine.phase = "paused", machine'.phase = "running"
                 PROVE  FALSE
    BY DEF OldReportLiftsNothing
  <2>2. ~resumes
    BY <1>1, <2>1
  <2>3. m1.phase = "paused"
    BY <1>2, <2>1 DEF Machines, UserInput
  <2>4. m2.phase = "paused"
    BY <1>2, <1>6, <2>2, <2>3, ClickFacts
  <2>5. QED
    BY <1>3, <1>6, <2>1, <2>2, <2>4 DEF Machines
<1>9. noted = IF paused THEN << "pause" >> ELSE pending
  BY <1>5, FrameFacts, PendingIsKept
<1>10. last = IF resumes THEN << "resume" >> ELSE IF paused THEN << "pause" >> ELSE pending
  BY <1>9
<1>11. owed' = ((owed \/ paused) /\ ~resumes)
  BY <1>1
<1> HIDE DEF byPointer, m1, byClick, m2, continued, timed, resumes, cancels, noted, last, paused
<1>12. /\ kept \in Seq(Posts) /\ (Ends(queue) => Ends(kept))
       /\ queue = << >> => kept = << >>
       /\ dropped \/ cancels => "resume" \notin ToSet(kept)
  BY <1>5, PollerFacts, WithoutResumeFacts
<1> HIDE DEF kept
<1>13. last \in Seq(Posts) /\ (last # << "resume" >> => "resume" \notin ToSet(last))
  BY <1>5, <1>10, FrameFacts, SinglePosts
<1>14. /\ queue' \in Seq(Posts) /\ dropped' \in BOOLEAN /\ owed' \in BOOLEAN
       /\ queue' = << >> <=> kept = << >> /\ last = << >>
       /\ Ends(queue') <=> Ends(last) \/ (last = << >> /\ Ends(kept))
  BY <1>1, <1>5, <1>11, <1>12, <1>13, EndOfTwo, PollerFacts
<1>15. ResumeStaysCancelled'
  BY <1>1, <1>12, <1>13, NoResumeInTwo DEF ResumeStaysCancelled
<1>16. FrameTyped' /\ FrameHolds'
  BY <1>1, <1>4, FrameFacts DEF FrameTyped, FrameHolds, Pendings
<1>17. owed' => \/ Ends(pending') \/ (pending' = << >> /\ Ends(queue'))
                \/ owed /\ pending' = << >> /\ queue' = << >> /\ pending = << >> /\ queue = << >>
  <2>1. owed => EndsIn(poller.batch, queue, pending)
    BY PollerFacts
  <2>2. CASE paused
    BY <1>1, <1>10, <1>11, <1>14, <2>2, SinglePosts
  <2>3. CASE ~paused
    BY <1>1, <1>10, <1>11, <1>12, <1>14, <2>1, <2>3, FrameFacts, SinglePosts DEF EndsIn
  <2>4. QED
    BY <2>2, <2>3
<1>18. QED
  BY <1>1, <1>7, <1>8, <1>14, <1>15, <1>16, <1>17, FrameSteps

-----------------------------------------------------------------------------
(* The theorems.                                                           *)

LEMMA InitInv == Init => Inv
<1> SUFFICES ASSUME Init PROVE Inv
  OBVIOUS
<1> USE DEF Init
<1>1. VisorTyped
  BY InitialGateType DEF VisorTyped
<1>2. PollerTyped
  <2>1. DisconnectMisses \in 0..DisconnectMisses
    BY CompanionAssumption
  <2>2. QED
    BY <2>1, SinglePosts, SnapshotTypes DEF PollerTyped, Pollers
<1>3. FrameTyped
  BY SnapshotTypes DEF FrameTyped, NewMachine, Machines, MachinePhases, Pendings
<1>4. HistoryTyped /\ SpentTyped
  <2>1. owed \in BOOLEAN /\ spent = [b \in DOMAIN Bounds |-> 0]
    OBVIOUS
  <2>2. \A b \in DOMAIN Bounds : spent[b] = 0 /\ Bounds[b] \in Nat
    BY <2>1, BoundsAre
  <2>3. \A b \in DOMAIN Bounds : spent[b] \in 0..Bounds[b]
    BY <2>2
  <2>4. spent \in [DOMAIN Bounds -> Nat]
    BY <2>1
  <2> HIDE DEF Init
  <2>5. QED
    BY <2>1, <2>3, <2>4 DEF HistoryTyped, SpentTyped
<1>5. CompanionTypeOK
  BY <1>1, <1>2, <1>3, <1>4, TypeParts
<1>6. PauseIsOnItsWay /\ ResumeStaysCancelled /\ PostedIsPaid /\ PauseIsMarked
  BY DEF PauseIsOnItsWay, ResumeStaysCancelled, PostedIsPaid, PauseIsMarked
<1>7. PollerHolds /\ FrameHolds
  BY DEF PollerHolds, FrameHolds
<1>8. QED
  BY <1>4, <1>5, <1>6, <1>7 DEF Inv, UserHasTheLastWord

\* No step breaks the invariant, and none lifts an owed pause for an old report.
LEMMA StepInv == Inv /\ [Next]_vars => Inv' /\ [OldReportLiftsNothing]_vars
<1> SUFFICES ASSUME Inv, [Next]_vars PROVE Inv' /\ [OldReportLiftsNothing]_vars
  OBVIOUS
<1>1. CASE UNCHANGED vars
  <2>1. Inv'
    BY <1>1 DEF vars, Inv, UserHasTheLastWord, CompanionTypeOK, PauseIsOnItsWay, Road,
         ResumeStaysCancelled, SpentTyped, PollerHolds, FrameHolds, PostedIsPaid,
         PauseIsMarked, Marked
  <2>2. QED
    BY <1>1, <2>1
<1>2. CASE PollerActs
  <2>1. Inv'
    BY <1>2, DrainKeeps, VisorHandlesPostKeeps, PostOkKeeps, PostFailsKeeps, FetchKeeps
       DEF PollerActs
  <2>2. machine' = machine
    BY <1>2 DEF PollerActs, Drain, VisorHandlesPost, PostOk, PostFails, VisorHandlesFetch,
         FetchReady, FetchDown, FetchUnreadable, frameVars
  <2>3. QED
    BY <2>1, <2>2 DEF OldReportLiftsNothing
<1>3. CASE StragglerHandled \/ ClientActs \/ WatchdogTick \/ Tick \/ VisorDies \/ VisorStarts
  <2>1. machine' = machine
    BY <1>3 DEF StragglerHandled, ClientActs, WatchdogTick, Tick, VisorDies, VisorStarts,
         OnlyGate, frameVars
  <2>2. QED
    BY <1>3, <2>1, VisorStepsKeep DEF OldReportLiftsNothing
<1>4. CASE FrameBegin
  <2>1. machine'.phase = machine.phase
    <3>1. poller.cache.instance \in Nat /\ poller.cache.seq \in Nat
      BY PollerFacts DEF Pollers, Snapshots
    <3>2. QED
      BY <1>4, <3>1, FrameFacts, PauseMarks DEF FrameBegin
  <2>2. QED
    BY <1>4, <2>1, FrameBeginKeeps DEF OldReportLiftsNothing
<1>5. CASE QuietPasses
  <2>1. machine'.phase = machine.phase
    BY <1>5, FrameFacts DEF QuietPasses, Machines
  <2>2. QED
    BY <1>5, <2>1, QuietPassesKeeps DEF OldReportLiftsNothing
<1>6. CASE \E live \in BOOLEAN : FrameSettle(live)
  BY <1>6, FrameSettleKeeps
<1>7. CASE \E moved \in BOOLEAN, click \in Clicks : FrameFinish(moved, click)
  BY <1>7, FrameFinishKeeps
<1>8. QED
  BY <1>1, <1>2, <1>3, <1>4, <1>5, <1>6, <1>7 DEF Next, FrameActs

(* Every variable keeps its type; a pause the user caused is the last thing on *)
(* its way until a visor has handled it, and a resume it overruled never       *)
(* leaves again (note_user_input, restore_after_cancel, cancel_resume).        *)
THEOREM UserKeepsTheLastWord == Spec => []UserHasTheLastWord
<1>1. Inv => UserHasTheLastWord
  BY DEF Inv
<1>2. QED
  BY <1>1, InitInv, StepInv, PTL DEF Spec

(* No step undoes what the user did last: neither a lost or late exchange, a   *)
(* disconnect or a restart, nor a report from before the pause (see_visor).    *)
THEOREM UserAlwaysObeyed == Spec => UserIsObeyed
<1>1. Inv /\ [Next]_vars => [UserHasTheLastWord' /\ OldReportLiftsNothing]_vars
  BY StepInv DEF Inv
<1>2. Spec => []Inv
  BY InitInv, StepInv, PTL DEF Spec
<1>3. QED
  BY <1>1, <1>2, PTL DEF Spec, UserIsObeyed
=============================================================================
