------------------------------ MODULE Fallback ------------------------------
(***************************************************************************)
(* The pointer fallback of the companion (companion/src/automation.rs,     *)
(* classify_fallback and what it calls; companion/src/window.rs around     *)
(* it).  Where X11 shows no raw pointer events, each frame compares the    *)
(* pointer and the buttons with what the visor's snapshot explains, and    *)
(* whatever is left over is the user.  Snapshots are polled, so the one in *)
(* hand may be older than the pointer it is compared with.                 *)
(*                                                                         *)
(* A place is a point more than FALLBACK_DISTANCE_PX from every other; the *)
(* button mask is one button, down or up.  The clock counts ticks; a frame *)
(* runs between any two.  A frame reads an epoch only to ask whether a     *)
(* poll succeeded since the frame before, which is polled.                 *)
(*                                                                         *)
(* Left out: visor restarts, which clear the track, the idle time an       *)
(* automation that is off leaves to the display, and the rest of the       *)
(* machine (module Companion).  The visor here pauses and resumes only     *)
(* when the companion says so, and calls come one at a time.               *)
(***************************************************************************)
EXTENDS Integers, Sequences, FiniteSets

CONSTANTS Places,        \* where the pointer can be
          Home,          \* where it is at first
          SettleTicks,   \* FALLBACK_SETTLE_MS
          HoldTicks,     \* INJECT_HOLD_MS
          ConfirmEpochs, \* FALLBACK_CONFIRM_EPOCHS
          MaxCalls, MaxUserActs, MaxResumes, MaxClients,
          MaxEvents      \* calls, the user's acts and clients together

ASSUME FallbackAssumption ==
  /\ Home \in Places
  /\ {SettleTicks, HoldTicks} \subseteq Nat \ {0} /\ ConfirmEpochs \in Nat \ {0, 1}
  /\ {MaxCalls, MaxUserActs, MaxResumes, MaxClients, MaxEvents} \subseteq Nat

VARIABLES
  pointer,   \* [at, user, call]: place, button held by the user, by a call
  visor,     \* the gate as far as a poll shows it
  call,      \* how far the call in flight has got, and its mouse target
  lastPoint, \* Gate::pointer, a set of at most one place
  want,      \* the controls of the companion the visor has not handled
  answer,    \* the poll on its way back
  snap,      \* the snapshot in hand
  polled,    \* a poll succeeded since the last frame
  phase,     \* Machine::phase
  track,     \* FallbackTrack
  resumes,   \* seen_resume_seq and fallback_after_resume
  age,       \* SampleAge: the drive last shown and for how many ticks
  framed,    \* a frame ran since the last tick
  excused,   \* history: what, since the last resume, left the pointer, the
             \* button or the target where no drive a frame judged by has them
  judged,    \* history: the injectSeq of the last drive a frame judged by
  unjudged,  \* history: ticks since a frame was not deferred
  spent      \* history: how much of each bound is used up

FallbackVars == << pointer, visor, call, lastPoint, want, answer, snap, polled, phase, track,
           resumes, age, framed, excused, judged, unjudged, spent >>
visorVars == << visor, call, lastPoint, want >>
companionVars == << answer, snap, polled, phase, track, resumes, age, framed,
                    judged, unjudged >>

Unset == -1
Drives == [at : Places, known : BOOLEAN, resumeSeq : Nat, injectSeq : Nat]
PolledViews == [phase : {"off", "running", "paused"}, injecting : BOOLEAN,
          injectSeq : Nat, settledSeq : Nat, resumeSeq : Nat,
          drive : SUBSET Drives]
NothingYet == [phase |-> "off", injecting |-> FALSE, injectSeq |-> 0,
               settledSeq |-> 0, resumeSeq |-> 0, drive |-> {}]
Calls == [pc : {"none", "begun", "pointed"}, to : Places]
NoCall == [pc |-> "none", to |-> Home]
Samples == [at : Places, down : BOOLEAN]

\* FallbackTrack::default.  A baseline is a set of at most one sample; hold
\* is Unset or the number of later polls; openFor is Unset or ticks.
EmptyTrack == [baseline |-> {}, mask |-> FALSE, hold |-> Unset, openFor |-> Unset,
               blocked |-> FALSE, settled |-> 0, ignore |-> FALSE]

FallbackInit ==
  /\ pointer = [at |-> Home, user |-> FALSE, call |-> FALSE]
  /\ visor = NothingYet /\ call = NoCall /\ lastPoint = {} /\ want = << >>
  /\ answer = {} /\ snap = NothingYet /\ polled = FALSE
  /\ phase = "off" /\ track = EmptyTrack
  /\ resumes = [seen |-> 0, after |-> Unset]
  /\ age = [of |-> 0, ticks |-> 0] /\ framed = TRUE /\ excused = {}
  /\ judged = 0 /\ unjudged = 0
  /\ spent = [calls |-> 0, acts |-> 0, resumes |-> 0, clients |-> 0]

Bounds == [calls |-> MaxCalls, acts |-> MaxUserActs, resumes |-> MaxResumes,
           clients |-> MaxClients]
Spend(b) ==
  /\ spent[b] < Bounds[b]
  /\ spent' = [spent EXCEPT ![b] = @ + 1]
  /\ spent'.calls + spent'.acts + spent'.clients <= MaxEvents

\* What excuses a pause: the user, a call that left no drive to judge by, or a
\* drive whose target is the last point, where the pointer need not be.
Excuses == {"user", "call", "guess"}
Excuse(reason, given) == excused \cup {r \in {reason} : given}

Sample == [at |-> pointer.at, down |-> pointer.user \/ pointer.call]

-----------------------------------------------------------------------------
(* The visor, its calls and its clients.                                   *)

CallBegins ==
  /\ call.pc = "none" /\ visor.phase # "paused" /\ Spend("calls")
  /\ call' = [call EXCEPT !.pc = "begun"]
  /\ visor' = [visor EXCEPT !.phase = "running", !.injecting = TRUE,
                            !.injectSeq = @ + 1]
  /\ UNCHANGED << pointer, lastPoint, want, companionVars, excused >>

\* A move, or a click or drag with its button still down.
CallPoints ==
  /\ call.pc = "begun"
  /\ \E p \in Places, down \in BOOLEAN :
       /\ call' = [pc |-> "pointed", to |-> p]
       /\ pointer' = [pointer EXCEPT !.at = p, !.call = down]
  /\ UNCHANGED << visor, lastPoint, want, companionVars, excused, spent >>

Settled(v) == [v EXCEPT !.injecting = FALSE, !.settledSeq = v.injectSeq]

\* The button comes up before the sample is stored and the injection ends.
Records(p, known) ==
  /\ visor.phase = "running" /\ call' = NoCall
  /\ visor' = [Settled(visor) EXCEPT
       !.drive = {[at |-> p, known |-> known, resumeSeq |-> visor.resumeSeq,
                   injectSeq |-> visor.injectSeq]}]
  /\ lastPoint' = IF known THEN {p} ELSE lastPoint
  /\ pointer' = [pointer EXCEPT !.call = FALSE]
  /\ excused' = Excuse("guess", known /\ p # pointer.at)
  /\ UNCHANGED << want, companionVars, spent >>

\* A mouse call records its target.
MouseRecords == call.pc = "pointed" /\ Records(call.to, TRUE)

\* A type records where it reads the pointer; if it cannot, the last point.
TypeRecords ==
  /\ call.pc = "begun"
  /\ \/ Records(pointer.at, TRUE)
     \/ \E p \in lastPoint : Records(p, TRUE)
     \/ lastPoint = {} /\ Records(Home, FALSE)

\* The desktop failed, or a pause stopped the call: nothing is recorded, and
\* what was held is released.
CallFails ==
  /\ call.pc # "none" /\ call' = NoCall
  /\ visor' = Settled(visor)
  /\ pointer' = [pointer EXCEPT !.call = FALSE]
  /\ excused' = Excuse("call", call.pc = "pointed")
  /\ UNCHANGED << lastPoint, want, companionVars, spent >>

\* EnterRunning: the old drive is dropped.
Reopened(v) == [v EXCEPT !.phase = "running", !.drive = {}, !.resumeSeq = @ + 1]

\* A resume that arrives during a call is replayed when the call unwinds.
VisorHears ==
  /\ want # << >> /\ want' = Tail(want)
  /\ Head(want) = "resume" => call.pc = "none"
  /\ visor' = CASE Head(want) = "pause" -> [visor EXCEPT !.phase = "paused"]
                [] Head(want) = "resume" /\ visor.phase = "paused" ->
                     Reopened(visor)
                [] OTHER -> visor
  /\ UNCHANGED << pointer, call, lastPoint, companionVars, excused, spent >>

\* stop and start over TCP.  A drive dropped before a frame judged by it
\* explains nothing any more.
ClientActs ==
  /\ call.pc = "none" /\ visor.phase # "paused" /\ Spend("clients")
  /\ \/ visor' = Reopened(visor)
     \/ visor.phase = "running" /\ visor' = [visor EXCEPT !.phase = "off", !.drive = {}]
  /\ excused' = Excuse("call", \E d \in visor.drive : d.known /\ d.injectSeq # judged)
  /\ UNCHANGED << pointer, call, lastPoint, want, companionVars >>

UserActs ==
  /\ Spend("acts") /\ excused' = Excuse("user", TRUE)
  /\ \/ \E p \in Places \ {pointer.at} : pointer' = [pointer EXCEPT !.at = p]
     \/ pointer' = [pointer EXCEPT !.user = ~@]
  /\ UNCHANGED << visorVars, companionVars >>

-----------------------------------------------------------------------------
(* The poller: the visor answers, later the answer is in hand.             *)

Answer ==
  /\ answer = {} /\ answer' = {visor}
  /\ UNCHANGED << pointer, visorVars, snap, polled, phase, track, resumes, age,
                  framed, excused, judged, unjudged, spent >>

Receive ==
  /\ answer # {} /\ answer' = {}
  /\ snap' \in answer /\ polled' = TRUE
  /\ UNCHANGED << pointer, visorVars, phase, track, resumes, age, framed,
                  excused, judged, unjudged, spent >>

-----------------------------------------------------------------------------
(* One frame.  The operators take the phase p the frame judges by, the     *)
(* track t and the sequence after which drives count.                      *)

DriveCounts(d, after) == after = Unset \/ d.resumeSeq > after

UsableDrives(after) == {d \in snap.drive : d.known /\ DriveCounts(d, after)}
TheDrive(after) == CHOOSE d \in UsableDrives(after) : TRUE

\* injection_outstanding: sequence 0, which no injection has, is Unset.
Outstanding ==
  CASE snap.injecting -> snap.injectSeq
    [] /\ ~snap.injecting
       /\ \/ snap.injectSeq <= snap.settledSeq
          \/ \E d \in snap.drive : d.injectSeq = snap.injectSeq -> 0
    [] OTHER -> snap.injectSeq

\* A wait already open goes on when the next sequence begins.
OpenFor(t) == IF t.openFor = Unset THEN 0 ELSE t.openFor

\* injection_deferred: whether this frame waits, and the track it leaves.
Waits(t) ==
  /\ Outstanding > t.settled /\ ~t.blocked
  /\ OpenFor(t) < HoldTicks

AfterWaitStillOpen(t) ==
  CASE Outstanding = 0 ->
         [t EXCEPT !.openFor = Unset, !.blocked = FALSE,
                   !.settled = IF @ < snap.injectSeq THEN snap.injectSeq ELSE @]
    [] Outstanding # 0 /\ (Outstanding <= t.settled \/ t.blocked) -> t
    [] Waits(t) -> [t EXCEPT !.openFor = OpenFor(t)]
    [] OTHER -> [t EXCEPT !.blocked = TRUE]

AfterWait(t) ==
  CASE Outstanding = 0 ->
         [t EXCEPT !.openFor = Unset, !.blocked = FALSE,
                   !.settled = IF @ < snap.injectSeq THEN snap.injectSeq ELSE @]
    [] Outstanding # 0 /\ (Outstanding <= t.settled \/ t.blocked) -> t
    [] Waits(t) -> [t EXCEPT !.openFor = OpenFor(t)]
    [] OTHER -> [t EXCEPT !.openFor = Unset, !.blocked = TRUE]

Active(base, at, down) == base.at # at \/ base.down # down

\* baseline_moved.
BaselineMoved(t) ==
  \E base \in t.baseline : Active(base, pointer.at, Sample.down \/ t.ignore)

AfterBaseline(t) ==
  LET now == [t EXCEPT !.mask = Sample.down, !.ignore = @ /\ Sample.down]
  IN  CASE t.baseline = {} -> [now EXCEPT !.baseline = {Sample}, !.ignore = FALSE]
        [] BaselineMoved(t) -> [now EXCEPT !.baseline = {Sample}]
        [] t.ignore /\ ~BaselineMoved(t) /\ t.baseline # {} ->
             [now EXCEPT !.baseline = {[base EXCEPT !.down = Sample.down] : base \in @}]
        [] OTHER -> now

\* SampleAge::observe.
Age(d) == IF age.of = d.injectSeq THEN age.ticks ELSE 0

Displaced(d) == Age(d) > SettleTicks /\ pointer.at # d.at

\* consider_displacement.  A new drive starts the wait over: its age is 0.
Hold(t, d) ==
  CASE ~Displaced(d) -> Unset
    [] Displaced(d) /\ t.hold = Unset -> 0
    [] OTHER -> IF polled /\ t.hold < ConfirmEpochs THEN t.hold + 1 ELSE t.hold

ConfirmsAtOnce(t, d) == Hold(t, d) >= 1

Confirmed(t, d) == Hold(t, d) >= ConfirmEpochs

\* What classify_fallback says of a frame and why, and the track it leaves.
Judgement(p, t, after) ==
  LET w == AfterWait(t)
  IN  CASE p = "off" ->
             [by |-> "none", moved |-> FALSE, track |-> EmptyTrack]
        [] p # "off" /\ Waits(t) ->
             [by |-> "none", moved |-> FALSE, track |-> [w EXCEPT !.hold = Unset]]
        [] p # "off" /\ ~Waits(t) /\ (p = "paused" \/ UsableDrives(after) = {}) ->
             [by |-> "baseline", moved |-> BaselineMoved(t),
              track |-> [AfterBaseline(w) EXCEPT !.hold = Unset]]
        [] OTHER ->
             LET d == TheDrive(after)
                 pressed == Sample.down /\ ~t.mask
             IN  [by |-> IF Confirmed(t, d) THEN "drive" ELSE "button",
                  moved |-> Confirmed(t, d) \/ pressed,
                  track |-> [w EXCEPT !.hold = Hold(t, d), !.mask = Sample.down,
                                      !.baseline = {Sample}]]

\* FallbackTrack::rebaseline.
Rebaselined(t) == [t EXCEPT !.baseline = {Sample}, !.mask = Sample.down,
                            !.hold = Unset, !.ignore = Sample.down]

\* The phase after the snapshot (see_visor with nobody else pausing).
SeenPhase == CASE snap.phase = "off" -> "off"
          [] snap.phase # "off" /\ phase = "off" -> snap.phase
          [] OTHER -> phase

\* fallback_after_resume, and what is made of the pointer in this frame.
CutOff == IF SeenPhase = "off" THEN Unset ELSE resumes.after
Judged == Judgement(SeenPhase, track, CutOff)

\* Poller::cancel_resume; there is no third action.
WithoutResume(actions) ==
  [n \in 1..Cardinality({i \in DOMAIN actions : actions[i] # "resume"}) |-> "pause"]

\* A pause ends by the idle timer or a click on Continue.  Either takes longer
\* than it takes a pause to reach the visor and a poll that a frame sees to
\* show it: two clicks, or automation_resume_secs, which outlast a wait too.
PauseIsSeen ==
  /\ SeenPhase = "paused" /\ want = << >>
  /\ snap.phase = "paused" /\ visor.phase = "paused"
  /\ snap.resumeSeq = resumes.seen /\ snap.resumeSeq = visor.resumeSeq

\* resume is how this frame ends a pause, if it does: "timer", which a frame
\* that saw the user does not reach, "continue" or "no".
Frame(resume) ==
  LET j == Judged
      fired == j.moved /\ SeenPhase = "running"
      resumed == resume # "no"
      deferred == SeenPhase # "off" /\ Waits(track)
  IN  /\ resumed => PauseIsSeen /\ Spend("resumes")
      /\ ~resumed => UNCHANGED spent
      /\ resume = "timer" => ~j.moved /\ ~deferred
      /\ track' = IF resume = "continue" THEN Rebaselined(j.track) ELSE j.track
      /\ phase' = IF resumed THEN "running" ELSE IF fired THEN "paused" ELSE SeenPhase
      /\ want' = CASE resumed -> Append(want, "resume")
                   [] ~resumed /\ j.moved /\ SeenPhase # "off" ->
                        WithoutResume(want) \o (IF fired THEN << "pause" >> ELSE << >>)
                   [] OTHER -> want
      /\ resumes' = [seen |-> snap.resumeSeq,
                     after |-> IF ~resumed THEN CutOff
                               ELSE IF resumes.seen < snap.resumeSeq
                                    THEN resumes.seen ELSE snap.resumeSeq]
      /\ excused' = IF resumed THEN {} ELSE excused
      /\ judged' = IF j.by \in {"drive", "button"} THEN TheDrive(CutOff).injectSeq ELSE judged
      /\ unjudged' = IF deferred THEN unjudged ELSE 0
      /\ polled' = FALSE /\ framed' = TRUE
      /\ \/ (\A d \in snap.drive : d.injectSeq = age.of) /\ UNCHANGED age
         \/ \E d \in snap.drive : /\ d.injectSeq # age.of
                                 /\ age' = [of |-> d.injectSeq, ticks |-> 0]
      /\ UNCHANGED << pointer, visor, call, lastPoint, answer, snap >>

\* Time passes: 80 ms and more between frames, so one runs in every tick.
Tick ==
  /\ framed /\ framed' = FALSE
  /\ age' = [age EXCEPT !.ticks = IF @ > SettleTicks THEN @ ELSE @ + 1]
  /\ track' = [track EXCEPT !.openFor =
                  IF @ \in 0..(HoldTicks - 1) THEN @ + 1 ELSE @]
  /\ unjudged' = IF unjudged > HoldTicks + 1 THEN unjudged ELSE unjudged + 1
  /\ UNCHANGED << pointer, visorVars, answer, snap, polled, phase, resumes,
                  excused, judged, spent >>

FallbackNext ==
  \/ CallBegins \/ CallPoints \/ MouseRecords \/ TypeRecords \/ CallFails \/ VisorHears \/ ClientActs \/ UserActs
  \/ Answer \/ Receive \/ Tick
  \/ \E resume \in {"no", "timer", "continue"} : Frame(resume)

FallbackSpec == FallbackInit /\ [][FallbackNext]_FallbackVars

-----------------------------------------------------------------------------
(* Properties.                                                             *)

\* Every variable keeps its type (FallbackTrack, FallbackInput, SampleAge), and
\* a wait that used up its budget is not open.
FallbackTypeOK ==
  /\ pointer \in [at : Places, user : BOOLEAN, call : BOOLEAN]
  /\ visor \in PolledViews /\ snap \in PolledViews /\ answer \subseteq PolledViews
  /\ call \in Calls /\ lastPoint \subseteq Places
  /\ want \in Seq({"pause", "resume"})
  /\ {polled, framed} \subseteq BOOLEAN /\ excused \subseteq Excuses
  /\ phase \in {"off", "running", "paused"}
  /\ track \in [baseline : SUBSET Samples, mask : BOOLEAN, hold : Unset..ConfirmEpochs,
                openFor : Unset..HoldTicks, blocked : BOOLEAN, settled : Nat,
                ignore : BOOLEAN]
  /\ track.blocked => track.openFor = Unset
  /\ resumes \in [seen : Nat, after : Nat \cup {Unset}]
  /\ age \in [of : Nat, ticks : 0..(SettleTicks + 1)]
  /\ judged \in Nat /\ unjudged \in Nat
  /\ spent \in [calls : 0..MaxCalls, acts : 0..MaxUserActs, resumes : 0..MaxResumes,
                clients : 0..MaxClients]

\* A step in which the fallback pauses a running automation.
Pauses == SeenPhase = "running" /\ phase' = "paused"

\* A pause means somebody else used the pointer since the last resume, or holds
\* its button, or a call left no drive with a target it reached.  A
\* pointer off a drive may be off the drive before the call that moved it: two
\* later polls rule that out (consider_displacement).  For any other reason the
\* snapshot in hand must not be older than the newest call: a drive from before
\* a resume, a sample from before a wait and the click on Continue pause
\* nothing.  A wait that used up its budget is the exception.
OwnMovesDoNotPause ==
  [][Pauses => \/ excused # {} \/ pointer.user \/ track'.blocked
               \/ Judged.by # "drive" /\ visor.injectSeq > snap.injectSeq]_FallbackVars

\* No chain of calls keeps a frame from being judged for longer than one
\* INJECT_HOLD_MS (injection_deferred).
DeferralIsBounded == unjudged <= HoldTicks + 1

\* A pause of the fallback comes for somebody else's use of the pointer alone, and
\* no stream of calls puts off the judgement for ever.
PausesForTheUser == OwnMovesDoNotPause /\ []DeferralIsBounded
=============================================================================
