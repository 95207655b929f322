------------------------------- MODULE Pointer -------------------------------
(***************************************************************************)
(* Real and injected input as a frame of the companion takes it            *)
(* (companion/src/pointer.rs Watch, companion/src/window.rs show and       *)
(* on_click).  The X server queues what the user and the visor's XTEST     *)
(* devices do; a frame drains what has reached it, tells the two apart,    *)
(* judges the user's input against the phase on screen and against the     *)
(* snapshot, and then takes one click on the companion's own window.       *)
(*                                                                         *)
(* A press is one raw event and, over the companion, a core event behind   *)
(* it; the core event does not say which device it is from.  A motion is   *)
(* half a pixel or a whole one.  Snapshots come from anywhere (module      *)
(* Companion has the visor); the wheel, the menu and the idle timer are    *)
(* left out, and so is the judgement of the pointer fallback, which here   *)
(* may say anything (module Fallback).                                     *)
(***************************************************************************)
EXTENDS Machine, Sequences

CONSTANTS MaxInputs,    \* events of the user and of calls
          MaxShots  \* shots of the snapshot

ASSUME PointerAssumption == {MaxInputs, MaxShots} \subseteq Nat

VARIABLES
  queued,   \* what the server has for the companion, oldest first
  watch,    \* Watch: which classes are filtered, what a frame leaves behind,
            \* and from which event on (NotYet: it is not attached)
  machine,  \* the companion's Machine
  shot,     \* the snapshot the next frame reads
  inputs,   \* how many events there were, the number of the newest
  shots,  \* how often the snapshot changed
  drift,    \* history: half pixels the user moved that nobody answered yet
  latest    \* history: if the last step was a frame, whether it drained the
            \* user, whose click it took, and whether that continued

NotYet == -1

PointerVars == << queued, watch, machine, shot, inputs, shots, drift, latest >>

Origins == {"user", "call"}
\* What a press hits: the bug, the button that continues, or another window.
Targets == {"bug", "continue", "elsewhere"}
Inputs ==
  [kind : {"press", "core"}, by : Origins, on : Targets, n : Nat]
    \cup [kind : {"half", "whole", "key"}, by : Origins, n : Nat]

NoFrameYet == [live |-> FALSE, clicks |-> {}, continued |-> FALSE]

PointerInit ==
  /\ queued = << >> /\ inputs = 0 /\ shots = 0 /\ drift = 0
  /\ watch = [pointer |-> FALSE, keyboard |-> FALSE, from |-> NotYet,
              px |-> 0, raw |-> "none"]
  /\ machine = NewMachine
  /\ shot = [connected |-> FALSE, phase |-> "off", seq |-> 0]
  /\ latest = NoFrameYet

-----------------------------------------------------------------------------
(* The server.                                                             *)

\* attach: an XTEST device of each class is found, or is not.  The window is
\* on screen before this.
Attach ==
  /\ watch.from = NotYet
  /\ \E pointer, keyboard \in BOOLEAN :
       watch' = [watch EXCEPT !.from = inputs, !.pointer = pointer,
                              !.keyboard = keyboard]
  /\ UNCHANGED << queued, machine, shot, inputs, shots, drift >>
  /\ latest' = NoFrameYet

Queue(events) ==
  /\ inputs < MaxInputs /\ inputs' = inputs + 1
  /\ queued' = queued \o events
  /\ latest' = NoFrameYet
  /\ UNCHANGED << watch, machine, shot, shots, drift >>

\* Raw events reach only who selected them; the core press reaches the window.
PressComes(by, on) ==
  LET half(kind) == [kind |-> kind, by |-> by, on |-> on, n |-> inputs + 1]
  IN  Queue((IF watch.pointer THEN << half("press") >> ELSE << >>)
              \o (IF on # "elsewhere" THEN << half("core") >> ELSE << >>))

Other(by, kind) ==
  /\ IF kind = "key" THEN watch.keyboard ELSE watch.pointer
  /\ Queue(<< [kind |-> kind, by |-> by, n |-> inputs + 1] >>)

SnapshotComes ==
  /\ shots < MaxShots /\ shots' = shots + 1
  /\ \/ shot' = [shot EXCEPT !.connected = FALSE]
     \/ \E phase \in MachinePhases, step \in {0, 1} :
          shot' = [connected |-> TRUE, phase |-> phase, seq |-> shot.seq + step]
  /\ latest' = NoFrameYet
  /\ UNCHANGED << queued, watch, machine, inputs, drift >>

-----------------------------------------------------------------------------
(* One frame.                                                              *)

\* What draining has made of the events so far: pending_px, the raw press not
\* yet paired, whether one was the user, and the click it leaves.
Drained == [px : {0, 1}, raw : Origins \cup {"none"}, live : BOOLEAN,
            click : SUBSET Inputs]

\* observe: a motion of the user counts once its pixels add up to one.
Observe(d, e) ==
  CASE e.by = "call" -> d
    [] e.by = "user" /\ e.kind = "half" ->
         [d EXCEPT !.px = 1 - @, !.live = @ \/ d.px = 1]
    [] e.by = "user" /\ e.kind = "whole" -> [d EXCEPT !.px = 0, !.live = TRUE]
    [] e.by = "user" /\ e.kind \in {"press", "key"} -> [d EXCEPT !.live = TRUE]
    [] OTHER -> d

\* synthetic_core_presses: the newest raw press tells whose the core press is.
\* The last click of the frame wins.
Pair(d, e) ==
  CASE e.kind = "press" -> [d EXCEPT !.raw = e.by]
    [] e.kind = "core" ->
         [d EXCEPT !.raw = "none", !.click = IF d.raw = "call" THEN @ ELSE {e}]
    [] OTHER -> d

Take(d, e) == Pair(IF e.kind = "core" THEN d ELSE Observe(d, e), e)

\* What is made of the first i events of a batch.
Drains(raw, batch) ==
  LET drained[i \in 0..Len(batch)] ==
        IF i = 0 THEN [px |-> watch.px, raw |-> raw, live |-> FALSE, click |-> {}]
        ELSE Take(drained[i - 1], batch[i])
  IN  drained

\* The frame before forgot the raw press it had not paired.
DrainAfresh(batch) == Drains("none", batch)[Len(batch)]

Drain(batch) == Drains(watch.raw, batch)[Len(batch)]

SeeShot(m) == IF shot.connected THEN SeeVisor(m, shot.phase, shot.seq)
              ELSE NoteDisconnect(m)

\* settle_live_input: judged by the phase on screen, then by the snapshot's,
\* unless the first paused and the snapshot left it so.
Settle(m, live) ==
  LET onShown == live /\ PausesOnInput(m)
      seen == SeeShot(IF live THEN UserInput(m) ELSE m)
  IN  IF live /\ (~onShown \/ seen.phase = "running") THEN UserInput(seen) ELSE seen

\* bug_click: only about the pause on screen when the frame began.
AsksNow(m) == machine.phase = "paused" /\ m.phase = "paused" /\ ~m.fresh

\* on_click.
Clicked(m, on) ==
  CASE on = "bug" /\ AsksNow(m) -> Ask(m)
    [] on = "bug" /\ ~AsksNow(m) /\ PausesOnInput(m) -> UserInput(m)
    [] on = "continue" /\ ResumesOnContinue(m) -> Resumed(m)
    [] OTHER -> m

\* Half pixels the user moved by the first i events of a batch, up to two.
Further(far, e) ==
  IF e.by = "user" /\ e.kind \in {"half", "whole"}
  THEN IF e.kind = "whole" \/ far > 0 THEN 2 ELSE 1
  ELSE far
Travels(batch) ==
  LET far[i \in 0..Len(batch)] == IF i = 0 THEN 0 ELSE Further(far[i - 1], batch[i])
  IN  far
Travel(batch) == Travels(batch)[Len(batch)]

\* moved is the pointer fallback's word, where raw pointer events are missing.
PointerFrame(drained, moved) ==
  LET batch == SubSeq(queued, 1, drained)
      d == Drain(batch)
      settled == Settle(machine, d.live)
      judged == IF moved THEN UserInput(settled) ELSE settled
      clicked(e) == Clicked(judged, e.on)
      continued == \E e \in d.click : judged.phase = "paused" /\ clicked(e).phase = "running"
      after == IF d.click = {} THEN judged ELSE clicked(CHOOSE e \in d.click : TRUE)
      far == Travel(batch)
  IN  /\ watch.from # NotYet /\ (moved => ~watch.pointer)
      /\ queued' = SubSeq(queued, drained + 1, Len(queued))
      /\ watch' = [watch EXCEPT !.px = d.px, !.raw = d.raw]
      /\ machine' = [after EXCEPT !.fresh = FALSE]
      /\ drift' = IF d.live THEN d.px ELSE IF drift + far > 2 THEN 2 ELSE drift + far
      /\ latest' = [live |-> \E i \in DOMAIN batch :
                                /\ batch[i].by = "user"
                                /\ batch[i].kind \in {"press", "key", "whole"},
                    clicks |-> {e.by : e \in {c \in d.click : c.n > watch.from}},
                    continued |-> continued]
      /\ UNCHANGED << shot, inputs, shots >>

PointerNext ==
  \/ Attach
  \/ \E by \in Origins, on \in Targets : PressComes(by, on)
  \/ \E by \in Origins, kind \in {"half", "whole", "key"} : Other(by, kind)
  \/ SnapshotComes
  \/ \E drained \in 0..Len(queued), moved \in BOOLEAN : PointerFrame(drained, moved)

PointerSpec == PointerInit /\ [][PointerNext]_PointerVars

-----------------------------------------------------------------------------
(* Properties.                                                             *)

\* Every variable keeps its type (Watch, Machine, ButtonQueue).
PointerTypeOK ==
  /\ queued \in Seq(Inputs) /\ machine \in Machines
  /\ watch \in [pointer : BOOLEAN, keyboard : BOOLEAN, from : Nat \cup {NotYet},
                px : {0, 1}, raw : Origins \cup {"none"}]
  /\ shot \in [connected : BOOLEAN, phase : MachinePhases, seq : Nat]
  /\ inputs \in 0..MaxInputs /\ shots \in 0..MaxShots /\ drift \in 0..2

\* Where the XTEST pointer is known, a click the companion takes is one of the
\* user, however the frames cut the queue between its raw and its core event
\* (synthetic_core_presses).  A press from before attach has no raw event.
ClicksAreTheUsers ==
  watch.pointer => latest.clicks \subseteq {"user"}

\* A frame that drained input of the user, or the last half of a pixel, does
\* not leave the automation running: not the phase on screen, not the one the
\* snapshot brings (show, classify_incoming_input).  Continue is the exception.
UserInputStopsIt ==
  /\ latest.live => machine.phase # "running" \/ latest.continued
  /\ drift < 2

\* A frame tells the user from the calls of the visor in both directions.
UserIsToldFromCalls == ClicksAreTheUsers /\ UserInputStopsIt
=============================================================================
