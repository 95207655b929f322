------------------------------ MODULE Release ------------------------------
(***************************************************************************)
(* The injection of one mouse or type request: its plan is cut into        *)
(* chunks, each chunk is sent over one desktop connection event by event,  *)
(* and the request may end anywhere -- the latch trips between two chunks, *)
(* the desktop refuses an event or a flush, the task panics.  What it      *)
(* pressed is given back twice over: by the pipe that failed half way, and *)
(* by the ReleaseGuard of the request when it is dropped.                  *)
(*                                                                         *)
(* A stroke is [key, down], and so is an event of the X server, whose keys *)
(* are keycodes: "A" is the keycode of "a" under Shift.  A motion is the   *)
(* lifting of a key nobody presses, and stands for a wheel tick too, which *)
(* is a press and a release the desktop makes in one step.                 *)
(***************************************************************************)
EXTENDS Integers, FiniteSets, SequencesExt, FiniteSetsExt

CONSTANTS MaxKeystrokes,  \* of a type request
          ChunkKeystrokes, PointerBatch,
          MaxFaults,      \* events the desktop fails
          LiftsFirst      \* a type request may lift a key it has not pressed

ASSUME ReleaseAssumption ==
  {MaxKeystrokes, ChunkKeystrokes, PointerBatch, MaxFaults} \subseteq Nat /\ LiftsFirst \in BOOLEAN

VARIABLES
  injecting,  \* how far the request has got
  pipe,       \* the connection: keyboard, pointer, or one mouse call
  rest,       \* the strokes not sent yet
  chunk,      \* the chunk being sent
  sent,       \* how many of its events were accepted
  undo,       \* what the failed pipe still has to lift
  noted,      \* ReleaseGuard::held
  pressed,    \* the keys and buttons down at the server
  refused,    \* the keys whose last release the desktop lost
  faults

releaseVars == <<injecting, pipe, rest, chunk, sent, undo, noted, pressed, refused, faults>>

Press(k) == [key |-> k, down |-> TRUE]
Lift(k) == [key |-> k, down |-> FALSE]
Tap(k) == << Press(k), Lift(k) >>
Motion == Lift("none")

PlacesOf(held, k) == {i \in DOMAIN held : held[i] = k}
Note(held, stroke) ==
  LET places == PlacesOf(held, stroke.key)
  IN CASE stroke.down                  -> Append(held, stroke.key)
       [] ~ stroke.down /\ places = {} -> held
       [] OTHER                        -> RemoveAt(held, Max(places))

\* After each stroke: what strokes leave down, and what is left once the lifts are noted.
Noting(strokes) ==
  LET held[n \in 0 .. Len(strokes)] ==
        IF n = 0 THEN << >> ELSE Note(held[n - 1], strokes[n])
  IN held
Unreleased(strokes) == Noting(strokes)[Len(strokes)]
NoteLift(held, stroke) == IF stroke.down THEN held ELSE Note(held, stroke)
Lifting(held, strokes) ==
  LET left[n \in 0 .. Len(strokes)] ==
        IF n = 0 THEN held ELSE NoteLift(left[n - 1], strokes[n])
  IN left
Lifted(held, strokes) == Lifting(held, strokes)[Len(strokes)]

Named == {Tap("a"), Tap("A"), << Press("A") >>, << Lift("A") >>, << Press("Shift") >>}
LiftsWhatItPressed(plan) ==
  \A n \in DOMAIN plan : plan[n].down \/ plan[n].key \in ToSet(Noting(plan)[n - 1])
MoreTyped(plans) == plans \union UNION {{plan \o k : k \in Named} : plan \in plans}
TypedIn[n \in 0 .. MaxKeystrokes] ==
  IF n = 0 THEN {<< >>} ELSE MoreTyped(TypedIn[n - 1])
TypePlans ==
  {plan \in TypedIn[MaxKeystrokes] \ {<< >>} : LiftsFirst \/ LiftsWhatItPressed(plan)}
DragPlan(points) ==
  << Motion, Press("left") >> \o [n \in 1 .. points |-> Motion] \o << Lift("left") >>
Pipes == {"keyboard", "pointer", "call"}
Plans == [keyboard |-> TypePlans,
          pointer  |-> {DragPlan(2), << Motion, Motion, Motion >>},
          call     |-> {<< Motion >>, << Motion >> \o Tap("left"), DragPlan(1)}]

(* The next chunk: take_keystrokes keeps a press and its release together. *)

Width(strokes) ==
  IF Len(strokes) > 1 /\ strokes[1].down /\ strokes[2] = Lift(strokes[1].key) THEN 2 ELSE 1
PastOne(strokes, i) ==
  IF i = Len(strokes) THEN i ELSE i + Width(SubSeq(strokes, i + 1, Len(strokes)))
ChunkEnds(strokes) ==
  LET end[n \in 0 .. ChunkKeystrokes] ==
        IF n = 0 THEN 0 ELSE PastOne(strokes, end[n - 1])
  IN end
TakeKeystrokes(strokes) == SubSeq(strokes, 1, ChunkEnds(strokes)[ChunkKeystrokes])
NextChunk ==
  CASE pipe = "keyboard" -> TakeKeystrokes(rest)
    [] pipe = "pointer"  -> SubSeq(rest, 1, IF Len(rest) < PointerBatch THEN Len(rest)
                                            ELSE PointerBatch)
    [] pipe = "call"     -> rest

(* From keysyms to keycodes, and the presses a chunk will make. *)

Events(stroke) ==
  IF stroke.key # "A" THEN << stroke >>
  ELSE IF stroke.down THEN << Press("Shift"), Press("a") >>
       ELSE << Lift("a"), Lift("Shift") >>
Expanded(strokes) == FlattenSeq([n \in DOMAIN strokes |-> Events(strokes[n])])

PressesOfStrokes(strokes) ==
  FlattenSeq([n \in DOMAIN strokes |->
                IF strokes[n].down THEN << strokes[n].key >> ELSE << >>])
PressesOf(stroke) ==
  CASE ~ stroke.down      -> << >>
    [] stroke = Press("A") -> << "Shift", "A" >>
    [] OTHER              -> << stroke.key >>
Presses(strokes) == FlattenSeq([n \in DOMAIN strokes |-> PressesOf(strokes[n])])

ReleaseInit ==
  /\ injecting = "idle" /\ pipe = "keyboard"
  /\ rest = << >> /\ chunk = << >> /\ sent = 0 /\ undo = << >>
  /\ noted = << >> /\ pressed = {} /\ refused = {} /\ faults = 0

\* The desktop takes an event, or loses it.
Takes(e) ==
  /\ pressed' = IF e.down THEN pressed \union {e.key} ELSE pressed \ {e.key}
  /\ refused' = refused \ {e.key}
Loses(e) ==
  /\ refused' = IF e.down THEN refused ELSE refused \union {e.key}
  /\ UNCHANGED pressed
Fault == faults < MaxFaults /\ faults' = faults + 1

\* mouse or type_keys holds the injection lock and arms the guard.
Injects ==
  /\ injecting = "idle"
  /\ \E p \in Pipes : pipe' = p /\ rest' \in Plans[p]
  /\ injecting' = "between"
  /\ UNCHANGED <<chunk, sent, undo, noted, pressed, refused, faults>>

\* The latch trips, the pipe does not open, or all is sent: the guard drops.
Stops ==
  /\ injecting = "between"
  /\ injecting' = "dropped"
  /\ UNCHANGED <<pipe, rest, chunk, sent, undo, noted, pressed, refused, faults>>

TakesChunk ==
  /\ injecting = "between" /\ rest # << >>
  /\ chunk' = NextChunk
  /\ noted' = noted \o Presses(chunk')
  /\ injecting' = "sending" /\ sent' = 0
  /\ UNCHANGED <<pipe, rest, undo, pressed, refused, faults>>

Sends ==
  /\ injecting = "sending" /\ sent < Len(Expanded(chunk))
  /\ Takes(Expanded(chunk)[sent + 1])
  /\ sent' = sent + 1
  /\ UNCHANGED <<injecting, pipe, rest, chunk, undo, noted, faults>>

\* An event fails, having reached the server or not: the pipe lifts what the
\* events before it left down.
EventFails ==
  /\ injecting = "sending" /\ sent < Len(Expanded(chunk))
  /\ Fault
  /\ \/ Takes(Expanded(chunk)[sent + 1])
     \/ Loses(Expanded(chunk)[sent + 1])
  /\ undo' = Unreleased(SubSeq(Expanded(chunk), 1, sent))
  /\ injecting' = "undoing"
  /\ UNCHANGED <<pipe, rest, chunk, sent, noted>>

\* The flush fails after every event was accepted: a pointer pipe lifts nothing.
FlushFails ==
  /\ injecting = "sending" /\ sent = Len(Expanded(chunk))
  /\ Fault
  /\ undo' = IF pipe = "pointer" THEN << >> ELSE Unreleased(Expanded(chunk))
  /\ injecting' = "undoing"
  /\ UNCHANGED <<pipe, rest, chunk, sent, noted, pressed, refused>>

ChunkIsSent ==
  /\ injecting = "sending" /\ sent = Len(Expanded(chunk))
  /\ noted' = Lifted(noted, chunk)
  /\ rest' = SubSeq(rest, Len(chunk) + 1, Len(rest))
  /\ injecting' = "between"
  /\ UNCHANGED <<pipe, chunk, sent, undo, pressed, refused, faults>>

\* release_keycodes and its like, last pressed first.
Undoes ==
  /\ injecting = "undoing"
  /\ IF undo = << >>
     THEN injecting' = "dropped" /\ UNCHANGED <<undo, pressed, refused, faults>>
     ELSE /\ \/ Takes(Lift(Last(undo))) /\ UNCHANGED faults
             \/ Loses(Lift(Last(undo))) /\ Fault
          /\ undo' = Front(undo)
          /\ UNCHANGED injecting
  /\ UNCHANGED <<pipe, rest, chunk, sent, noted>>

\* The task panics: what unwinds is the guard, not the pipe's clean-up.
Panics ==
  /\ injecting \in {"between", "sending", "undoing"}
  /\ injecting' = "dropped"
  /\ UNCHANGED <<pipe, rest, chunk, sent, undo, noted, pressed, refused, faults>>

\* release(): one desktop call per key held, each given up at its first fault.
Releases ==
  /\ injecting = "dropped"
  /\ IF noted = << >>
     THEN injecting' = "over" /\ UNCHANGED <<noted, pressed, refused, faults>>
     ELSE LET lifts == Expanded(<< Lift(Last(noted)) >>)
              keys(n) == {lifts[i].key : i \in 1 .. n}
          IN /\ \E taken \in 0 .. Len(lifts) :
                  LET lost == IF taken = Len(lifts) THEN {} ELSE {lifts[taken + 1].key}
                  IN /\ IF lost = {} THEN UNCHANGED faults ELSE Fault
                     /\ pressed' = pressed \ keys(taken)
                     /\ refused' = (refused \ keys(taken)) \union lost
             /\ noted' = Front(noted)
             /\ UNCHANGED injecting
  /\ UNCHANGED <<pipe, rest, chunk, sent, undo>>

ReleaseNext ==
  \/ Injects \/ Stops \/ TakesChunk \/ Sends \/ EventFails \/ FlushFails
  \/ ChunkIsSent \/ Undoes \/ Panics \/ Releases
ReleaseSpec == ReleaseInit /\ [][ReleaseNext]_releaseVars

-----------------------------------------------------------------------------

\* Every variable keeps its type (ReleaseGuard, the pipes of the X11 desktop).
ReleaseTypeOK ==
  /\ injecting \in {"idle", "between", "sending", "undoing", "dropped", "over"}
  /\ pipe \in Pipes
  /\ pressed \subseteq {"a", "Shift", "left"}
  /\ sent \in 0 .. Len(Expanded(chunk)) /\ faults \in 0 .. MaxFaults

\* However a request ends -- sent, paused between two chunks, refused at any
\* event or flush, panicking -- no key and no button it pressed is left down for
\* a later request, except one whose release the desktop itself lost: "A key or
\* button is not left down for a later request."
NothingStaysDown == injecting = "over" => pressed \subseteq refused
=============================================================================
