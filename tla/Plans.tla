-------------------------------- MODULE Plans --------------------------------
(***************************************************************************)
(* What a mouse request makes the pointer do: the numbers it may hold      *)
(* (mouse in api.rs), the steps it is turned into (input.rs) and what is   *)
(* recorded of it.  Module Release cuts such a plan into chunks; here each *)
(* step is sent by itself, and between two of them the latch may trip.     *)
(*                                                                         *)
(* A request is [action, at, to, delta]; a point is its two coordinates.   *)
(* The sums and products are 64 bit in the code and stay far below that.   *)
(***************************************************************************)
EXTENDS Integers, Sequences, FiniteSets

CONSTANTS AxisMin, AxisMax,  \* pointer_axis_in_bounds of the backend
          MaxTicks,          \* SCROLL_MAX_TICKS
          DragStep,          \* DRAG_STEP_PX
          DragCap,           \* DRAG_STEP_CAP
          RootSize,          \* root_size: the width and the height
          RequestsTried      \* the requests tried

\* Only a drag goes elsewhere than where it begins (the body of a request has one point).
ASSUME PlansAssumption ==
  /\ DragStep \in Nat \ {0} /\ {DragCap, MaxTicks} \subseteq Nat
  /\ \A r \in RequestsTried :
       /\ {r.at, r.to, r.delta} \subseteq [1..2 -> Int] /\ r.action \in {"move", "click", "scroll", "drag"}
       /\ r.action # "drag" => r.to = r.at

VARIABLES
  request,  \* the request at hand
  walked,   \* how many steps of its plan were sent
  fate,     \* how far it has got
  recorded  \* the request as the gate records it

planVars == << request, walked, fate, recorded >>

-----------------------------------------------------------------------------
(* Numbers.                                                                *)

Abs(n) == IF n < 0 THEN -n ELSE n
Span(p, q) ==
  IF Abs(q[1] - p[1]) < Abs(q[2] - p[2]) THEN Abs(q[2] - p[2]) ELSE Abs(q[1] - p[1])

\* The quotient of Rust, towards zero.
Quotient(n, d) == IF n < 0 THEN -((-n) \div d) ELSE n \div d

InBounds(r) == \A p \in {r.at, r.to}, i \in 1..2 : AxisMin <= p[i] /\ p[i] <= AxisMax
OnRoot(r) == \A p \in {r.at, r.to}, i \in 1..2 : 0 <= p[i] /\ p[i] < RootSize[i]

\* scroll_tick_count: both axes together.
TicksFit(delta) == Abs(delta[1]) + Abs(delta[2]) \in 1..MaxTicks

PointsOfWholeSteps(r) ==
  IF Span(r.at, r.to) <= DragStep THEN 1 ELSE Span(r.at, r.to) \div DragStep

\* drag_point_count.
PointCount(r) ==
  IF Span(r.at, r.to) <= DragStep THEN 1
  ELSE (Span(r.at, r.to) + DragStep - 1) \div DragStep

\* DragWaypoints::next.
Waypoint(r, n) ==
  [i \in 1..2 |-> r.at[i] + Quotient((r.to[i] - r.at[i]) * n, PointCount(r))]

-----------------------------------------------------------------------------
(* Plans.                                                                  *)

Move(p) == [step |-> "move", to |-> p]
Turn(what) == [step |-> what, to |-> << 0, 0 >>]
WheelTurns(delta, back, forth) ==
  [n \in 1..Abs(delta) |-> Turn(IF delta < 0 THEN back ELSE forth)]

\* scroll_steps, drag_steps, and the one call of a click or a move.
StepsOf(r) ==
  CASE r.action = "move"   -> << Move(r.at) >>
    [] r.action = "click"  -> << Move(r.at), Turn("press"), Turn("lift") >>
    [] r.action = "scroll" -> << Move(r.at) >> \o WheelTurns(r.delta[1], "left", "right")
                                \o WheelTurns(r.delta[2], "up", "down")
    [] r.action = "drag"   -> << Move(r.at), Turn("press") >>
                                \o [n \in 1..PointCount(r) |-> Move(Waypoint(r, n))]
                                \o << Turn("lift") >>

\* mouse refuses these before anything waits for the desktop.
OutOfRange(r) ==
  \/ ~InBounds(r)
  \/ (r.action = "drag" /\ PointCount(r) > DragCap)
  \/ (r.action = "scroll" /\ ~TicksFit(r.delta))

\* with_reached: where the pointer was found afterwards, if it was found.
Reached(r, at) == IF r.action = "drag" THEN [r EXCEPT !.to = at]
                  ELSE [r EXCEPT !.at = at, !.to = at]

PlansInit ==
  /\ request \in RequestsTried /\ walked = 0 /\ fate = "asked" /\ recorded = {}

\* Under the injection lock the root is measured, if the desktop can.
Judges ==
  /\ fate = "asked"
  /\ \E measured \in BOOLEAN :
       fate' = IF OutOfRange(request) \/ (measured /\ ~OnRoot(request))
               THEN "refused" ELSE "walks"
  /\ UNCHANGED << request, walked, recorded >>

Steps ==
  /\ fate = "walks" /\ walked < Len(StepsOf(request)) /\ walked' = walked + 1
  /\ UNCHANGED << request, fate, recorded >>

\* The latch trips, before a step or after the last.
IsPaused ==
  /\ fate = "walks" /\ fate' = "paused" /\ UNCHANGED << request, walked, recorded >>

\* Where the steps sent so far have taken the pointer.
MovesAt(r, n) == {i \in 1..n : StepsOf(r)[i].step = "move"}
Pointer(r, n) ==
  LET moves == MovesAt(r, n) IN StepsOf(r)[CHOOSE i \in moves : \A j \in moves : j <= i].to

\* The position read afterwards is the pointer's, or another the user took it to.
IsRecorded ==
  /\ fate = "walks" /\ walked = Len(StepsOf(request)) /\ fate' = "done"
  /\ recorded' \in {{request}} \cup
       {{Reached(request, at)} : at \in {Pointer(request, walked), << 0, 0 >>}}
  /\ UNCHANGED << request, walked >>

PlansNext == Judges \/ Steps \/ IsPaused \/ IsRecorded
PlansSpec == PlansInit /\ [][PlansNext]_planVars

-----------------------------------------------------------------------------
\* Every variable keeps its type (MouseOp, PointerStep), and no more steps are sent
\* than were planned.
PlansTypeOK ==
  /\ request \in RequestsTried /\ fate \in {"asked", "refused", "walks", "paused", "done"}
  /\ walked \in 0..Len(StepsOf(request)) /\ (fate # "done" <=> recorded = {})

Between(a, b, c) == (a <= b /\ b <= c) \/ (c <= b /\ b <= a)

\* A plan that is begun can be walked: a drag goes from its start to its end in hops
\* of at most DRAG_STEP_PX ("A drag longer than this, in Chebyshev pixels, is sent as
\* separate steps"), never leaves the rectangle of the two, so stays on a root that
\* holds both, and has no more points than the cap; a scroll turns the wheel exactly as
\* often as asked, across before along ("horizontal then vertical").
PlanIsWalked ==
  fate \in {"walks", "paused", "done"} =>
    LET steps == StepsOf(request)
        moves == MovesAt(request, walked)
        turns == {i \in 1..walked : steps[i].step \in {"left", "right", "up", "down"}}
        across == Abs(request.delta[1])
    IN /\ \A i \in moves, c \in 1..2 : Between(request.at[c], steps[i].to[c], request.to[c])
       /\ \A i \in moves, j \in moves :
            i < j /\ (\A k \in moves : k <= i \/ j <= k) => Span(steps[i].to, steps[j].to) <= DragStep
       /\ Cardinality(moves) <= DragCap + 1 /\ Cardinality(turns) <= MaxTicks
       /\ \A i \in turns :
            steps[i].step \in {"left", "right"} <=> Cardinality({j \in turns : j <= i}) <= across
       /\ walked = Len(steps) =>
            /\ Pointer(request, walked) = request.to
            /\ request.action = "scroll" => Cardinality(turns) = across + Abs(request.delta[2])
=============================================================================
