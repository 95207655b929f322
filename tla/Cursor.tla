------------------------------- MODULE Cursor -------------------------------
(***************************************************************************)
(* The bug cursor of the companion (companion/src/pointer.rs BugCursor,    *)
(* companion/src/window.rs sync_cursor and CursorGuard): a click-through   *)
(* window over a hidden system sprite or, where that does not work, a      *)
(* cursor on the root window, which every other program sees.  The         *)
(* companion has to take back what it changed on the user's display        *)
(* whenever the bug is not to be shown, and on the way out.                *)
(*                                                                         *)
(* A request that fails changes nothing on the server.  Which picture is   *)
(* shown is a model value; poses, hotspots and pixels are left out.        *)
(***************************************************************************)
EXTENDS Integers

CONSTANTS Pictures,   \* a pose and a frame of it
          MaxFailures   \* requests that fail

ASSUME CursorAssumption == MaxFailures \in Nat

VARIABLES
  display,  \* the server: root cursor, system sprite, overlay window
  cursor,   \* BugCursor
  wanted,   \* the newest frame wanted the bug, not the system cursor
  running,  \* the process: "yes", "out" past the guard, "killed"
  failures,   \* requests that failed so far
  lost      \* history: one of them was taking something back

CursorVars == << display, cursor, wanted, running, failures, lost >>

NoPicture == "none"
Displays == [root : {"user", "bug", "default"}, sprite : BOOLEAN,
             overlay : {"none", "unmapped", "mapped"}]

CursorInit ==
  /\ display = [root |-> "user", sprite |-> TRUE, overlay |-> "none"]
  /\ cursor = [shown |-> NoPicture, hidden |-> FALSE, rootSet |-> FALSE,
               overlay |-> FALSE, overlayOff |-> FALSE, off |-> FALSE]
  /\ wanted = FALSE /\ running = "yes" /\ failures = 0 /\ lost = FALSE

Both == [c |-> cursor, d |-> display]

FailsRequests(n) == failures + n <= MaxFailures /\ failures' = failures + n

-----------------------------------------------------------------------------
(* Each operator takes the cursor and the display, x, and returns both.    *)

\* reveal_sprite: the companion does not remember that the request failed.
Revealed(x, works) ==
  IF ~x.c.hidden THEN x
  ELSE [c |-> [x.c EXCEPT !.hidden = FALSE],
        d |-> IF works THEN [x.d EXCEPT !.sprite = TRUE] ELSE x.d]

Unmapped(x) == IF x.c.overlay THEN [x EXCEPT !.d.overlay = "unmapped"] ELSE x

RootRestored(x, works) ==
  IF ~x.c.rootSet THEN x
  ELSE [c |-> [x.c EXCEPT !.rootSet = FALSE],
        d |-> IF works THEN [x.d EXCEPT !.root = "default"] ELSE x.d]

\* Only what covers the pointer now is taken back.
RestoredAsShown(x, sprite, root) ==
  [IF x.c.hidden THEN Unmapped(Revealed(x, sprite)) ELSE RootRestored(x, root)
     EXCEPT !.c.shown = NoPicture]

\* restore, with which of its requests work.
Restored(x, sprite, root) ==
  [RootRestored(Unmapped(Revealed(x, sprite)), root) EXCEPT !.c.shown = NoPicture]

\* restore of the cursor as it is; the server has dropped or keeps the rest.
Restores(drops) ==
  \E sprite, root \in BOOLEAN :
    LET x == Restored(Both, sprite, root)
    IN  /\ cursor' = x.c
        /\ display' = IF drops THEN [x.d EXCEPT !.overlay = "none", !.sprite = TRUE] ELSE x.d
        /\ lost' = (lost \/ (cursor.hidden /\ ~sprite) \/ (cursor.rootSet /\ ~root))

\* present_overlay: the window is opened once and then kept.
Presented(x) == [c |-> [x.c EXCEPT !.overlay = TRUE], d |-> [x.d EXCEPT !.overlay = "mapped"]]

\* conceal_sprite.
Concealed(x) == [c |-> [x.c EXCEPT !.hidden = TRUE], d |-> [x.d EXCEPT !.sprite = FALSE]]

\* cover_pointer: how presenting goes, and whether hiding the sprite, or
\* showing it again, works.  A server without shapes is not asked again.
Covered(x, presents, conceals, reveals) ==
  CASE x.c.overlayOff -> x
    [] ~x.c.overlayOff /\ presents = "fails" -> Revealed(x, reveals)
    [] ~x.c.overlayOff /\ presents = "unsupported" ->
         Revealed([x EXCEPT !.c.overlayOff = TRUE], reveals)
    [] ~x.c.overlayOff /\ presents = "works" ->
         IF x.c.hidden \/ conceals THEN Concealed(Presented(x)) ELSE Unmapped(Presented(x))

Covers(x, presents, conceals) ==
  ~x.c.overlayOff /\ presents = "works" /\ (x.c.hidden \/ conceals)

-----------------------------------------------------------------------------
\* sync_cursor with a system pose, or without the visor.
FrameWithoutBug ==
  /\ running = "yes" /\ wanted' = FALSE
  /\ Restores(FALSE) /\ FailsRequests(IF lost' = lost THEN 0 ELSE 1)
  /\ UNCHANGED running

\* apply once the picture is made: the overlay, and the root where the overlay
\* does not cover the pointer.  An error of defining one makes the caller restore.
DrawsOver(picture, presents, conceals, reveals, defines) ==
  LET x == Covered(Both, presents, conceals, reveals)
      rooted == [c |-> [x.c EXCEPT !.rootSet = TRUE, !.shown = picture],
                 d |-> [x.d EXCEPT !.root = "bug"]]
      y == IF Covers(Both, presents, conceals) THEN [x EXCEPT !.c.shown = picture]
           ELSE IF defines THEN rooted ELSE Restored(x, TRUE, TRUE)
  IN  /\ cursor' = y.c /\ display' = y.d
      /\ FailsRequests((IF presents = "works" THEN 0 ELSE 1)
                 + (IF conceals THEN 0 ELSE 1) + (IF reveals THEN 0 ELSE 1)
                 + (IF defines THEN 0 ELSE 1))
      /\ lost' = (lost \/ ~reveals)

\* apply when there is something to draw: make_cursor, the companion's window,
\* then what covers the pointer.  A cursor that cannot be made is not tried again.
Draws(picture) ==
  \/ /\ cursor' = [cursor EXCEPT !.off = TRUE] /\ FailsRequests(1)
     /\ UNCHANGED << display, lost >>
  \/ Restores(FALSE) /\ FailsRequests(1)
  \/ \E presents \in {"works", "fails", "unsupported"}, conceals, reveals, defines \in BOOLEAN :
       DrawsOver(picture, presents, conceals, reveals, defines)

\* sync_cursor with a picture to show: what is shown already is not drawn.
FrameWithBug(picture) ==
  /\ running = "yes" /\ wanted' = TRUE
  /\ IF cursor.off \/ cursor.shown = picture
     THEN UNCHANGED << cursor, display, failures, lost >>
     ELSE Draws(picture)
  /\ UNCHANGED running

\* A signal, an error of the frame loop or a panic: CursorGuard's Drop runs.
GoesOut ==
  /\ running = "yes" /\ running' = "out" /\ wanted' = FALSE
  /\ Restores(TRUE) /\ FailsRequests(IF lost' = lost THEN 0 ELSE 1)

\* Killed: the server drops the connection, its windows and its hidden sprite.
IsKilled ==
  /\ running = "yes" /\ running' = "killed" /\ wanted' = FALSE
  /\ display' = [display EXCEPT !.overlay = "none", !.sprite = TRUE]
  /\ UNCHANGED << cursor, failures, lost >>

CursorNext ==
  \/ FrameWithoutBug \/ GoesOut \/ IsKilled
  \/ \E picture \in Pictures : FrameWithBug(picture)

CursorSpec == CursorInit /\ [][CursorNext]_CursorVars

-----------------------------------------------------------------------------
(* Properties.                                                             *)

\* Every variable keeps its type (BugCursor).
CursorTypeOK ==
  /\ display \in Displays
  /\ cursor \in [shown : Pictures \cup {NoPicture}, hidden : BOOLEAN, rootSet : BOOLEAN,
                 overlay : BOOLEAN, overlayOff : BOOLEAN, off : BOOLEAN]
  /\ {wanted, lost} \subseteq BOOLEAN /\ running \in {"yes", "out", "killed"}
  /\ failures \in 0..MaxFailures

\* When the bug is not wanted the user has the display back: the sprite shows,
\* no overlay covers it, and the root has no bug, whatever failed while the bug
\* was drawn.  A request that fails in restore is the exception, and a kill
\* leaves the root as it is (restore, CursorGuard).
DisplayIsGivenBack ==
  ~wanted /\ ~lost =>
    /\ display.sprite /\ display.overlay # "mapped"
    /\ running # "killed" => display.root # "bug"
=============================================================================
