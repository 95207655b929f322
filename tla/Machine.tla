------------------------------- MODULE Machine -------------------------------
(***************************************************************************)
(* The companion's view of the automation (companion/src/automation.rs,    *)
(* struct Machine): a record and one operator per method.  The effect a    *)
(* method returns is a predicate on the machine it is called on.           *)
(*                                                                         *)
(* The idle clock is reduced to quiet: whether resume_after_ms has passed  *)
(* since last_input_ms.  pause_epoch is only ever compared with the value  *)
(* it had when the frame began, so it is kept as fresh: a pause has begun  *)
(* since then.  A process nonce is a positive number, 0 is None.           *)
(***************************************************************************)
EXTENDS Integers

MachinePhases == {"off", "running", "paused"}

Machines ==
  [phase : MachinePhases, asking : BOOLEAN, holding : BOOLEAN, lastSeq : Nat,
   mark : Nat, fresh : BOOLEAN, seen : Nat, quiet : BOOLEAN]

NewMachine ==
  [phase |-> "off", asking |-> FALSE, holding |-> FALSE, lastSeq |-> 0,
   mark |-> 0, fresh |-> FALSE, seen |-> 0, quiet |-> FALSE]

\* now says whether the idle clock restarts with this pause.
EnterPaused(m, now) ==
  IF m.phase = "paused" THEN m
  ELSE [m EXCEPT !.phase = "paused", !.fresh = TRUE, !.asking = FALSE,
                 !.quiet = @ /\ ~now]

\* A running report lifts a pause only with a sequence newer than the pause.
Follows(m, seq) == m.phase = "off" \/ (m.phase = "paused" /\ seq > m.mark)

SeeRunning(m, seq) ==
  LET heard == [m EXCEPT !.lastSeq = seq, !.holding = FALSE]
  IN  IF Follows(m, seq)
      THEN [heard EXCEPT !.phase = "running", !.asking = FALSE]
      ELSE heard

\* A paused report a resume in flight has not reached yet.
IsStale(m, seq) == m.holding /\ seq <= m.mark

SeePaused(m, seq) ==
  LET heard == [m EXCEPT !.lastSeq = seq]
      paused == [EnterPaused(heard, TRUE) EXCEPT !.holding = FALSE]
  IN  IF IsStale(m, seq) THEN heard
      ELSE IF m.phase # "paused" \/ seq > m.mark
           THEN [paused EXCEPT !.mark = seq]
           ELSE paused

SeeVisor(m, phase, seq) ==
  CASE phase = "off" -> [m EXCEPT !.lastSeq = seq, !.phase = "off",
                                  !.asking = FALSE, !.holding = FALSE]
    [] phase = "running" -> SeeRunning(m, seq)
    [] phase = "paused" -> SeePaused(m, seq)

\* Effect::Pause of user_input.
PausesOnInput(m) == m.phase = "running"

UserInput(m) ==
  CASE m.phase = "running" ->
         [EnterPaused(m, TRUE) EXCEPT !.holding = FALSE, !.mark = m.lastSeq]
    [] m.phase = "paused" -> [m EXCEPT !.quiet = FALSE]
    [] m.phase = "off" -> m

Ask(m) == IF m.phase = "paused" THEN [m EXCEPT !.asking = TRUE, !.quiet = FALSE]
          ELSE m

Dismiss(m) == IF m.asking THEN [m EXCEPT !.asking = FALSE, !.quiet = FALSE] ELSE m

\* Effect::Resume of continue_now and of poll.
ResumesOnContinue(m) == m.phase = "paused" /\ m.asking
ResumesOnTimer(m) == m.phase = "paused" /\ m.quiet

Resumed(m) == [m EXCEPT !.phase = "running", !.asking = FALSE, !.holding = TRUE]

\* A nonce this machine has compared sequences of and that is gone.
Restarted(m, instance) == m.seen \notin {0, instance}

NoteInstanceKeepsMark(m, instance, seq) == [m EXCEPT !.seen = instance]

NoteInstance(m, instance, seq) ==
  IF Restarted(m, instance)
  THEN [m EXCEPT !.seen = instance, !.lastSeq = seq, !.holding = FALSE,
                 !.mark = IF m.phase = "paused" THEN seq ELSE 0]
  ELSE [m EXCEPT !.seen = instance]

NoteDisconnect(m) ==
  IF m.holding THEN [EnterPaused(m, FALSE) EXCEPT !.holding = FALSE]
  ELSE IF m.phase = "paused" THEN m
  ELSE [m EXCEPT !.phase = "off", !.asking = FALSE]
=============================================================================
