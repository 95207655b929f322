------------------------------ MODULE Listening ------------------------------
(***************************************************************************)
(* The sound of the desktop, recorded for whoever listens (listen and      *)
(* audio_loop of api.rs, audio.rs): a request opens a recorder, a thread   *)
(* of its own reads it and sends the chunks through a small channel, and   *)
(* the session may be closed, or the listener leave, at any point.         *)
(*                                                                         *)
(* A chunk is known by its number.  The bytes, the loading of libpulse and *)
(* its symbols, and the text of an error are left out; opening and reading *)
(* may fail.                                                               *)
(***************************************************************************)
EXTENDS Integers, Sequences

CONSTANTS Hearers,   \* requests to listen
          ChannelCap,  \* chunks the channel holds
          MaxRecorded  \* bound: chunks one recorder gives

VARIABLES
  sessionOpen, \* the session is in AppState::sessions
  listener     \* the requests: how far, whether the recorder (pc from "opened" on) is
               \* open, the channel, and whether the body of the response is still there

listeningVars == << sessionOpen, listener >>

Silent == [pc |-> "ask", recorder |-> FALSE, there |-> TRUE, broken |-> FALSE,
           recorded |-> 0,           \* chunks read, and the error
           sent |-> 0, heard |-> 0,  \* what was put into the channel and taken out
           late |-> 0]               \* chunks recorded after the close (a history)

ListeningInit == sessionOpen = TRUE /\ listener = [l \in Hearers |-> Silent]

Now(l) == listener[l].pc
Becomes(l, state) == listener' = [listener EXCEPT ![l] = state] /\ UNCHANGED sessionOpen

LeavesItRecording(l) == [listener[l] EXCEPT !.pc = "over"]

\* The thread is over: the recorder is dropped, and with it the Pulse handle.
Quiet(l) == [listener[l] EXCEPT !.recorder = FALSE, !.pc = "over"]

-----------------------------------------------------------------------------
(* listen.                                                                 *)

\* mark_verb finds the session or refuses.
AsksToListen(l) ==
  /\ Now(l) = "ask"
  /\ Becomes(l, [listener[l] EXCEPT !.pc = IF sessionOpen THEN "open" ELSE "refused"])

\* open_audio, on a blocking thread.
OpensAudio(l) ==
  /\ Now(l) = "open"
  /\ \/ Becomes(l, [listener[l] EXCEPT !.pc = "opened", !.recorder = TRUE])
     \/ Becomes(l, [listener[l] EXCEPT !.pc = "refused"])

\* The session may be gone by now, or nobody wait for the answer any more.
BeginsStream(l) ==
  /\ Now(l) = "opened"
  /\ Becomes(l, IF sessionOpen /\ listener[l].there THEN [listener[l] EXCEPT !.pc = "check"]
                ELSE [listener[l] EXCEPT !.pc = "refused", !.recorder = FALSE])

-----------------------------------------------------------------------------
(* audio_loop.                                                             *)

NeverRechecks(l) ==
  /\ Now(l) = "check"
  /\ Becomes(l, [listener[l] EXCEPT !.pc = "read"])

ChecksSession(l) ==
  /\ Now(l) = "check"
  /\ Becomes(l, IF sessionOpen THEN [listener[l] EXCEPT !.pc = "read"] ELSE Quiet(l))

\* read_chunk: a chunk, an error that is sent in its place, or the end of a fixture.
Records(l) ==
  /\ Now(l) = "read"
  /\ \/ /\ listener[l].recorded < MaxRecorded
        /\ Becomes(l, [listener[l] EXCEPT !.pc = "send", !.recorded = @ + 1,
                                          !.late = @ + IF sessionOpen THEN 0 ELSE 1])
     \/ Becomes(l, [listener[l] EXCEPT !.pc = "send", !.recorded = @ + 1, !.broken = TRUE])
     \/ Becomes(l, Quiet(l))

InChannel(l) == listener[l].sent - listener[l].heard

\* blocking_send: waits for room, and fails once the receiver is gone.
Sends(l) ==
  /\ Now(l) = "send"
  /\ listener[l].there => InChannel(l) < ChannelCap
  /\ Becomes(l, IF ~listener[l].there THEN Quiet(l)
                ELSE IF listener[l].broken THEN [Quiet(l) EXCEPT !.sent = @ + 1]
                ELSE [listener[l] EXCEPT !.sent = @ + 1, !.pc = "check"])

-----------------------------------------------------------------------------
(* Whoever listens, and the session.                                       *)

Hears(l) ==
  /\ listener[l].there /\ InChannel(l) > 0
  /\ Becomes(l, [listener[l] EXCEPT !.heard = @ + 1])

\* A request that is still being opened goes on by itself until BeginsStream.
Leaves(l) ==
  /\ listener[l].there
  /\ Becomes(l, [listener[l] EXCEPT !.there = FALSE])

ClosesSession == sessionOpen /\ sessionOpen' = FALSE /\ UNCHANGED listener

ThreadSteps(l) ==
  AsksToListen(l) \/ OpensAudio(l) \/ BeginsStream(l) \/ ChecksSession(l) \/ Records(l) \/ Sends(l)

ListeningNext ==
  \/ \E l \in Hearers : ThreadSteps(l) \/ Hears(l) \/ Leaves(l)
  \/ ClosesSession

\* Threads and reads of a recorder go on; a listener takes what there is.  Nothing makes
\* one who neither reads nor leaves give up.
ListeningFairness ==
  \A l \in Hearers : WF_listeningVars(ThreadSteps(l)) /\ WF_listeningVars(Hears(l))

ListeningSpec == ListeningInit /\ [][ListeningNext]_listeningVars /\ ListeningFairness

-----------------------------------------------------------------------------
\* Every variable keeps its type (listen, audio_loop).
ListeningTypeOK ==
  /\ sessionOpen \in BOOLEAN
  /\ \A l \in Hearers :
       /\ listener[l].pc \in {"ask", "open", "opened", "check", "read", "send", "over", "refused"}
       /\ InChannel(l) \in 0..ChannelCap /\ listener[l].recorded \in 0..MaxRecorded + 1

\* What a recorder gives belongs to the session that asked for it: of what is recorded
\* after the close only the chunk whose reading had been decided on can reach the channel,
\* and it is the last; a session that is closed while the recorder is opened hears
\* nothing; and every chunk recorded for a listener who stays is heard or still in the
\* channel, the error after all of them ("Calls without a live session fail").
SoundIsForASession ==
  \A l \in Hearers :
    LET q == listener[l] IN
      /\ q.late <= 1 /\ (q.late = 1 => Now(l) \in {"send", "check", "over"})
      /\ Now(l) = "refused" => q.recorded = 0 /\ ~q.recorder
      /\ q.there => q.recorded = q.sent + IF Now(l) = "send" THEN 1 ELSE 0
      /\ q.broken => Now(l) \in {"send", "over"}

\* Once the session is closed every recorder is given back, whatever its thread was doing
\* then, if the channel keeps moving (audio_loop, Drop of Recorder).
RecordersAreGivenBack == \A l \in Hearers : ~sessionOpen ~> ~listener[l].recorder
=============================================================================
