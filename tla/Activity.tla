------------------------------- MODULE Activity -------------------------------
(***************************************************************************)
(* The lines of a session's feed: what was typed, asked and focused, noted *)
(* as it happens and redacted with the secrets the vault holds then, and   *)
(* redacted again when the feed is read (note, note_focus and redact of    *)
(* session.rs, type_keys and session_feed of api.rs, redact of vault.rs).  *)
(* A typed text is redacted before the desktop is driven and noted after,  *)
(* so a secret may come in between, or after the line.                     *)
(*                                                                         *)
(* A text is a sequence of symbols; Break stands for a control character,  *)
(* Blot for the stars that replace a value.  The trimming of a line is     *)
(* left out.                                                               *)
(***************************************************************************)
EXTENDS Integers, Sequences, SequencesExt

CONSTANTS VaultValues,  \* the values a session may be given
          NotedTexts,   \* what may be typed or asked for
          Labels,       \* of the focused window
          ValueLeast,   \* shorter values are left alone
          LineMost,     \* what a line is cut to
          ActivityCap,  \* ACTIVITY_CAP
          MaxNotes      \* bound: lines noted

Break == "/"
Blot == "*"

VARIABLES
  vault,     \* the values of the session, in the order they came
  lines,     \* Session::activity
  lastFocus, \* Session::last_focus
  typing,    \* what a type request under way will note
  noteCount  \* how many lines were noted

ActivityVars == << vault, lines, lastFocus, typing, noteCount >>

Nothing == << >>

ActivityInit ==
  /\ vault = << >> /\ lines = << >> /\ lastFocus = Nothing /\ typing = Nothing
  /\ noteCount = 0

-----------------------------------------------------------------------------
(* Redaction by value.                                                     *)

\* value stands in t from place i on.
StandsAt(t, i, value) == i + Len(value) - 1 <= Len(t) /\ SubSeq(t, i, i + Len(value) - 1) = value
Carries(t, value) == \E i \in DOMAIN t : StandsAt(t, i, value)

\* str::replace, from the left and without overlap.
Replaced(t, value) ==
  FoldLeft(LAMBDA sofar, i :
             IF i < sofar.next THEN sofar
             ELSE IF StandsAt(t, i, value)
             THEN [out |-> Append(sofar.out, Blot), next |-> i + Len(value)]
             ELSE [out |-> Append(sofar.out, t[i]), next |-> i + 1],
           [out |-> << >>, next |-> 1], [i \in DOMAIN t |-> i]).out

\* Vault::redact: one value after the other.
RedactValues(t) ==
  FoldLeft(LAMBDA out, value : IF Len(value) < ValueLeast THEN out ELSE Replaced(out, value),
           t, vault)

-----------------------------------------------------------------------------
(* Notes.                                                                  *)

Clean(t) ==
  [i \in 1..IF Len(t) < LineMost THEN Len(t) ELSE LineMost |->
     IF t[i] = Break THEN " " ELSE t[i]]

KeptAtCap == IF Len(lines) > ActivityCap THEN Tail(lines) ELSE lines

\* Session::note: the oldest line makes room.
Kept == IF Len(lines) >= ActivityCap THEN Tail(lines) ELSE lines

NoteLine(kind, t) ==
  LET line == [kind |-> kind, text |-> Clean(RedactValues(t))]
  IN lines' = IF line.text = << >> THEN lines ELSE Append(Kept, line)

Notes(kind, t) == noteCount < MaxNotes /\ noteCount' = noteCount + 1 /\ NoteLine(kind, t)

\* push_secret: the handle is noted, never the value.
GetsSecret ==
  /\ \E value \in VaultValues \ ToSet(vault) : vault' = Append(vault, value)
  /\ UNCHANGED << lines, lastFocus, typing, noteCount >>

\* push_prompt, push_file and mcp_call.
IsAskedFor ==
  /\ \E t \in NotedTexts : Notes("prompt", t)
  /\ UNCHANGED << vault, lastFocus, typing >>

\* view and watch.
SeesFocus ==
  /\ \E label \in Labels \ {lastFocus} : lastFocus' = label /\ Notes("focus", label)
  /\ UNCHANGED << vault, typing >>

\* type_keys, before the desktop is driven, and after.
BeginsTyping ==
  /\ typing = Nothing /\ \E t \in NotedTexts : typing' = RedactValues(t)
  /\ UNCHANGED << vault, lines, lastFocus, noteCount >>

\* A request that was paused or has failed notes nothing.
EndsTyping ==
  /\ typing # Nothing /\ typing' = Nothing
  /\ \/ Notes("type", typing)
     \/ UNCHANGED << lines, noteCount >>
  /\ UNCHANGED << vault, lastFocus >>

\* session_feed, under the lock of the sessions.
AsNoted(t) == t
Shows(t) == RedactValues(t)

Document == [i \in DOMAIN lines |-> [lines[i] EXCEPT !.text = Shows(lines[i].text)]]

ActivityNext ==
  GetsSecret \/ IsAskedFor \/ SeesFocus \/ BeginsTyping \/ EndsTyping
ActivitySpec == ActivityInit /\ [][ActivityNext]_ActivityVars

-----------------------------------------------------------------------------
\* Every variable keeps its type (Activity, FeedLine).
ActivityTypeOK ==
  /\ \A i \in DOMAIN vault : vault[i] \in VaultValues
  /\ \A i \in DOMAIN lines : lines[i].kind \in {"prompt", "focus", "type"}
  /\ Len(lines) <= ActivityCap /\ noteCount \in 0..MaxNotes
  /\ lastFocus \in Labels \cup {Nothing}

\* No value the vault holds is on the document whenever it is made ("Secret values and file
\* bytes are not on this document"), whether it came before the text, while it was
\* typed, or after the line was noted and cut; a line without one is shown as it is.
FeedShowsNoSecret ==
  LET secret == {n \in DOMAIN vault : Len(vault[n]) >= ValueLeast}
  IN \A i \in DOMAIN lines :
       /\ \A n \in secret : ~Carries(Document[i].text, vault[n])
       /\ (\A n \in secret : ~Carries(lines[i].text, vault[n])) => Document[i] = lines[i]
=============================================================================
