------------------------------- MODULE Clients -------------------------------
(***************************************************************************)
(* What the doors, the calls of MCP tools, the recorders and the views of  *)
(* a desktop promise those who use them.  The four share no variable: each *)
(* moves by its own steps, and the promises are of all of them at once.    *)
(***************************************************************************)
EXTENDS Listening, Portal, ToolCalls, Access

\* What is read of the desktop is for the session that asked, and of the time it asked:
\* SoundIsForASession of listen, ViewsAreOfNow of the screenshot portal.
DesktopIsReadForItsSession == SoundIsForASession /\ ViewsAreOfNow

\* What is done is done for this user and is on record: AccessIsOwn of the doors of the
\* visor, CallsAreAudited of the calls of MCP tools.
RequestsAreOwn == AccessIsOwn /\ CallsAreAudited
=============================================================================
