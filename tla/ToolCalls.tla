------------------------------- MODULE ToolCalls -------------------------------
(***************************************************************************)
(* Calls of a tool of an attached server, approved or denied (mcp_call and *)
(* list_mcp_audit of api.rs, audit.rs, call_tool of stdio.rs).  The table  *)
(* of sessions is locked for the whole call, the audit row is written      *)
(* after it, and the line in the session's feed after that.                *)
(*                                                                         *)
(* One session with one server, whose slot Attachments models in full: here *)
(* it is listed, stale after an announced change, taken by a refresh, or   *)
(* disconnected by a failed call.                                          *)
(***************************************************************************)
EXTENDS Integers, Sequences, FiniteSets

CONSTANTS ToolRequests, \* requests to POST mcp/call
          MaxSlotMoves  \* bound: how often the slot changes by itself

VARIABLES
  inTable,  \* whether the session is in AppState::sessions
  tableLock,\* who holds the lock of the sessions across steps, or Nobody
  toolSlot, \* AttachedServer
  asked,    \* the requests: how far, what was decided, how the call ended
  mcpAudit, \* AppState::mcp_audit
  feedNotes,\* the lines noted in the session's feed
  slotMoves,
  calledIn  \* by request: whether the session was in the table as its call was sent (a
            \* history)

toolVars == << inTable, tableLock, toolSlot, asked, mcpAudit, feedNotes, slotMoves, calledIn >>

Nobody == "nobody"

ASSUME ToolAssumption == Nobody \notin ToolRequests

Unsent == "unsent"
Decisions == {"approve", "deny", "other"}
NewCall == [pc |-> "decide", decision |-> "none", outcome |-> "none"]

ToolInit ==
  /\ inTable = TRUE /\ tableLock = Nobody /\ toolSlot = "listed" /\ slotMoves = 0
  /\ asked = [r \in ToolRequests |-> NewCall]
  /\ mcpAudit = << >> /\ feedNotes = {} /\ calledIn = [r \in ToolRequests |-> Unsent]

HasCome(r, pc) == asked[r].pc = pc
GoesOn(r, pc) == asked' = [asked EXCEPT ![r].pc = pc]
Row(r, decision, outcome) ==
  mcpAudit' = Append(mcpAudit, [of |-> r, decision |-> decision, outcome |-> outcome])

-----------------------------------------------------------------------------
(* mcp_call.                                                               *)

\* The decision is read, and the names are not blank, before anything is done.
IsDecidedOn(r) ==
  /\ HasCome(r, "decide")
  /\ \E decision \in Decisions, named \in BOOLEAN :
       asked' = [asked EXCEPT ![r].decision = decision,
                              ![r].pc = IF decision = "other" \/ ~named THEN "rejected"
                                        ELSE IF decision = "deny" THEN "record" ELSE "lock",
                              ![r].outcome = IF decision = "deny" THEN "denied" ELSE "none"]
  /\ UNCHANGED << inTable, tableLock, toolSlot, mcpAudit, feedNotes, slotMoves, calledIn >>

FindsAndLetsGo(r) ==
  /\ HasCome(r, "lock") /\ tableLock = Nobody
  /\ GoesOn(r, IF inTable THEN "call" ELSE "rejected") /\ UNCHANGED tableLock
  /\ UNCHANGED << inTable, toolSlot, mcpAudit, feedNotes, slotMoves, calledIn >>

\* A session that is gone is 404, without a row.
LocksTable(r) ==
  /\ HasCome(r, "lock") /\ tableLock = Nobody
  /\ GoesOn(r, IF inTable THEN "call" ELSE "rejected")
  /\ tableLock' = IF inTable THEN r ELSE Nobody
  /\ UNCHANGED << inTable, toolSlot, mcpAudit, feedNotes, slotMoves, calledIn >>

\* call_tool sends nothing for a tool that is not listed (a slot that was taken lists
\* none), for a catalog that is stale, or without a connection.
Ready == toolSlot = "listed"

CallsTool(r) ==
  /\ HasCome(r, "call")
  /\ \/ /\ Ready /\ GoesOn(r, "answer")
        /\ calledIn' = [calledIn EXCEPT ![r] = IF inTable THEN "open" ELSE "closed"]
     \/ \* not ready, or a tool the server does not list, or lists as a task only
        /\ asked' = [asked EXCEPT ![r].pc = "unlock", ![r].outcome = "failed"]
        /\ UNCHANGED calledIn
  /\ UNCHANGED << inTable, tableLock, toolSlot, mcpAudit, feedNotes, slotMoves >>

\* A result, a rejection, or a failure that ends the connection.
IsAnsweredByTool(r) ==
  /\ HasCome(r, "answer")
  /\ \E outcome \in {"ok", "failed"} :
       asked' = [asked EXCEPT ![r].pc = "unlock", ![r].outcome = outcome]
  /\ \/ UNCHANGED toolSlot
     \/ asked'[r].outcome = "failed" /\ toolSlot' = "gone"
  /\ UNCHANGED << inTable, tableLock, mcpAudit, feedNotes, slotMoves, calledIn >>

LetsGo(r) ==
  /\ HasCome(r, "unlock") /\ GoesOn(r, "record") /\ tableLock' = Nobody
  /\ UNCHANGED << inTable, toolSlot, mcpAudit, feedNotes, slotMoves, calledIn >>

RecordsCall(r) ==
  /\ HasCome(r, "record") /\ Row(r, asked[r].decision, asked[r].outcome) /\ GoesOn(r, "note")
  /\ UNCHANGED << inTable, tableLock, toolSlot, feedNotes, slotMoves, calledIn >>

\* note, if the session is still there.
NotesCall(r) ==
  /\ HasCome(r, "note") /\ tableLock = Nobody /\ GoesOn(r, "done")
  /\ feedNotes' = IF inTable THEN feedNotes \cup {r} ELSE feedNotes
  /\ UNCHANGED << inTable, tableLock, toolSlot, mcpAudit, slotMoves, calledIn >>

-----------------------------------------------------------------------------
(* The rest of the visor, which needs the table, and the server.           *)

ClosesIt ==
  /\ inTable /\ tableLock = Nobody /\ inTable' = FALSE
  /\ feedNotes' = {}  \* they go with the session
  /\ UNCHANGED << tableLock, toolSlot, asked, mcpAudit, slotMoves, calledIn >>

\* take_for_refresh, and restore_after_refresh of a server that answered or did not.
Refreshes ==
  /\ inTable /\ tableLock = Nobody /\ slotMoves < MaxSlotMoves /\ slotMoves' = slotMoves + 1
  /\ toolSlot' \in IF toolSlot = "taken" THEN {"listed", "gone"} ELSE {"taken"}
  /\ UNCHANGED << inTable, tableLock, asked, mcpAudit, feedNotes, calledIn >>

AnnouncesChange ==
  /\ toolSlot = "listed" /\ slotMoves < MaxSlotMoves /\ slotMoves' = slotMoves + 1
  /\ toolSlot' = "stale"
  /\ UNCHANGED << inTable, tableLock, asked, mcpAudit, feedNotes, calledIn >>

ToolNext ==
  \/ \E r \in ToolRequests :
       \/ IsDecidedOn(r) \/ LocksTable(r) \/ CallsTool(r) \/ IsAnsweredByTool(r) \/ LetsGo(r)
       \/ RecordsCall(r) \/ NotesCall(r)
  \/ ClosesIt \/ Refreshes \/ AnnouncesChange

ToolSpec == ToolInit /\ [][ToolNext]_toolVars

-----------------------------------------------------------------------------
\* Every variable keeps its type (mcp_call, McpAuditRow).
ToolTypeOK ==
  /\ inTable \in BOOLEAN /\ tableLock \in ToolRequests \cup {Nobody}
  /\ toolSlot \in {"listed", "stale", "taken", "gone"} /\ feedNotes \subseteq ToolRequests
  /\ \A r \in ToolRequests :
       HasCome(r, "decide") \/ asked[r].decision \in Decisions

RowsOf(r) == {i \in DOMAIN mcpAudit : mcpAudit[i].of = r}

\* One row once the request is through, none before, and it says what was done.
RowIsTrue(r) ==
  /\ Cardinality(RowsOf(r)) = IF asked[r].pc \in {"note", "done"} THEN 1 ELSE 0
  /\ \A i \in RowsOf(r) : /\ mcpAudit[i].outcome = asked[r].outcome
                          /\ mcpAudit[i].decision = asked[r].decision
                          /\ mcpAudit[i].outcome = "ok" => calledIn[r] # Unsent
  /\ r \in feedNotes => RowsOf(r) # {}

\* What is sent was approved, in an open session, and alone at the server.
CallIsAllowed(r) ==
  /\ calledIn[r] # Unsent =>
       asked[r].decision = "approve" /\ calledIn[r] = "open" /\ ~HasCome(r, "rejected")
  /\ HasCome(r, "answer") => /\ inTable /\ toolSlot \in {"listed", "stale"}
                             /\ \A q \in ToolRequests \ {r} : ~HasCome(q, "answer")

\* What the audit says is what was done: a call that was sent has, once its request is
\* through, one row with its outcome, even if the session was closed or the call failed;
\* nothing is sent for a request that was denied, for a session that is closed, or while
\* another call or a refresh is at the server; and a line in the feed has its row.
CallsAreAudited == \A r \in ToolRequests : RowIsTrue(r) /\ CallIsAllowed(r)
=============================================================================
