----------------------------- MODULE MCClients -----------------------------
(***************************************************************************)
(* Instances for TLC of more parts that share no variable: the MCP servers *)
(* of a session, and what stands between the visor and its users.  As in   *)
(* MCParts, a behaviour is one of a single part, and the others rest.      *)
(***************************************************************************)
EXTENDS Attachments, Redaction, Activity, Clients

-----------------------------------------------------------------------------
(* Redaction and Activity: pieces of texts, and values that overlap.       *)

MCChunks == {<< "h", "-" >>, << "s", "-" >>, << "k", "=" >>, << "k" >>, << " " >>,
             << "a", "a" >>, << "n" >>}
MCTokenMin == [p \in {"h", "s"} |-> IF p = "h" THEN 1 ELSE 2]
MCVaultValues == {<< "a", "b" >>, << "b", "c" >>, << "a" >>}
MCNotedTexts == {<< "a", "b", "c" >>, << "x", "x", "a", "b" >>, << "/", "a", "b" >>}
MCLabels == {<< "a", "b" >>}

-----------------------------------------------------------------------------
(* Access: a blank override, values whose path does not fit, and nothing   *)
(* at all.                                                                 *)

MCEnvironments == {<< Unset, Unset, Unset, 1 >>, << 0, 4, 2, 1 >>, << 2, 3, Unset, 2 >>,
                   << Unset, 0, 2, 0 >>, << 0, Unset, Unset, 0 >>}
MCAppended == << 0, 1, 2, 4 >>

-----------------------------------------------------------------------------
VARIABLE part

Clients == {"attachments", "redaction", "activity", "listening", "portal", "tools", "access"}

ClientsInit ==
  /\ part \in Clients
  /\ Init /\ (part # "attachments" => \A c \in Conns : conn[c].stream # "open")
  /\ RedactionInit /\ ActivityInit /\ ListeningInit /\ PortalInit /\ ToolInit /\ AccessInit
  /\ (part # "access" => ~stranger /\ environment = CHOOSE env \in Environments : TRUE)

ClientsNext ==
  /\ UNCHANGED part
  /\ IF part = "attachments" THEN Next ELSE UNCHANGED vars
  /\ IF part = "redaction" THEN RedactionNext ELSE UNCHANGED RedactionVars
  /\ IF part = "activity" THEN ActivityNext ELSE UNCHANGED ActivityVars
  /\ IF part = "listening" THEN ListeningNext ELSE UNCHANGED listeningVars
  /\ IF part = "portal" THEN PortalNext ELSE UNCHANGED portalVars
  /\ IF part = "tools" THEN ToolNext ELSE UNCHANGED toolVars
  /\ IF part = "access" THEN AccessNext ELSE UNCHANGED accessVars

clientsVars == << part, vars, RedactionVars, ActivityVars, listeningVars, portalVars, toolVars,
                  accessVars >>

\* Of these only the attachments and the recorders are promised to go on; while another
\* part moves, nothing of theirs is enabled.
ClientsSpec == ClientsInit /\ [][ClientsNext]_clientsVars /\ Fairness /\ ListeningFairness

-----------------------------------------------------------------------------
\* Every variable of the part that moves keeps its type: the slots and connections of
\* McpBundle, texts, Activity, audio_loop, capture, mcp_call, and the doors of serve.
ClientsTypeOK ==
  CASE part = "attachments" -> AttachmentsTypeOK
    [] part = "redaction" -> RedactionTypeOK
    [] part = "activity" -> ActivityTypeOK
    [] part = "listening" -> ListeningTypeOK
    [] part = "portal" -> PortalTypeOK
    [] part = "tools" -> ToolTypeOK
    [] part = "access" -> AccessTypeOK

\* No text that is shown holds a secret: ShownIsClean of what is redacted by its pattern,
\* FeedShowsNoSecret of the feed, redacted by the values the vault knows.
TextsAreClean ==
  /\ part = "redaction" => ShownIsClean
  /\ part = "activity" => FeedShowsNoSecret

\* CatalogSettles of the attachments, an announced change is not lost; and
\* RecordersAreGivenBack of listen once the session is closed.
PartsSettle == CatalogSettles /\ RecordersAreGivenBack
=============================================================================
