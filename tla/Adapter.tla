------------------------------- MODULE Adapter -------------------------------
(***************************************************************************)
(* The inverse MCP adapter (bin/hypermesh-desktop-mcp.rs): an outside      *)
(* agent gets the desktop verbs as tools.  One loop reads a line, checks   *)
(* it, asks the visor on a connection of its own, answers, and reads on.   *)
(* It gives a request 30 seconds; the visor may well go on with one it no  *)
(* longer waits for, and several of these then race for the desktop.       *)
(*                                                                         *)
(* A line is [method, id, tool, shaped, args, length]: its id a proper     *)
(* one, none, or one of another type; shaped says that every argument has  *)
(* a known name and the right type; args is a request of module Plans, for *)
(* the pointer's tools, and length that of the text.  Wording is left out, *)
(* and so is the start, which reads where the visor is.                    *)
(***************************************************************************)
EXTENDS Plans, FiniteSets

CONSTANTS AgentLines,     \* what the agent may write
          MaxLines,  \* bound: lines in a behaviour
          MaxCoord,  \* MAX_COORD
          MaxText    \* MAX_TEXT_CHARS

\* The visor's screen takes every coordinate up to the limit, and the body made for a
\* tool of the pointer asks for what the tool is named for, at one point (tool_request).
ASSUME AdapterAssumption ==
  /\ {MaxLines, MaxCoord, MaxText} \subseteq Nat /\ {AxisMin, AxisMax} \subseteq Int
  /\ AxisMin <= 0 /\ MaxCoord <= AxisMax
  /\ \A l \in AgentLines :
       l.tool \in {"mouse_move", "mouse_click", "mouse_scroll"} =>
         /\ l.args.to = l.args.at /\ l.args.action \in {"move", "click", "scroll"}
         /\ l.args.action = "scroll" => l.tool = "mouse_scroll"

VARIABLES
  line,     \* by number: the lines read so far
  asking,   \* main: "reads", or "waits" for the visor on the last line
  served,    \* by number: the requests the visor has, and what became of each
  effects,  \* the numbers of the requests done, in order
  answers   \* the replies written: to which line, and what

adapterVars == << line, asking, served, effects, answers >>

AdapterInit ==
  line = << >> /\ asking = "reads" /\ served = << >> /\ effects = << >> /\ answers = << >>

Here == Len(line)

-----------------------------------------------------------------------------
(* Checking a line.                                                        *)

PointerTools == {"mouse_move", "mouse_click", "mouse_scroll"}
Tools == {"view", "type_text"} \cup PointerTools

TicksOfEach(delta) == \A i \in 1..2 : Abs(delta[i]) <= MaxTicks

\* The deltas of tool_request: each, then both together.
DeltasFit(delta) == TicksOfEach(delta) /\ TicksFit(delta)

\* tool_request.
Fits(l) ==
  /\ l.tool \in Tools /\ l.shaped
  /\ l.tool \in PointerTools => \A i \in 1..2 : l.args.at[i] \in 0..MaxCoord
  /\ l.tool = "mouse_scroll" => DeltasFit(l.args.delta)
  /\ l.tool = "type_text" => l.length \in 1..MaxText

\* main: a tool is called by a request, which has an id, never by a notification.
IsCall(l) == l.method = "tools/call" /\ l.id = "id"

Replies(n, what) == answers' = Append(answers, [to |-> n, what |-> what])

-----------------------------------------------------------------------------
(* The loop.                                                               *)

Reads(l) ==
  /\ asking = "reads" /\ Here < MaxLines /\ line' = Append(line, l)
  /\ UNCHANGED effects

\* Empty, not JSON, without a method; the notification of a client that has begun; a
\* call that is no request; an unknown notification.
Ignores ==
  \E l \in AgentLines :
    /\ \/ l.method \in {"none", "notifications/initialized"}
       \/ l.method = "tools/call" /\ l.id # "id"
       \/ l.method = "other" /\ l.id = "none"
    /\ Reads(l) /\ UNCHANGED << asking, answers >>
    /\ served' = Append(served, "none")

\* initialize and tools/list are answered in any case, the unknown if it has an id.
AnswersAtOnce ==
  \E l \in AgentLines :
    /\ \/ l.method \in {"initialize", "tools/list"}
       \/ l.method = "other" /\ l.id # "none"
    /\ Reads(l) /\ UNCHANGED asking
    /\ Replies(Here + 1, IF l.method = "other" THEN "no method" ELSE "result")
    /\ served' = Append(served, "none")

\* handle_call, up to tool_request: -32602.
Rejects ==
  \E l \in AgentLines :
    /\ IsCall(l) /\ ~Fits(l) /\ Reads(l) /\ Replies(Here + 1, "bad params")
    /\ UNCHANGED asking /\ served' = Append(served, "none")

\* unix_exchange, http_exchange: the visor has the request.
Asks ==
  \E l \in AgentLines :
    /\ IsCall(l) /\ Fits(l) /\ Reads(l) /\ asking' = "waits"
    /\ served' = Append(served, "has") /\ UNCHANGED answers

\* tool_result: what the visor says.  An answer cut short or over the limit, and a
\* picture that is no PNG, are failures of the tool, though the visor did its part.
IsAnswered ==
  /\ asking = "waits" /\ served[Here] \in {"did", "refused"} /\ asking' = "reads"
  /\ \E readable \in BOOLEAN :
       Replies(Here, IF served[Here] = "did" /\ readable THEN "success" ELSE "failed")
  /\ UNCHANGED << line, served, effects >>

\* No connection, or 30 seconds.  The visor may not have the request, may drop it with
\* the connection, or be about to do it all the same.
GivesUpOnVisor ==
  /\ asking = "waits" /\ asking' = "reads" /\ Replies(Here, "failed")
  /\ \E left \in {served[Here]} \cup IF served[Here] = "has" THEN {"refused"} ELSE {} :
       served' = [served EXCEPT ![Here] = left]
  /\ UNCHANGED << line, effects >>

-----------------------------------------------------------------------------
(* The visor, as this program sees it: Automation and Plans are its model. *)

Does(n) ==
  /\ served[n] = "has" /\ served' = [served EXCEPT ![n] = "did"]
  /\ effects' = Append(effects, n) /\ UNCHANGED << line, asking, answers >>

\* A conflict, a closed session, a point off the root; or half of it and a failure.
Refuses(n) ==
  /\ served[n] = "has" /\ served' = [served EXCEPT ![n] = "refused"]
  /\ UNCHANGED << line, asking, effects, answers >>

AdapterNext ==
  \/ Ignores \/ AnswersAtOnce \/ Rejects \/ Asks \/ IsAnswered \/ GivesUpOnVisor
  \/ \E n \in DOMAIN served : Does(n) \/ Refuses(n)
AdapterSpec == AdapterInit /\ [][AdapterNext]_adapterVars

-----------------------------------------------------------------------------
\* Every variable keeps its type (Value, VisorResponse), a line at a time.
AdapterTypeOK ==
  /\ line \in Seq(AgentLines) /\ Len(served) = Here /\ asking \in {"reads", "waits"}
  /\ \A n \in DOMAIN served : served[n] \in {"none", "has", "did", "refused"}
  /\ \A n \in DOMAIN effects : effects[n] \in 1..Here
  /\ \A n \in DOMAIN answers : answers[n].to \in 1..Here

\* A request, which is to be answered.
IsOwed(l) == \/ l.method \in {"initialize", "tools/list"}
             \/ l.method \in {"tools/call", "other"} /\ l.id = "id"

Indices(seq, n) == {i \in DOMAIN seq : seq[i] = n}
To(n) == {a \in DOMAIN answers : answers[a].to = n}
Success == {n \in DOMAIN line : \E a \in To(n) : answers[a].what = "success"}

\* What the agent is told is so: each request is answered once and in order; a tool
\* that succeeded has acted exactly once, before any line written after the answer is
\* read, so that the successes are done in their order ("Validate before connecting,
\* so malformed input can never drive the desktop.", "A tool invocation is a request,
\* never an executable notification."); and the visor's own limits accept what the
\* adapter lets through.
AnswersAreTrue ==
  /\ \A n \in DOMAIN line :
       (n < Here \/ asking = "reads") /\ IsOwed(line[n]) => Cardinality(To(n)) = 1
  /\ \A a, b \in DOMAIN answers : a < b => answers[a].to < answers[b].to
  /\ \A n \in Success :
       /\ Cardinality(Indices(effects, n)) = 1
       /\ \A i \in Indices(effects, n), k \in Success :
            \A j \in Indices(effects, k) : n < k => i < j
  /\ \A i \in DOMAIN effects :
       /\ line[effects[i]].method = "tools/call" /\ line[effects[i]].id = "id"
       /\ Cardinality(Indices(effects, effects[i])) = 1
       /\ line[effects[i]].tool \in PointerTools =>
            ~OutOfRange(line[effects[i]].args)
=============================================================================
