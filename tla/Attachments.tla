----------------------------- MODULE Attachments -----------------------------
(***************************************************************************)
(* The MCP servers attached to one session: the connections (stdio.rs,     *)
(* http.rs, subscription.rs), the catalog each has listed (discovery.rs),  *)
(* and the threads of the API that refresh, reconnect, call and close      *)
(* (api.rs).  A server taken for a refresh leaves a placeholder in its     *)
(* slot, so that no lock is held while it is asked.                        *)
(*                                                                         *)
(* A catalog is the number of changes it includes.  An announcement        *)
(* carries the number of the change it is about, so a later one may stand  *)
(* for several.  A listing of several pages includes at least what its     *)
(* first page did.  Every server has negotiated tools and list_changed;    *)
(* how the session is opened is in module Trust, and what a call may do to *)
(* other requests while it holds the lock is not modelled.                 *)
(***************************************************************************)
EXTENDS Naturals, FiniteSets, FiniteSetsExt

CONSTANTS Servers, Http,      \* all servers, and those reached over HTTP
          Requests,           \* POST /session/{id}/mcp/refresh
          MaxChanges, MaxConns, MaxFaults,
          CleanupQueue        \* CLEANUP_QUEUE

Watch == "watch"
Workers == {Watch} \cup Requests

ASSUME AttachmentAssumption ==
  /\ Http \subseteq Servers /\ Watch \notin Requests
  /\ {MaxChanges, MaxConns, MaxFaults, CleanupQueue} \subseteq Nat
  /\ IsFiniteSet(Servers) /\ MaxConns >= Cardinality(Servers)

VARIABLES
  remote,   \* the catalog each server has now
  conn,     \* the connections: child or HTTP session, and its Changes
  open,     \* the session is in the table
  slot,     \* McpBundle::servers
  todo,     \* the names the watch thread found
  worker,   \* the threads of refreshes
  cleanup,  \* HTTP sessions waiting for their DELETE
  faults    \* history: how often something broke

vars == << remote, conn, open, slot, todo, worker, cleanup, faults >>

Conns == 1..MaxConns
Catalogs == 0..MaxChanges

\* An AttachedServer: conn is 0 once it is disconnected.
Attached(c, version, gen) ==
  [refreshing |-> FALSE, conn |-> c, version |-> version, listed |-> gen]
Placeholder == [refreshing |-> TRUE, conn |-> 0, version |-> 0, listed |-> 0]
Slots == [refreshing : BOOLEAN, conn : 0..MaxConns, version : Catalogs, listed : Nat]

\* stream is how announcements arrive: "none" when the GET is unsupported.
NoConn == [up |-> FALSE, server |-> CHOOSE s \in Servers : TRUE, gen |-> 0, failed |-> FALSE,
           told |-> 0, pipe |-> 0, stream |-> "down"]

\* A connection as its handshake leaves it before it lists.  An HTTP client has
\* subscribed, which invalidates, unless the server does not offer that.
Handshake(s) == [NoConn EXCEPT !.up = TRUE, !.server = s, !.stream = "open", !.told = remote[s]]
HandshakeHttp(s, stream) ==
  [Handshake(s) EXCEPT !.stream = stream, !.gen = IF stream = "open" THEN 1 ELSE 0]
Fresh(s, stream) == IF s \in Http THEN HandshakeHttp(s, stream) ELSE Handshake(s)
Streams(s) == IF s \in Http THEN {"open", "none"} ELSE {"open"}

NoWork == [pc |-> "idle", name |-> CHOOSE s \in Servers : TRUE, reconnect |-> FALSE,
           held |-> Placeholder, gen |-> 0, version |-> 0]

\* attach_specs has listed every catalog.
Init ==
  /\ remote = [s \in Servers |-> 0]
  /\ open = TRUE /\ todo = {} /\ cleanup = {} /\ faults = 0
  /\ worker = [w \in Workers |-> NoWork]
  /\ \E number \in [Servers -> 1..Cardinality(Servers)], stream \in [Servers -> {"open", "none"}] :
       /\ \A s, t \in Servers : s # t => number[s] # number[t]
       /\ \A s \in Servers : stream[s] \in Streams(s)
       /\ conn = [c \in Conns |->
            IF \E s \in Servers : number[s] = c
            THEN LET s == CHOOSE t \in Servers : number[t] = c IN Fresh(s, stream[s])
            ELSE NoConn]
       /\ slot = [s \in Servers |-> Attached(number[s], 0, conn[number[s]].gen)]

-----------------------------------------------------------------------------
(* The servers and the readers of their announcements.                     *)

Change(s) ==
  /\ remote[s] < MaxChanges
  /\ remote' = [remote EXCEPT ![s] = @ + 1]
  /\ conn' = [c \in Conns |->
       IF conn[c].up /\ conn[c].server = s /\ conn[c].stream = "open"
       THEN [conn[c] EXCEPT !.pipe = remote'[s]] ELSE conn[c]]
  /\ UNCHANGED << open, slot, todo, worker, cleanup, faults >>

\* Changes::notify.
Notice(c) ==
  /\ conn[c].up /\ ~conn[c].failed /\ conn[c].pipe # 0
  /\ conn' = [conn EXCEPT ![c].gen = @ + 1, ![c].told = conn[c].pipe, ![c].pipe = 0]
  /\ UNCHANGED << remote, open, slot, todo, worker, cleanup, faults >>

\* The reader stops: the process died, a frame was bad or late, a status was
\* refused.
Fails(c) ==
  /\ conn[c].up /\ ~conn[c].failed /\ faults < MaxFaults /\ faults' = faults + 1
  /\ conn' = [conn EXCEPT ![c].failed = TRUE, ![c].pipe = 0]
  /\ UNCHANGED << remote, open, slot, todo, worker, cleanup >>

\* The stream of an HTTP server ends; what is announced until a new one is
\* there is lost.
StreamEnds(c) ==
  /\ conn[c].up /\ ~conn[c].failed /\ conn[c].server \in Http /\ conn[c].stream = "open"
  /\ faults < MaxFaults /\ faults' = faults + 1
  /\ conn' = [conn EXCEPT ![c].stream = "down", ![c].pipe = 0]
  /\ UNCHANGED << remote, open, slot, todo, worker, cleanup >>

\* subscribe tries again, and a new stream invalidates whatever was listed.
ReopensQuietly(c) ==
  /\ conn[c].up /\ ~conn[c].failed /\ conn[c].stream = "down"
  /\ conn' = [conn EXCEPT ![c].stream = "open"]
  /\ UNCHANGED << remote, open, slot, todo, worker, cleanup, faults >>

StreamReopens(c) ==
  /\ conn[c].up /\ ~conn[c].failed /\ conn[c].stream = "down"
  /\ \/ conn' = [conn EXCEPT ![c].stream = "open", ![c].gen = @ + 1,
                             ![c].told = remote[conn[c].server]]
     \/ conn' = [conn EXCEPT ![c].stream = "none"]
     \/ conn' = [conn EXCEPT ![c].failed = TRUE]
  /\ UNCHANGED << remote, open, slot, todo, worker, cleanup, faults >>

-----------------------------------------------------------------------------
(* Connections that end.                                                   *)

\* Dropping a client stops its reader and kills its child; an HTTP session is
\* queued for a DELETE unless the queue is full.
Ended(cs) == [c \in Conns |-> IF c \in cs THEN [conn[c] EXCEPT !.up = FALSE, !.pipe = 0]
                              ELSE conn[c]]
Queued(cs) ==
  LET sessions == {c \in cs : conn[c].up /\ conn[c].server \in Http}
  IN  IF Cardinality(cleanup \cup sessions) <= CleanupQueue THEN cleanup \cup sessions
      ELSE CHOOSE q \in SUBSET (cleanup \cup sessions) :
             Cardinality(q) = CleanupQueue /\ cleanup \subseteq q

\* delete_session, in the worker of the queue.
CleansUp ==
  /\ \E c \in cleanup : cleanup' = cleanup \ {c}
  /\ UNCHANGED << remote, conn, open, slot, todo, worker, faults >>

-----------------------------------------------------------------------------
(* Refreshes.                                                              *)

NeedsRefresh(s) ==
  /\ ~slot[s].refreshing /\ slot[s].conn # 0
  /\ conn[slot[s].conn].failed \/ conn[slot[s].conn].gen # slot[s].listed

\* The watch thread looks once a second.
Scan ==
  /\ open /\ todo = {} /\ worker[Watch].pc = "idle"
  /\ todo' = {s \in Servers : NeedsRefresh(s)} /\ todo' # {}
  /\ UNCHANGED << remote, conn, open, slot, worker, cleanup, faults >>

\* take_for_refresh.
Take(w, s, reconnect) ==
  /\ worker[w].pc = "idle"
  /\ worker' = [worker EXCEPT ![w] = [NoWork EXCEPT !.pc = "taken", !.name = s,
                                       !.reconnect = reconnect, !.held = slot[s]]]
  /\ slot' = [slot EXCEPT ![s] = Placeholder]
  /\ UNCHANGED << remote, conn, open, cleanup, faults >>

\* A server that is being refreshed already, or is gone, is passed over.
WatchTakes(s) ==
  /\ s \in todo /\ todo' = todo \ {s} /\ worker[Watch].pc = "idle"
  /\ \/ open /\ ~slot[s].refreshing /\ Take(Watch, s, FALSE)
     \/ /\ ~open \/ slot[s].refreshing
        /\ UNCHANGED << remote, conn, open, slot, worker, cleanup, faults >>

RequestTakes(r, s) ==
  /\ open /\ ~slot[s].refreshing
  /\ \E reconnect \in BOOLEAN : Take(r, s, reconnect)
  /\ UNCHANGED todo

Goes(w, record) == worker' = [worker EXCEPT ![w] = record]

\* disconnect, after which the server is put back empty.
GivesUp(w, cs) ==
  /\ conn' = Ended(cs) /\ cleanup' = Queued(cs)
  /\ Goes(w, [worker[w] EXCEPT !.pc = "back", !.held = Attached(0, 0, worker[w].held.listed)])

\* A refresh asks for the first page; the invalidations it has to answer for
\* are those counted so far.
Lists(w) ==
  /\ worker[w].pc = "taken" /\ ~worker[w].reconnect
  /\ LET c == worker[w].held.conn
     IN  \/ /\ c # 0 /\ conn[c].up /\ ~conn[c].failed
            /\ Goes(w, [worker[w] EXCEPT !.pc = "listing", !.gen = conn[c].gen,
                                         !.version = remote[worker[w].name]])
            /\ UNCHANGED << conn, cleanup >>
         \/ /\ c # 0 => conn[c].failed
            /\ GivesUp(w, {c} \ {0})
  /\ UNCHANGED << remote, open, slot, todo, faults >>

\* A reconnect drops the old connection before it tries a new one.
Reconnects(w) ==
  /\ worker[w].pc = "taken" /\ worker[w].reconnect
  /\ LET old == {worker[w].held.conn} \ {0}
         s == worker[w].name
     IN  \/ GivesUp(w, old)
         \/ \E c \in Conns, stream \in Streams(s) :
              /\ conn[c] = NoConn /\ \A d \in Conns : d < c => conn[d] # NoConn
              /\ cleanup' = Queued(old)
              /\ conn' = [Ended(old) EXCEPT ![c] = Fresh(s, stream)]
              /\ Goes(w, [worker[w] EXCEPT !.pc = "listing", !.version = remote[s],
                     !.gen = conn'[c].gen, !.held = Attached(c, 0, 0)])
  /\ UNCHANGED << remote, open, slot, todo, faults >>

\* The last page, which may have been received before its reader stopped, or an
\* answer that is late or wrong.
CountedNow(w) == conn[worker[w].held.conn].gen

CountedBefore(w) == worker[w].gen

Unanswered(c) ==
  /\ faults < MaxFaults \/ conn[c].failed
  /\ faults' = IF conn[c].failed THEN faults ELSE faults + 1

Listed(w) ==
  /\ worker[w].pc = "listing"
  /\ LET c == worker[w].held.conn
     IN  \/ /\ Goes(w, [worker[w] EXCEPT !.pc = "back",
                   !.held = Attached(c, worker[w].version, CountedBefore(w))])
            /\ UNCHANGED << conn, cleanup, faults >>
         \/ Unanswered(c) /\ GivesUp(w, {c})
  /\ UNCHANGED << remote, open, slot, todo >>

Dropped(w) == IF open THEN {} ELSE {worker[w].held.conn} \ {0}

Restores(w) ==
  /\ worker[w].pc = "back"
  /\ slot' = IF open /\ slot[worker[w].name].refreshing
             THEN [slot EXCEPT ![worker[w].name] = worker[w].held] ELSE slot
  /\ conn' = Ended(Dropped(w)) /\ cleanup' = Queued(Dropped(w))
  /\ Goes(w, IF w = Watch THEN NoWork ELSE [NoWork EXCEPT !.pc = "done"])
  /\ UNCHANGED << remote, open, todo, faults >>

-----------------------------------------------------------------------------
(* Calls and the end of the session, under the sessions lock.              *)

\* McpBundle::call_tool lets a call through.
Routes(s) == open /\ ~slot[s].refreshing /\ slot[s].conn # 0 /\ ~NeedsRefresh(s)

\* A call that is not answered disconnects the server.
CallFails(s) ==
  /\ Routes(s) /\ Unanswered(slot[s].conn)
  /\ slot' = [slot EXCEPT ![s].conn = 0, ![s].version = 0]
  /\ conn' = Ended({slot[s].conn}) /\ cleanup' = Queued({slot[s].conn})
  /\ UNCHANGED << remote, open, todo, worker >>

Close ==
  /\ open /\ open' = FALSE
  /\ LET cs == {slot[s].conn : s \in Servers} \ {0}
     IN  conn' = Ended(cs) /\ cleanup' = Queued(cs)
  /\ slot' = [s \in Servers |-> Attached(0, 0, 0)]
  /\ UNCHANGED << remote, todo, worker, faults >>

Refresh(w) == Lists(w) \/ Reconnects(w) \/ Listed(w) \/ Restores(w)

Next ==
  \/ \E s \in Servers : Change(s) \/ WatchTakes(s) \/ CallFails(s)
  \/ \E c \in Conns : Notice(c) \/ Fails(c) \/ StreamEnds(c) \/ StreamReopens(c)
  \/ \E r \in Requests, s \in Servers : RequestTakes(r, s)
  \/ \E w \in Workers : Refresh(w)
  \/ CleansUp \/ Scan \/ Close

\* The readers, the retry of a subscription, the watch thread and a refresh
\* that was started go on; each waits at most for a timeout.
Fairness ==
  /\ \A c \in Conns : WF_vars(Notice(c)) /\ WF_vars(StreamReopens(c))
  /\ WF_vars(Scan) /\ WF_vars(CleansUp)
  /\ \A s \in Servers : WF_vars(WatchTakes(s))
  /\ \A w \in Workers : WF_vars(Refresh(w))

Spec == Init /\ [][Next]_vars
FairSpec == Spec /\ Fairness

-----------------------------------------------------------------------------
(* Properties.                                                             *)

\* Every variable keeps its type, and a connection serves the server it is of.
AttachmentsTypeOK ==
  /\ remote \in [Servers -> Catalogs] /\ open \in BOOLEAN /\ todo \subseteq Servers
  /\ slot \in [Servers -> Slots] /\ faults \in 0..MaxFaults
  /\ cleanup \subseteq Conns /\ Cardinality(cleanup) <= CleanupQueue
  /\ \A c \in Conns : conn[c].stream \in {"open", "down", "none"} /\ conn[c].told \in Catalogs
  /\ \A w \in Workers : /\ worker[w].pc \in {"idle", "taken", "listing", "back", "done"}
                        /\ worker[w].held \in Slots
  /\ \A s \in Servers : slot[s].conn # 0 => conn[slot[s].conn].server = s

\* A call goes out only under a catalog that includes every change announced
\* and noticed on its connection before, those noticed while it was listed
\* included (Changes, listed_generation, needs_refresh).
RoutedCatalogIsCurrent ==
  \A s \in Servers : Routes(s) => slot[s].version >= conn[slot[s].conn].told

\* A connection that is up is in one place: a slot of the open session, or the
\* hands of one refresh; so when the session is closed and the refreshes are
\* over, no child runs.
Holders(c) == {s \in Servers : slot[s].conn = c}
                \cup {w \in Workers : worker[w].pc # "idle" /\ worker[w].held.conn = c}
NoConnectionIsLost ==
  \A c \in Conns : Cardinality(Holders(c)) = IF conn[c].up THEN 1 ELSE 0

\* What a slot routes to is up, is nobody else's and was listed since the last
\* notice (begin_refresh, put_back, needs_refresh).
AttachmentsAreSound == RoutedCatalogIsCurrent /\ NoConnectionIsLost

\* A server that can announce a change is in the end called under a catalog that
\* includes it, or is disconnected, or the session is closed: no announcement,
\* gap in the stream, refresh or reconnect in between loses it.
CatalogSettles ==
  \A s \in Servers :
    <>[](\/ ~open
         \/ slot[s].conn = 0 /\ ~slot[s].refreshing
         \/ slot[s].conn # 0 /\ conn[slot[s].conn].stream = "none"
         \/ Routes(s) /\ slot[s].version = remote[s])
=============================================================================
