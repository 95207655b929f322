----------------------------- MODULE ClientProofs -----------------------------
(***************************************************************************)
(* What stands between the visor and those who use it: the MCP servers     *)
(* attached to a session, the recorders and views of a desktop, the doors, *)
(* and the calls of tools.  One section a module, each with its inductive  *)
(* invariant and what rests on it.                                         *)
(***************************************************************************)
EXTENDS Attachments, Clients, FiniteSetTheorems, SequenceTheorems, TLAPS

(***************************************************************************)
(* Attachments: every connection that is up has one owner, and a call goes *)
(* out only under a catalog as new as what its connection was told.  The   *)
(* invariant follows a connection between the slot of its server and the   *)
(* hands of the refresh that took it out.                                  *)
(***************************************************************************)

\* A server, or the name that a worker and a connection have before the first.
AnyServer == Servers \cup {NoConn.server}
ConnRecords == [up : BOOLEAN, server : AnyServer, gen : Nat, failed : BOOLEAN,
                told : Catalogs, pipe : Catalogs, stream : {"open", "down", "none"}]
WorkRecords == [pc : {"idle", "taken", "listing", "back", "done"}, name : AnyServer,
                reconnect : BOOLEAN, held : Slots, gen : Nat, version : Catalogs]

AttachmentsTyped ==
  /\ remote \in [Servers -> Catalogs] /\ conn \in [Conns -> ConnRecords]
  /\ slot \in [Servers -> Slots] /\ worker \in [Workers -> WorkRecords] /\ open \in BOOLEAN

\* Connection c is up and of server s.
ConnServes(c, s) == c \in Conns /\ conn[c].up /\ conn[c].server = s

\* A listing begun at gen and its catalog, against what the connection c has counted.
IsListed(c, version, gen) ==
  gen <= conn[c].gen /\ (conn[c].gen = gen => version >= conn[c].told)

\* A connection in a slot is up, of that server and listed.
SlotFits(s) ==
  slot[s].conn # 0 =>
    /\ ConnServes(slot[s].conn, s) /\ IsListed(slot[s].conn, slot[s].version, slot[s].listed)
    /\ ~slot[s].refreshing /\ open

Busy(w) == worker[w].pc \in {"taken", "listing", "back"}

\* So is one in the hands of a refresh, which left a placeholder while the session is open.
WorkFits(w) ==
  /\ ~Busy(w) => worker[w].held.conn = 0
  /\ worker[w].held.conn # 0 =>
       ConnServes(worker[w].held.conn, worker[w].name) /\ ~worker[w].held.refreshing
  /\ worker[w].pc = "listing" =>
       worker[w].held.conn # 0 /\ IsListed(worker[w].held.conn, worker[w].version, worker[w].gen)
  /\ worker[w].pc \in {"taken", "back"} /\ worker[w].held.conn # 0 =>
       IsListed(worker[w].held.conn, worker[w].held.version, worker[w].held.listed)
  /\ Busy(w) => worker[w].name \in Servers /\ (open => slot[worker[w].name].refreshing)

\* Somebody has connection c.
IsHeld(c) ==
  (\E s \in Servers : slot[s].conn = c) \/ (\E w \in Workers : worker[w].held.conn = c)

\* What a connection was told of has happened.
ToldTruly(c) ==
  /\ conn[c].server \in Servers /\ conn[c].told <= remote[conn[c].server]
  /\ conn[c].pipe <= remote[conn[c].server]

ConnFits(c) == conn[c].up => ToldTruly(c) /\ IsHeld(c)

\* Two refreshes share neither a connection nor, while the session is open, a server.
WorkApart(v, w) ==
  /\ worker[v].held.conn # 0 => worker[v].held.conn # worker[w].held.conn
  /\ open /\ Busy(v) /\ Busy(w) => worker[v].name # worker[w].name

SlotApart(s, w) == slot[s].conn # 0 => worker[w].held.conn # slot[s].conn

AttachmentsInv ==
  /\ AttachmentsTyped
  /\ \A s \in Servers : SlotFits(s)
  /\ \A w \in Workers : WorkFits(w)
  /\ \A c \in Conns : ConnFits(c)
  /\ \A v, w \in Workers : v # w => WorkApart(v, w)
  /\ \A s \in Servers, w \in Workers : SlotApart(s, w)

-----------------------------------------------------------------------------
(* What a step leaves alone.                                               *)

LEMMA SlotStays ==
  ASSUME NEW s \in Servers, SlotFits(s), slot'[s] = slot[s], open' = open,
         slot[s].conn # 0 => conn'[slot[s].conn] = conn[slot[s].conn]
  PROVE  SlotFits(s)'
BY DEF SlotFits, ConnServes, IsListed

LEMMA WorkStays ==
  ASSUME NEW w \in Workers, WorkFits(w), worker'[w] = worker[w],
         worker[w].held.conn # 0 => conn'[worker[w].held.conn] = conn[worker[w].held.conn],
         open' /\ Busy(w) => open /\ slot'[worker[w].name].refreshing
  PROVE  WorkFits(w)'
BY DEF WorkFits, ConnServes, IsListed, Busy

LEMMA ConnStays ==
  ASSUME NEW c \in Conns, ConnFits(c), conn'[c] = conn[c], remote' = remote,
         IsHeld(c) => IsHeld(c)'
  PROVE  ConnFits(c)'
BY DEF ConnFits, ToldTruly

LEMMA ApartStays ==
  ASSUME NEW v \in Workers, NEW w \in Workers, WorkApart(v, w), worker'[v] = worker[v],
         worker'[w] = worker[w], open' => open
  PROVE  WorkApart(v, w)'
BY DEF WorkApart, Busy

\* Ended only ends what it is given.
LEMMA EndedIs ==
  ASSUME AttachmentsTyped, NEW cs
  PROVE  /\ Ended(cs) \in [Conns -> ConnRecords]
         /\ \A c \in Conns : c \notin cs => Ended(cs)[c] = conn[c]
         /\ \A c \in Conns : c \in cs => ~Ended(cs)[c].up
<1>1. ASSUME NEW c \in Conns PROVE [conn[c] EXCEPT !.up = FALSE, !.pipe = 0] \in ConnRecords
                                   /\ ~[conn[c] EXCEPT !.up = FALSE, !.pipe = 0].up
  <2>1. conn[c] \in ConnRecords
    BY DEF AttachmentsTyped
  <2>2. 0 \in Catalogs
    BY AttachmentAssumption DEF Catalogs
  <2>3. QED
    BY <2>1, <2>2 DEF ConnRecords
<1>2. QED
  BY <1>1 DEF Ended, AttachmentsTyped

LEMMA NoConnIs ==
  /\ NoConn \in ConnRecords /\ ~NoConn.up /\ Placeholder \in Slots /\ NoWork \in WorkRecords
  /\ Placeholder.conn = 0 /\ Placeholder.refreshing
  /\ NoWork.pc = "idle" /\ NoWork.held = Placeholder /\ 0 \in Catalogs
  /\ NoConn.gen = 0 /\ NoConn.pipe = 0
<1>1. 0 \in Catalogs /\ 0 \in 0..MaxConns
  BY AttachmentAssumption DEF Catalogs
<1>2. PICK any : any = CHOOSE s \in Servers : TRUE
  OBVIOUS
<1>3. NoConn = [up |-> FALSE, server |-> any, gen |-> 0, failed |-> FALSE,
                told |-> 0, pipe |-> 0, stream |-> "down"]
  BY <1>2 DEF NoConn
<1>4. any \in AnyServer
  BY <1>3 DEF AnyServer
<1>5. Placeholder \in Slots /\ Placeholder.conn = 0 /\ Placeholder.refreshing
  BY <1>1 DEF Placeholder, Slots
<1>6. NoWork = [pc |-> "idle", name |-> any, reconnect |-> FALSE, held |-> Placeholder,
                gen |-> 0, version |-> 0]
  BY <1>2 DEF NoWork
<1>7. NoWork \in WorkRecords
  BY <1>1, <1>4, <1>5, <1>6 DEF WorkRecords
<1>8. NoConn \in ConnRecords
  BY <1>1, <1>3, <1>4 DEF ConnRecords
<1>9. QED
  BY <1>1, <1>3, <1>5, <1>6, <1>7, <1>8

-----------------------------------------------------------------------------
(* The readers.                                                            *)

\* A connection that is told something counts it.
Counts(c) ==
  /\ conn'[c].up = conn[c].up /\ conn'[c].server = conn[c].server
  /\ \/ conn'[c].gen = conn[c].gen /\ conn'[c].told = conn[c].told
     \/ conn'[c].gen = conn[c].gen + 1
  /\ conn[c].up => /\ conn'[c].told <= remote'[conn[c].server]
                   /\ conn'[c].pipe <= remote'[conn[c].server]

LEMMA ReadersCount ==
  ASSUME AttachmentsInv, UNCHANGED << open, slot, worker >>,
         remote' \in [Servers -> Catalogs], conn' \in [Conns -> ConnRecords],
         \A c \in Conns : Counts(c)
  PROVE  AttachmentsInv'
<1>0. AttachmentsTyped
  BY DEF AttachmentsInv
<1>1. AttachmentsTyped'
  BY <1>0 DEF AttachmentsTyped
<1>2. ASSUME NEW c \in Conns, NEW gen \in Nat, NEW version \in Nat, IsListed(c, version, gen)
      PROVE  IsListed(c, version, gen)'
  <2>1. conn[c].gen \in Nat /\ conn'[c].gen \in Nat
    BY <1>0, <1>1 DEF AttachmentsTyped, ConnRecords
  <2>2. QED
    BY <1>2, <2>1 DEF IsListed, Counts
<1>3. ASSUME NEW c \in Conns, NEW s, ConnServes(c, s) PROVE ConnServes(c, s)'
  BY <1>3 DEF ConnServes, Counts
<1>4. \A c \in Catalogs : c \in Nat
  BY AttachmentAssumption DEF Catalogs
<1>5. ASSUME NEW s \in Servers PROVE SlotFits(s)'
  <2>1. SlotFits(s) /\ slot[s].version \in Nat /\ slot[s].listed \in Nat
    BY <1>0, <1>4 DEF AttachmentsInv, AttachmentsTyped, Slots
  <2>2. CASE slot[s].conn = 0
    BY <2>2 DEF SlotFits
  <2>3. CASE slot[s].conn # 0
    <3>1. slot[s].conn \in Conns
      BY <2>1, <2>3 DEF SlotFits, ConnServes
    <3>2. ConnServes(slot[s].conn, s)' /\ IsListed(slot[s].conn, slot[s].version, slot[s].listed)'
      <4>1. PICK c, v, g : c = slot[s].conn /\ v = slot[s].version /\ g = slot[s].listed
        OBVIOUS
      <4>2. ConnServes(c, s) /\ IsListed(c, v, g) /\ c \in Conns /\ v \in Nat /\ g \in Nat
        BY <2>1, <2>3, <3>1, <4>1 DEF SlotFits
      <4>3. ConnServes(c, s)' /\ IsListed(c, v, g)'
        BY <1>2, <1>3, <4>2
      <4>4. QED
        BY <4>1, <4>3 DEF ConnServes, IsListed
    <3>3. QED
      BY <2>1, <2>3, <3>2 DEF SlotFits
  <2>4. QED
    BY <2>2, <2>3
<1>6. ASSUME NEW w \in Workers PROVE WorkFits(w)'
  <2>1. PICK q : q = worker[w]
    OBVIOUS
  <2>2. /\ WorkFits(w) /\ q.held.version \in Nat /\ q.held.listed \in Nat
        /\ q.version \in Nat /\ q.gen \in Nat
    BY <1>0, <1>4, <2>1 DEF AttachmentsInv, AttachmentsTyped, Slots, WorkRecords
  <2>3. q.held.conn # 0 => q.held.conn \in Conns /\ ConnServes(q.held.conn, q.name)
    BY <2>1, <2>2 DEF WorkFits, ConnServes
  <2>4. PICK c : c = q.held.conn
    OBVIOUS
  <2>5. c # 0 => ConnServes(c, q.name)'
    BY <1>3, <2>3, <2>4
  <2>6. q.pc = "listing" => c # 0 /\ IsListed(c, q.version, q.gen)'
    <3>1. q.pc = "listing" => c # 0 /\ IsListed(c, q.version, q.gen)
      BY <2>1, <2>2, <2>4 DEF WorkFits
    <3>2. QED
      BY <1>2, <2>2, <2>3, <2>4, <3>1
  <2>7. q.pc \in {"taken", "back"} /\ c # 0 => IsListed(c, q.held.version, q.held.listed)'
    <3>1. q.pc \in {"taken", "back"} /\ c # 0 => IsListed(c, q.held.version, q.held.listed)
      BY <2>1, <2>2, <2>4 DEF WorkFits
    <3>2. QED
      BY <1>2, <2>2, <2>3, <2>4, <3>1
  <2>8. QED
    BY <2>1, <2>2, <2>4, <2>5, <2>6, <2>7 DEF WorkFits, Busy, ConnServes, IsListed
<1>7. ASSUME NEW c \in Conns PROVE ConnFits(c)'
  BY DEF AttachmentsInv, ConnFits, ToldTruly, IsHeld, Counts
<1>8. QED
  BY <1>1, <1>5, <1>6, <1>7 DEF AttachmentsInv, WorkApart, SlotApart, Busy

LEMMA ReadersStep ==
  ASSUME AttachmentsInv,
         \/ \E s \in Servers : Change(s)
         \/ \E c \in Conns : Notice(c) \/ Fails(c) \/ StreamEnds(c) \/ StreamReopens(c)
  PROVE  AttachmentsInv'
<1>0. /\ AttachmentsTyped /\ \A c \in Conns : conn[c].up => ToldTruly(c)
      /\ MaxChanges \in Nat
  BY AttachmentAssumption DEF AttachmentsInv, ConnFits
<1>1. ASSUME NEW s \in Servers, Change(s) PROVE AttachmentsInv'
  <2>1. remote' = [remote EXCEPT ![s] = @ + 1] /\ remote[s] < MaxChanges
    BY <1>1 DEF Change
  <2>2. remote' \in [Servers -> Catalogs] /\ \A t \in Servers : remote[t] <= remote'[t]
    BY <1>0, <2>1 DEF AttachmentsTyped, Catalogs
  <2>3. conn' = [c \in Conns |->
          IF conn[c].up /\ conn[c].server = s /\ conn[c].stream = "open"
          THEN [conn[c] EXCEPT !.pipe = remote'[s]] ELSE conn[c]]
    BY <1>1 DEF Change
  <2>4. ASSUME NEW c \in Conns PROVE conn'[c] \in ConnRecords /\ Counts(c)
    <3>1. PICK p : p = remote'[s]
      OBVIOUS
    <3>2. PICK q : q = [conn[c] EXCEPT !.pipe = p]
      OBVIOUS
    <3>3. /\ conn[c] \in ConnRecords /\ p \in Catalogs /\ q \in ConnRecords
          /\ q.pipe = p /\ q.up = conn[c].up /\ q.server = conn[c].server
          /\ q.gen = conn[c].gen /\ q.told = conn[c].told
      BY <1>0, <2>2, <3>1, <3>2 DEF AttachmentsTyped, ConnRecords
    <3>4. conn'[c] = IF conn[c].up /\ conn[c].server = s /\ conn[c].stream = "open"
                     THEN q ELSE conn[c]
      BY <2>3, <3>1, <3>2
    <3>5. conn[c].up => /\ conn[c].server \in Servers /\ conn[c].told \in Nat /\ conn[c].pipe \in Nat
                        /\ conn[c].told <= remote'[conn[c].server]
                        /\ conn[c].pipe <= remote'[conn[c].server]
      BY <1>0, <2>2, <3>3 DEF ToldTruly, AttachmentsTyped, ConnRecords, Catalogs
    <3>6. p \in Nat
      BY <1>0, <3>3 DEF Catalogs
    <3>7. QED
      BY <3>1, <3>3, <3>4, <3>5, <3>6 DEF Counts
  <2>5. conn' \in [Conns -> ConnRecords]
    BY <2>3, <2>4
  <2>6. QED
    BY <1>1, <2>2, <2>4, <2>5, ReadersCount DEF Change
<1>2. ASSUME NEW c \in Conns, NEW q \in ConnRecords, UNCHANGED << remote, open, slot, worker >>,
             conn' = [conn EXCEPT ![c] = q], conn[c].up, q.up, q.server = conn[c].server,
             \/ q.gen = conn[c].gen /\ q.told = conn[c].told
             \/ q.gen = conn[c].gen + 1 /\ q.told <= remote[q.server],
             q.pipe <= remote[q.server]
      PROVE  AttachmentsInv'
  <2>1. conn' \in [Conns -> ConnRecords] /\ remote' \in [Servers -> Catalogs]
    BY <1>0, <1>2 DEF AttachmentsTyped
  <2>2. ASSUME NEW d \in Conns PROVE Counts(d)
    <3>1. CASE d # c
      <4>1. conn'[d] = conn[d] /\ (conn[d].up => ToldTruly(d))
        BY <1>0, <1>2, <3>1 DEF AttachmentsTyped
      <4>2. QED
        BY <1>2, <4>1 DEF Counts, ToldTruly
    <3>2. CASE d = c
      <4>1. conn'[c] = q /\ ToldTruly(c) /\ conn[c].up = q.up
        <5>1. conn[c] \in ConnRecords
          BY <1>0 DEF AttachmentsTyped
        <5>2. QED
          BY <1>0, <1>2, <5>1 DEF AttachmentsTyped, ConnRecords
      <4>2. QED
        BY <1>2, <3>2, <4>1 DEF Counts, ToldTruly
    <3>3. QED
      BY <3>1, <3>2
  <2>3. QED
    BY <1>2, <2>1, <2>2, ReadersCount
<1>3. ASSUME NEW c \in Conns, Notice(c) PROVE AttachmentsInv'
  <2>0. PICK n, p : n = conn[c].gen + 1 /\ p = conn[c].pipe
    OBVIOUS
  <2>1. PICK q : q = [conn[c] EXCEPT !.gen = n, !.told = p, !.pipe = 0]
    OBVIOUS
  <2>2. /\ conn[c] \in ConnRecords /\ ToldTruly(c) /\ conn[c].up /\ 0 \in Catalogs
        /\ n \in Nat /\ p \in Catalogs
    <3>1. conn[c] \in ConnRecords /\ ToldTruly(c) /\ conn[c].up /\ 0 \in Catalogs
      BY <1>0, <1>3, NoConnIs DEF AttachmentsTyped, Notice
    <3>2. QED
      BY <2>0, <3>1 DEF ConnRecords
  <2>3. /\ q \in ConnRecords /\ q.up /\ q.server = conn[c].server /\ q.gen = conn[c].gen + 1
        /\ q.told = conn[c].pipe /\ q.pipe = 0
    <3>1. /\ q \in ConnRecords /\ q.up = conn[c].up /\ q.server = conn[c].server
          /\ q.gen = n /\ q.told = p /\ q.pipe = 0
      BY <2>1, <2>2 DEF ConnRecords
    <3>2. QED
      BY <2>0, <2>2, <3>1
  <2>4. conn' = [conn EXCEPT ![c] = q]
    BY <1>0, <1>3, <2>0, <2>1 DEF Notice, AttachmentsTyped
  <2>5. q.told <= remote[q.server] /\ q.pipe <= remote[q.server]
    BY <1>0, <2>2, <2>3 DEF ToldTruly, AttachmentsTyped, Catalogs
  <2>6. QED
    BY <1>2, <1>3, <2>2, <2>3, <2>4, <2>5 DEF Notice
<1>4. ASSUME NEW c \in Conns, Fails(c) \/ StreamEnds(c) PROVE AttachmentsInv'
  <2>1. PICK q : \/ q = [conn[c] EXCEPT !.failed = TRUE, !.pipe = 0] /\ Fails(c)
                 \/ q = [conn[c] EXCEPT !.stream = "down", !.pipe = 0] /\ StreamEnds(c)
    BY <1>4
  <2>2. conn[c] \in ConnRecords /\ ToldTruly(c) /\ conn[c].up /\ 0 \in Catalogs
    BY <1>0, <1>4, NoConnIs DEF AttachmentsTyped, Fails, StreamEnds
  <2>3. /\ q \in ConnRecords /\ q.up /\ q.server = conn[c].server /\ q.gen = conn[c].gen
        /\ q.told = conn[c].told /\ q.pipe = 0
    <3>1. CASE q = [conn[c] EXCEPT !.failed = TRUE, !.pipe = 0]
      BY <2>2, <3>1 DEF ConnRecords
    <3>2. CASE q = [conn[c] EXCEPT !.stream = "down", !.pipe = 0]
      BY <2>2, <3>2 DEF ConnRecords
    <3>3. QED
      BY <2>1, <3>1, <3>2
  <2>4. conn' = [conn EXCEPT ![c] = q] /\ UNCHANGED << remote, open, slot, worker >>
    BY <1>0, <2>1 DEF Fails, StreamEnds, AttachmentsTyped
  <2>5. q.pipe <= remote[q.server]
    BY <1>0, <2>2, <2>3 DEF ToldTruly, AttachmentsTyped, Catalogs
  <2>6. QED
    BY <1>2, <2>2, <2>3, <2>4, <2>5
<1>5. ASSUME NEW c \in Conns, StreamReopens(c) PROVE AttachmentsInv'
  <2>1. /\ conn[c] \in ConnRecords /\ ToldTruly(c) /\ conn[c].up
        /\ remote[conn[c].server] \in Catalogs
    BY <1>0, <1>5 DEF AttachmentsTyped, StreamReopens, ToldTruly
  <2>2. UNCHANGED << remote, open, slot, worker >>
    BY <1>5 DEF StreamReopens
  <2>3. CASE conn' = [conn EXCEPT ![c].stream = "open", ![c].gen = @ + 1,
                                  ![c].told = remote[conn[c].server]]
    <3>0. PICK n, r : n = conn[c].gen + 1 /\ r = remote[conn[c].server]
      OBVIOUS
    <3>1. PICK q : q = [conn[c] EXCEPT !.stream = "open", !.gen = n, !.told = r]
      OBVIOUS
    <3>2. /\ q \in ConnRecords /\ q.up /\ q.server = conn[c].server /\ q.gen = conn[c].gen + 1
          /\ q.told = remote[conn[c].server] /\ q.pipe = conn[c].pipe
      <4>1. n \in Nat /\ r \in Catalogs
        BY <2>1, <3>0 DEF ConnRecords
      <4>2. /\ q \in ConnRecords /\ q.up = conn[c].up /\ q.server = conn[c].server
            /\ q.gen = n /\ q.told = r /\ q.pipe = conn[c].pipe
        BY <2>1, <3>1, <4>1 DEF ConnRecords
      <4>3. QED
        BY <2>1, <3>0, <4>2
    <3>3. conn' = [conn EXCEPT ![c] = q]
      BY <1>0, <2>3, <3>0, <3>1 DEF AttachmentsTyped
    <3>4. q.told <= remote[q.server] /\ q.pipe <= remote[q.server]
      BY <1>0, <2>1, <3>2 DEF ToldTruly, Catalogs
    <3>5. QED
      BY <1>2, <2>1, <2>2, <3>2, <3>3, <3>4
  <2>4. ASSUME NEW q, conn' = [conn EXCEPT ![c] = q],
               \/ q = [conn[c] EXCEPT !.stream = "none"]
               \/ q = [conn[c] EXCEPT !.failed = TRUE]
        PROVE  AttachmentsInv'
    <3>1. /\ q \in ConnRecords /\ q.up /\ q.server = conn[c].server /\ q.gen = conn[c].gen
          /\ q.told = conn[c].told /\ q.pipe = conn[c].pipe
      <4>1. CASE q = [conn[c] EXCEPT !.stream = "none"]
        BY <2>1, <4>1 DEF ConnRecords
      <4>2. CASE q = [conn[c] EXCEPT !.failed = TRUE]
        BY <2>1, <4>2 DEF ConnRecords
      <4>3. QED
        BY <2>4, <4>1, <4>2
    <3>2. q.pipe <= remote[q.server]
      BY <2>1, <3>1 DEF ToldTruly
    <3>3. QED
      BY <1>2, <2>1, <2>2, <2>4, <3>1, <3>2
  <2>5. CASE conn' = [conn EXCEPT ![c].stream = "none"]
    <3>1. PICK q : q = [conn[c] EXCEPT !.stream = "none"]
      OBVIOUS
    <3>2. conn' = [conn EXCEPT ![c] = q]
      BY <1>0, <2>5, <3>1 DEF AttachmentsTyped
    <3>3. QED
      BY <2>4, <3>1, <3>2
  <2>6. CASE conn' = [conn EXCEPT ![c].failed = TRUE]
    <3>1. PICK q : q = [conn[c] EXCEPT !.failed = TRUE]
      OBVIOUS
    <3>2. conn' = [conn EXCEPT ![c] = q]
      BY <1>0, <2>6, <3>1 DEF AttachmentsTyped
    <3>3. QED
      BY <2>4, <3>1, <3>2
  <2>7. QED
    BY <1>5, <2>3, <2>5, <2>6 DEF StreamReopens
<1>6. QED
  BY <1>1, <1>3, <1>4, <1>5

-----------------------------------------------------------------------------
(* The refreshes.                                                          *)

\* A new connection as its handshake leaves it.
LEMMA FreshIs ==
  ASSUME remote \in [Servers -> Catalogs], NEW s \in Servers, NEW stream \in Streams(s)
  PROVE  /\ Fresh(s, stream) \in ConnRecords /\ Fresh(s, stream).up
         /\ Fresh(s, stream).server = s /\ Fresh(s, stream).told = remote[s]
         /\ Fresh(s, stream).pipe = 0
<1>1. stream \in {"open", "none"} /\ remote[s] \in Catalogs
  BY DEF Streams
<1>2. PICK r : r = remote[s]
  OBVIOUS
<1>3. PICK h : h = [NoConn EXCEPT !.up = TRUE, !.server = s, !.stream = "open", !.told = r]
  OBVIOUS
<1>4. h \in ConnRecords /\ h.up /\ h.server = s /\ h.told = r /\ h.pipe = 0
  BY <1>1, <1>2, <1>3, NoConnIs DEF ConnRecords, AnyServer
<1>5. Handshake(s) = h
  BY <1>2, <1>3 DEF Handshake
<1>6. PICK g : g = IF stream = "open" THEN 1 ELSE 0
  OBVIOUS
<1>7. g \in Nat
  BY <1>6
<1>8. PICK k : k = [h EXCEPT !.stream = stream, !.gen = g]
  OBVIOUS
<1>9. k \in ConnRecords /\ k.up /\ k.server = s /\ k.told = r /\ k.pipe = 0
  BY <1>1, <1>4, <1>7, <1>8 DEF ConnRecords
<1>10. HandshakeHttp(s, stream) = k
  BY <1>5, <1>6, <1>8 DEF HandshakeHttp
<1>11. Fresh(s, stream) \in {h, k}
  BY <1>5, <1>10 DEF Fresh
<1>12. QED
  BY <1>2, <1>4, <1>9, <1>11

\* A refresh goes on with what it has, drops it, or has a new connection instead.
LEMMA WorkGoes ==
  ASSUME AttachmentsInv, NEW w \in Workers, NEW q \in WorkRecords,
         UNCHANGED << remote, open, slot >>, worker' = [worker EXCEPT ![w] = q],
         Busy(w), q.pc \in {"taken", "listing", "back"}, q.name = worker[w].name,
         conn' \in [Conns -> ConnRecords],
         \A c \in Conns : c \notin {worker[w].held.conn, q.held.conn} => conn'[c] = conn[c],
         worker[w].held.conn # 0 /\ worker[w].held.conn # q.held.conn =>
           ~conn'[worker[w].held.conn].up,
         q.held.conn # 0 => /\ q.held.conn \in Conns /\ ToldTruly(q.held.conn)'
                            /\ q.held.conn = worker[w].held.conn \/ ~conn[q.held.conn].up,
         WorkFits(w)'
  PROVE  AttachmentsInv'
<1>0. AttachmentsTyped /\ worker'[w] = q /\ \A v \in Workers : v # w => worker'[v] = worker[v]
  BY DEF AttachmentsInv, AttachmentsTyped
<1>1. AttachmentsTyped'
  BY <1>0 DEF AttachmentsTyped
<1>2. ASSUME NEW c \in Conns, conn[c].up, c # worker[w].held.conn PROVE conn'[c] = conn[c]
  <2>1. c # q.held.conn \/ q.held.conn = worker[w].held.conn
    <3>1. 0 \notin Conns
      BY DEF Conns
    <3>2. QED
      BY <1>2, <3>1
  <2>2. QED
    BY <1>2, <2>1
<1>3. ASSUME NEW s \in Servers PROVE SlotFits(s)'
  <2>1. SlotFits(s) /\ SlotApart(s, w)
    BY DEF AttachmentsInv
  <2>2. slot[s].conn # 0 => conn'[slot[s].conn] = conn[slot[s].conn]
    BY <1>2, <2>1 DEF SlotFits, SlotApart, ConnServes
  <2>3. QED
    BY <2>1, <2>2, SlotStays
<1>4. ASSUME NEW v \in Workers PROVE WorkFits(v)'
  <2>1. CASE v = w
    BY <2>1
  <2>2. CASE v # w
    <3>1. WorkFits(v) /\ WorkApart(v, w) /\ worker'[v] = worker[v]
      BY <1>0, <2>2 DEF AttachmentsInv
    <3>2. worker[v].held.conn # 0 => conn'[worker[v].held.conn] = conn[worker[v].held.conn]
      BY <1>2, <3>1 DEF WorkFits, WorkApart, ConnServes
    <3>3. open' /\ Busy(v) => open /\ slot'[worker[v].name].refreshing
      BY <3>1 DEF WorkFits
    <3>4. QED
      BY <3>1, <3>2, <3>3, WorkStays
  <2>3. QED
    BY <2>1, <2>2
<1>5. ASSUME NEW c \in Conns PROVE ConnFits(c)'
  <2>0. 0 \notin Conns /\ ConnFits(c)
    BY DEF Conns, AttachmentsInv
  <2>1. CASE c = q.held.conn
    <3>1. ToldTruly(c)' /\ IsHeld(c)'
      BY <1>0, <2>0, <2>1 DEF IsHeld
    <3>2. QED
      BY <3>1 DEF ConnFits
  <2>2. CASE c # q.held.conn /\ c = worker[w].held.conn
    BY <2>0, <2>2 DEF ConnFits
  <2>3. CASE c # q.held.conn /\ c # worker[w].held.conn
    <3>1. conn'[c] = conn[c]
      BY <2>3
    <3>2. IsHeld(c) => IsHeld(c)'
      BY <1>0, <2>3 DEF IsHeld
    <3>3. QED
      BY <2>0, <3>1, <3>2, ConnStays
  <2>4. QED
    BY <2>1, <2>2, <2>3
\* The connection it has now is nobody else's.
<1>6. ASSUME q.held.conn # 0
      PROVE  /\ \A v \in Workers : v # w => worker[v].held.conn # q.held.conn
             /\ \A s \in Servers : slot[s].conn # q.held.conn
  <2>1. CASE q.held.conn = worker[w].held.conn
    <3>1. \A v \in Workers : v # w => WorkApart(w, v)
      BY DEF AttachmentsInv
    <3>2. \A s \in Servers : SlotApart(s, w)
      BY DEF AttachmentsInv
    <3>3. QED
      BY <1>6, <2>1, <3>1, <3>2 DEF WorkApart, SlotApart
  <2>2. CASE ~conn[q.held.conn].up
    BY <1>6, <2>2 DEF AttachmentsInv, WorkFits, SlotFits, ConnServes
  <2>3. QED
    BY <1>6, <2>1, <2>2
<1>7. ASSUME NEW u \in Workers, NEW v \in Workers, u # v PROVE WorkApart(u, v)'
  <2>0. WorkApart(u, v)
    BY <1>7 DEF AttachmentsInv
  <2>1. CASE u # w /\ v # w
    BY <1>0, <2>0, <2>1, ApartStays
  <2>2. CASE u = w
    <3>1. worker'[u] = q /\ worker'[v] = worker[v]
      BY <1>0, <1>7, <2>2
    <3>2. open' /\ Busy(u)' /\ Busy(v)' => worker'[u].name # worker'[v].name
      BY <2>0, <2>2, <3>1 DEF WorkApart, Busy
    <3>3. q.held.conn # 0 => q.held.conn # worker[v].held.conn
      BY <1>6, <1>7, <2>2
    <3>4. QED
      BY <3>1, <3>2, <3>3 DEF WorkApart
  <2>3. CASE v = w
    <3>1. worker'[v] = q /\ worker'[u] = worker[u]
      BY <1>0, <1>7, <2>3
    <3>2. open' /\ Busy(u)' /\ Busy(v)' => worker'[u].name # worker'[v].name
      BY <2>0, <2>3, <3>1 DEF WorkApart, Busy
    <3>3. worker[u].held.conn # 0 => q.held.conn # worker[u].held.conn
      BY <1>6, <1>7, <2>3
    <3>4. QED
      BY <3>1, <3>2, <3>3 DEF WorkApart
  <2>4. QED
    BY <2>1, <2>2, <2>3
<1>8. ASSUME NEW s \in Servers, NEW v \in Workers PROVE SlotApart(s, v)'
  <2>0. SlotApart(s, v)
    BY DEF AttachmentsInv
  <2>1. CASE v # w
    BY <1>0, <2>0, <2>1 DEF SlotApart
  <2>2. CASE v = w
    BY <1>0, <1>6, <2>2 DEF SlotApart
  <2>3. QED
    BY <2>1, <2>2
<1>9. QED
  BY <1>1, <1>3, <1>4, <1>5, <1>7, <1>8 DEF AttachmentsInv

\* A worker that gives up ends what it has and puts the server back empty.
LEMMA GivesUpStep ==
  ASSUME AttachmentsInv, NEW w \in Workers, Busy(w), UNCHANGED << remote, open, slot >>,
         GivesUp(w, {worker[w].held.conn} \ {0})
  PROVE  AttachmentsInv'
<1>0. AttachmentsTyped /\ WorkFits(w) /\ worker[w] \in WorkRecords
  BY DEF AttachmentsInv, AttachmentsTyped
<1>1. PICK cs : cs = {worker[w].held.conn} \ {0}
  OBVIOUS
<1>2. conn' = Ended(cs)
  BY <1>1 DEF GivesUp
<1>3. /\ conn' \in [Conns -> ConnRecords]
      /\ \A c \in Conns : c \notin cs => conn'[c] = conn[c]
      /\ \A c \in Conns : c \in cs => ~conn'[c].up
  BY <1>0, <1>2, EndedIs
<1>4. PICK h : h = Attached(0, 0, worker[w].held.listed)
  OBVIOUS
<1>5. h \in Slots /\ h.conn = 0
  BY <1>0, <1>4, NoConnIs DEF Attached, Slots, WorkRecords
<1>6. PICK q : q = [worker[w] EXCEPT !.pc = "back", !.held = h]
  OBVIOUS
<1>7. /\ q \in WorkRecords /\ q.pc = "back" /\ q.held = h /\ q.name = worker[w].name
      /\ worker' = [worker EXCEPT ![w] = q]
  BY <1>0, <1>4, <1>5, <1>6 DEF WorkRecords, GivesUp, Goes
<1>8. WorkFits(w)'
  <2>1. worker'[w] = q
    BY <1>0, <1>7 DEF AttachmentsTyped
  <2>2. QED
    BY <1>0, <1>5, <1>7, <2>1 DEF WorkFits, Busy
<1>9. worker[w].held.conn # 0 => worker[w].held.conn \in Conns /\ worker[w].held.conn \in cs
  BY <1>0, <1>1 DEF WorkFits, ConnServes
<1>10. \A c \in Conns : c # worker[w].held.conn => c \notin cs
  BY <1>1
<1>11. QED
  BY <1>3, <1>5, <1>7, <1>8, <1>9, <1>10, WorkGoes

LEMMA ListsStep ==
  ASSUME AttachmentsInv, NEW w \in Workers, Lists(w) PROVE AttachmentsInv'
<1>0. AttachmentsTyped /\ WorkFits(w) /\ worker[w] \in WorkRecords /\ Busy(w)
  BY DEF AttachmentsInv, AttachmentsTyped, Lists, Busy
<1>1. PICK c : c = worker[w].held.conn
  OBVIOUS
<1>2. UNCHANGED << remote, open, slot >> /\ worker[w].pc = "taken"
  BY DEF Lists
<1>3. CASE /\ c # 0
           /\ Goes(w, [worker[w] EXCEPT !.pc = "listing", !.gen = conn[c].gen,
                                        !.version = remote[worker[w].name]])
           /\ UNCHANGED << conn, cleanup >>
  <2>1. PICK g, v : g = conn[c].gen /\ v = remote[worker[w].name]
    OBVIOUS
  <2>2. c \in Conns /\ conn[c] \in ConnRecords /\ conn[c].server = worker[w].name /\ conn[c].up
    BY <1>0, <1>1, <1>3 DEF WorkFits, ConnServes, AttachmentsTyped
  <2>3. ToldTruly(c)
    BY <2>2 DEF AttachmentsInv, ConnFits
  <2>4. g \in Nat /\ v \in Catalogs /\ worker[w].name \in Servers /\ conn[c].told <= v
    BY <1>0, <2>1, <2>2, <2>3 DEF ConnRecords, ToldTruly, AttachmentsTyped
  <2>5. PICK q : q = [worker[w] EXCEPT !.pc = "listing", !.gen = g, !.version = v]
    OBVIOUS
  <2>6. /\ q \in WorkRecords /\ q.pc = "listing" /\ q.held = worker[w].held
        /\ q.name = worker[w].name /\ q.gen = g /\ q.version = v
    BY <1>0, <2>4, <2>5 DEF WorkRecords
  <2>7. worker' = [worker EXCEPT ![w] = q] /\ conn' = conn
    BY <1>3, <2>1, <2>5 DEF Goes
  <2>8. worker'[w] = q
    BY <1>0, <2>7 DEF AttachmentsTyped
  <2>9. conn[c].told \in Nat /\ v \in Nat
    BY <2>2, <2>4, AttachmentAssumption DEF ConnRecords, Catalogs
  <2>10. IsListed(c, v, g)
    BY <2>1, <2>4, <2>9 DEF IsListed
  <2>11. WorkFits(w)'
    <3>1. /\ worker'[w].held = worker[w].held /\ worker'[w].held.conn = c
          /\ worker'[w].version = v /\ worker'[w].gen = g
          /\ worker'[w].pc = "listing" /\ worker'[w].name = worker[w].name
      BY <1>1, <2>6, <2>8
    <3>2. IsListed(c, v, g)'
      BY <2>7, <2>10 DEF IsListed
    <3>3. c \in Conns /\ conn'[c].up /\ conn'[c].server = worker[w].name
      BY <2>2, <2>7
    <3>4. ~worker[w].held.refreshing /\ (open' => slot'[worker[w].name].refreshing)
      BY <1>0, <1>1, <1>2, <1>3 DEF WorkFits
    <3>5. QED
      BY <1>3, <2>4, <3>1, <3>2, <3>3, <3>4 DEF WorkFits, Busy, ConnServes, IsListed
  <2>12. ToldTruly(c)'
    BY <1>2, <2>3, <2>7 DEF ToldTruly
  <2>13. conn' \in [Conns -> ConnRecords]
    BY <1>0, <2>7 DEF AttachmentsTyped
  <2>14. QED
    BY <1>0, <1>1, <1>2, <2>2, <2>6, <2>7, <2>11, <2>12, <2>13, WorkGoes
<1>4. CASE GivesUp(w, {c} \ {0})
  BY <1>0, <1>1, <1>2, <1>4, GivesUpStep
<1>5. QED
  BY <1>1, <1>3, <1>4 DEF Lists

LEMMA ReconnectsStep ==
  ASSUME AttachmentsInv, NEW w \in Workers, Reconnects(w) PROVE AttachmentsInv'
<1>0. /\ AttachmentsTyped /\ WorkFits(w) /\ worker[w] \in WorkRecords /\ Busy(w)
      /\ worker[w].name \in Servers
  BY DEF AttachmentsInv, AttachmentsTyped, Reconnects, Busy, WorkFits
<1>1. PICK old, s : old = {worker[w].held.conn} \ {0} /\ s = worker[w].name
  OBVIOUS
<1>2. UNCHANGED << remote, open, slot >> /\ worker[w].pc = "taken"
  BY DEF Reconnects
<1>3. CASE GivesUp(w, old)
  BY <1>0, <1>1, <1>2, <1>3, GivesUpStep
<1>4. ASSUME NEW c \in Conns, NEW stream \in Streams(s), conn[c] = NoConn,
             conn' = [Ended(old) EXCEPT ![c] = Fresh(s, stream)],
             Goes(w, [worker[w] EXCEPT !.pc = "listing", !.version = remote[s],
                        !.gen = conn'[c].gen, !.held = Attached(c, 0, 0)])
      PROVE  AttachmentsInv'
  <2>1. PICK f : f = Fresh(s, stream)
    OBVIOUS
  <2>2. f \in ConnRecords /\ f.up /\ f.server = s /\ f.told = remote[s] /\ f.pipe = 0
    BY <1>0, <1>1, <2>1, FreshIs DEF AttachmentsTyped
  <2>3. PICK e : e = Ended(old)
    OBVIOUS
  <2>4. /\ e \in [Conns -> ConnRecords]
        /\ \A d \in Conns : d \notin old => e[d] = conn[d]
        /\ \A d \in Conns : d \in old => ~e[d].up
    BY <1>0, <2>3, EndedIs
  <2>5. conn' = [e EXCEPT ![c] = f]
    BY <1>4, <2>1, <2>3
  <2>6. /\ conn' \in [Conns -> ConnRecords] /\ conn'[c] = f
        /\ \A d \in Conns : d # c => conn'[d] = e[d]
    BY <2>2, <2>4, <2>5
  <2>7. PICK g, v : g = conn'[c].gen /\ v = remote[s]
    OBVIOUS
  <2>8. g \in Nat /\ v \in Catalogs /\ v \in Nat /\ f.gen = g
    BY <1>0, <1>1, <2>2, <2>6, <2>7, AttachmentAssumption
    DEF ConnRecords, AttachmentsTyped, Catalogs
  <2>9. PICK h : h = Attached(c, 0, 0)
    OBVIOUS
  <2>10. h \in Slots /\ h.conn = c /\ ~h.refreshing
    BY <2>9, NoConnIs DEF Attached, Slots, Conns
  <2>11. PICK q : q = [worker[w] EXCEPT !.pc = "listing", !.version = v, !.gen = g, !.held = h]
    OBVIOUS
  <2>12. /\ q \in WorkRecords /\ q.pc = "listing" /\ q.held = h
         /\ q.name = worker[w].name /\ q.gen = g /\ q.version = v
    BY <1>0, <2>8, <2>10, <2>11 DEF WorkRecords
  <2>13. worker' = [worker EXCEPT ![w] = q]
    BY <1>4, <2>7, <2>9, <2>11 DEF Goes
  <2>14. worker'[w] = q /\ ~conn[c].up /\ c # 0
    BY <1>0, <1>4, <2>13, NoConnIs DEF AttachmentsTyped, Conns
  <2>15. ToldTruly(c)'
    <3>1. f.told <= remote'[f.server] /\ f.pipe <= remote'[f.server]
      BY <1>1, <1>2, <2>2, <2>7, <2>8
    <3>2. QED
      BY <1>0, <1>1, <2>2, <2>6, <3>1 DEF ToldTruly
  <2>16. WorkFits(w)'
    <3>1. /\ worker'[w].held.conn = c /\ worker'[w].version = v /\ worker'[w].gen = g
          /\ worker'[w].name = s /\ worker'[w].pc = "listing" /\ ~worker'[w].held.refreshing
      BY <1>1, <2>10, <2>12, <2>14
    <3>2. IsListed(c, v, g)'
      BY <2>2, <2>6, <2>7, <2>8 DEF IsListed
    <3>3. ConnServes(c, s)'
      BY <1>4, <2>2, <2>6 DEF ConnServes
    <3>4. open' => slot'[s].refreshing
      BY <1>0, <1>1, <1>2 DEF WorkFits
    <3>5. QED
      BY <1>0, <1>1, <2>14, <3>1, <3>2, <3>3, <3>4 DEF WorkFits, Busy, IsListed, ConnServes
  <2>17. worker[w].held.conn # 0 =>
           /\ worker[w].held.conn \in Conns /\ worker[w].held.conn \in old
           /\ worker[w].held.conn # c
    BY <1>0, <1>1, <2>14 DEF WorkFits, ConnServes
  <2>18. \A d \in Conns : d \notin {worker[w].held.conn, q.held.conn} => conn'[d] = conn[d]
    BY <1>1, <2>4, <2>6, <2>10, <2>12
  <2>19. worker[w].held.conn # 0 /\ worker[w].held.conn # q.held.conn =>
           ~conn'[worker[w].held.conn].up
    BY <2>4, <2>6, <2>17
  <2>20. q.held.conn \in Conns /\ q.held.conn = c
    BY <1>4, <2>10, <2>12
  <2>21. QED
    BY <1>0, <1>2, <2>6, <2>12, <2>13, <2>14, <2>15, <2>16, <2>18, <2>19, <2>20, WorkGoes
<1>5. QED
  BY <1>1, <1>3, <1>4 DEF Reconnects

LEMMA ListedStep ==
  ASSUME AttachmentsInv, NEW w \in Workers, Listed(w) PROVE AttachmentsInv'
<1>0. /\ AttachmentsTyped /\ WorkFits(w) /\ worker[w] \in WorkRecords /\ Busy(w)
  BY DEF AttachmentsInv, AttachmentsTyped, Listed, Busy
<1>1. PICK c : c = worker[w].held.conn
  OBVIOUS
<1>2. UNCHANGED << remote, open, slot >> /\ worker[w].pc = "listing"
  BY DEF Listed
<1>3. /\ c \in Conns /\ c # 0 /\ conn[c].up /\ conn[c].server = worker[w].name
      /\ IsListed(c, worker[w].version, worker[w].gen)
  BY <1>0, <1>1, <1>2 DEF WorkFits, ConnServes
<1>4. CASE /\ Goes(w, [worker[w] EXCEPT !.pc = "back",
                         !.held = Attached(c, worker[w].version, CountedBefore(w))])
           /\ UNCHANGED << conn, cleanup, faults >>
  <2>1. PICK h : h = Attached(c, worker[w].version, CountedBefore(w))
    OBVIOUS
  <2>2. /\ h \in Slots /\ h.conn = c /\ ~h.refreshing
        /\ h.version = worker[w].version /\ h.listed = worker[w].gen
    BY <1>0, <1>3, <2>1 DEF Attached, CountedBefore, Slots, Conns, WorkRecords
  <2>3. PICK q : q = [worker[w] EXCEPT !.pc = "back", !.held = h]
    OBVIOUS
  <2>4. /\ q \in WorkRecords /\ q.pc = "back" /\ q.held = h /\ q.name = worker[w].name
        /\ worker' = [worker EXCEPT ![w] = q] /\ conn' = conn
    BY <1>0, <1>4, <2>1, <2>2, <2>3 DEF WorkRecords, Goes
  <2>5. worker'[w] = q /\ conn' \in [Conns -> ConnRecords]
    BY <1>0, <2>4 DEF AttachmentsTyped
  <2>6. ToldTruly(c)'
    BY <1>2, <1>3, <2>4 DEF AttachmentsInv, ConnFits, ToldTruly
  <2>7. WorkFits(w)'
    <3>1. /\ worker'[w].held.conn = c /\ ~worker'[w].held.refreshing
          /\ worker'[w].held.version = worker[w].version
          /\ worker'[w].held.listed = worker[w].gen
          /\ worker'[w].pc = "back" /\ worker'[w].name = worker[w].name
      BY <2>2, <2>4, <2>5
    <3>2. QED
      BY <1>0, <1>2, <1>3, <2>4, <3>1 DEF WorkFits, Busy, ConnServes, IsListed
  <2>8. QED
    BY <1>0, <1>1, <1>2, <1>3, <2>2, <2>4, <2>5, <2>6, <2>7, WorkGoes
<1>5. CASE GivesUp(w, {c})
  <2>1. {c} = {worker[w].held.conn} \ {0}
    BY <1>1, <1>3
  <2>2. QED
    BY <1>0, <1>2, <1>5, <2>1, GivesUpStep
<1>6. QED
  BY <1>1, <1>4, <1>5 DEF Listed

-----------------------------------------------------------------------------
(* The slots.                                                              *)

\* take_for_refresh: a placeholder is left for what the worker takes.
LEMMA TakeStep ==
  ASSUME AttachmentsInv, NEW w \in Workers, NEW s \in Servers, NEW reconnect \in BOOLEAN,
         open, ~slot[s].refreshing, Take(w, s, reconnect)
  PROVE  AttachmentsInv'
<1>0. /\ AttachmentsTyped /\ WorkFits(w) /\ SlotFits(s) /\ slot[s] \in Slots
      /\ worker[w].pc = "idle" /\ ~Busy(w) /\ worker[w].held.conn = 0
  BY DEF AttachmentsInv, AttachmentsTyped, Take, Busy, WorkFits
<1>1. UNCHANGED << remote, conn, open >>
  BY DEF Take
<1>2. PICK h : h = slot[s]
  OBVIOUS
<1>3. PICK q : q = [NoWork EXCEPT !.pc = "taken", !.name = s, !.reconnect = reconnect, !.held = h]
  OBVIOUS
<1>4. /\ q \in WorkRecords /\ q.pc = "taken" /\ q.name = s /\ q.held = h
  BY <1>0, <1>2, <1>3, NoConnIs DEF WorkRecords, AnyServer
<1>5. worker' = [worker EXCEPT ![w] = q] /\ slot' = [slot EXCEPT ![s] = Placeholder]
  BY <1>2, <1>3 DEF Take
<1>6. /\ worker'[w] = q /\ \A v \in Workers : v # w => worker'[v] = worker[v]
      /\ slot'[s] = Placeholder /\ \A t \in Servers : t # s => slot'[t] = slot[t]
  BY <1>0, <1>5 DEF AttachmentsTyped
<1>7. AttachmentsTyped'
  BY <1>0, <1>1, <1>4, <1>5, NoConnIs DEF AttachmentsTyped
<1>8. ASSUME NEW t \in Servers PROVE SlotFits(t)'
  <2>1. CASE t = s
    BY <1>6, <2>1, NoConnIs DEF SlotFits
  <2>2. CASE t # s
    BY <1>1, <1>6, <2>2, SlotStays DEF AttachmentsInv
  <2>3. QED
    BY <2>1, <2>2
<1>9. ASSUME NEW v \in Workers PROVE WorkFits(v)'
  <2>1. CASE v = w
    <3>1. h.conn # 0 => ConnServes(h.conn, s)' /\ ~h.refreshing /\ IsListed(h.conn, h.version, h.listed)'
      BY <1>0, <1>1, <1>2 DEF SlotFits, ConnServes, IsListed
    <3>2. worker'[v].held = h /\ worker'[v].pc = "taken" /\ worker'[v].name = s
      BY <1>4, <1>6, <2>1
    <3>3. slot'[s].refreshing
      BY <1>6, NoConnIs
    <3>4. QED
      BY <3>1, <3>2, <3>3 DEF WorkFits, Busy, ConnServes, IsListed
  <2>2. CASE v # w
    <3>1. WorkFits(v) /\ worker'[v] = worker[v]
      BY <1>6, <2>2 DEF AttachmentsInv
    <3>2. Busy(v) => slot'[worker[v].name].refreshing
      <4>1. Busy(v) => worker[v].name \in Servers /\ slot[worker[v].name].refreshing
        BY <3>1 DEF WorkFits
      <4>2. QED
        BY <1>6, <4>1, NoConnIs
    <3>3. QED
      BY <1>1, <3>1, <3>2, WorkStays
  <2>3. QED
    BY <2>1, <2>2
<1>10. ASSUME NEW c \in Conns PROVE ConnFits(c)'
  <2>1. IsHeld(c) => IsHeld(c)'
    <3>0. 0 \notin Conns
      BY DEF Conns
    <3>1. ASSUME NEW t \in Servers, slot[t].conn = c PROVE IsHeld(c)'
      <4>1. CASE t = s
        BY <1>2, <1>4, <1>6, <3>1, <4>1 DEF IsHeld
      <4>2. CASE t # s
        BY <1>6, <3>1, <4>2 DEF IsHeld
      <4>3. QED
        BY <4>1, <4>2
    <3>2. ASSUME NEW v \in Workers, worker[v].held.conn = c PROVE IsHeld(c)'
      <4>1. v # w
        BY <1>0, <3>0, <3>2
      <4>2. QED
        BY <1>6, <3>2, <4>1 DEF IsHeld
    <3>3. QED
      BY <3>1, <3>2 DEF IsHeld
  <2>2. ConnFits(c)
    BY DEF AttachmentsInv
  <2>3. QED
    BY <1>1, <2>1, <2>2, ConnStays
<1>11. ASSUME NEW v \in Workers, v # w
       PROVE  (h.conn # 0 => worker[v].held.conn # h.conn) /\ (Busy(v) => worker[v].name # s)
  <2>1. SlotApart(s, v) /\ WorkFits(v)
    BY DEF AttachmentsInv
  <2>2. QED
    BY <1>0, <1>2, <2>1 DEF SlotApart, WorkFits
<1>12. ASSUME NEW u \in Workers, NEW v \in Workers, u # v PROVE WorkApart(u, v)'
  <2>0. WorkApart(u, v)
    BY <1>12 DEF AttachmentsInv
  <2>1. CASE u # w /\ v # w
    BY <1>1, <1>6, <2>0, <2>1, ApartStays
  <2>2. CASE u = w
    <3>1. worker'[u] = q /\ worker'[v] = worker[v] /\ v # w
      BY <1>6, <1>12, <2>2
    <3>2. QED
      BY <1>4, <1>11, <3>1 DEF WorkApart, Busy
  <2>3. CASE v = w
    <3>1. worker'[v] = q /\ worker'[u] = worker[u] /\ u # w
      BY <1>6, <1>12, <2>3
    <3>2. QED
      BY <1>4, <1>11, <3>1 DEF WorkApart, Busy
  <2>4. QED
    BY <2>1, <2>2, <2>3
<1>13. ASSUME NEW t \in Servers, NEW v \in Workers PROVE SlotApart(t, v)'
  <2>0. SlotApart(t, v)
    BY DEF AttachmentsInv
  <2>1. CASE t = s
    BY <1>6, <2>1, NoConnIs DEF SlotApart
  <2>2. CASE t # s /\ v # w
    BY <1>6, <2>0, <2>2 DEF SlotApart
  <2>3. CASE t # s /\ v = w
    <3>1. slot'[t] = slot[t] /\ worker'[v].held.conn = h.conn
      BY <1>4, <1>6, <2>3
    <3>2. slot[t].conn # 0 => conn[slot[t].conn].server = t
      BY DEF AttachmentsInv, SlotFits, ConnServes
    <3>3. h.conn # 0 => conn[h.conn].server = s
      BY <1>0, <1>2 DEF SlotFits, ConnServes
    <3>4. slot[t].conn # 0 => h.conn # slot[t].conn
      BY <2>3, <3>2, <3>3
    <3>5. QED
      BY <3>1, <3>4 DEF SlotApart
  <2>4. QED
    BY <2>1, <2>2, <2>3
<1>14. QED
  BY <1>7, <1>8, <1>9, <1>10, <1>12, <1>13 DEF AttachmentsInv

\* What a worker has taken is put back, or ended when the session is closed.
LEMMA RestoresStep ==
  ASSUME AttachmentsInv, NEW w \in Workers, Restores(w) PROVE AttachmentsInv'
<1>0. /\ AttachmentsTyped /\ WorkFits(w) /\ worker[w] \in WorkRecords /\ Busy(w)
      /\ worker[w].pc = "back" /\ worker[w].name \in Servers
  BY DEF AttachmentsInv, AttachmentsTyped, Restores, Busy, WorkFits
<1>1. UNCHANGED << remote, open >>
  BY DEF Restores
<1>2. PICK h, s : h = worker[w].held /\ s = worker[w].name
  OBVIOUS
<1>3. PICK q : q = IF w = Watch THEN NoWork ELSE [NoWork EXCEPT !.pc = "done"]
  OBVIOUS
<1>4. q \in WorkRecords /\ q.pc \in {"idle", "done"} /\ q.held = Placeholder /\ q.held.conn = 0
  BY <1>3, NoConnIs DEF WorkRecords
<1>5. worker' = [worker EXCEPT ![w] = q]
  BY <1>3 DEF Restores, Goes
<1>6. worker'[w] = q /\ \A v \in Workers : v # w => worker'[v] = worker[v]
  BY <1>0, <1>5 DEF AttachmentsTyped
<1>7. h \in Slots /\ s \in Servers
  BY <1>0, <1>2 DEF WorkRecords
\* The worker itself, and its distance to the others.
<1>8. WorkFits(w)'
  BY <1>4, <1>6 DEF WorkFits, Busy
<1>9. ASSUME NEW u \in Workers, NEW v \in Workers, u # v PROVE WorkApart(u, v)'
  <2>0. WorkApart(u, v)
    BY <1>9 DEF AttachmentsInv
  <2>1. CASE u # w /\ v # w
    BY <1>1, <1>6, <2>0, <2>1, ApartStays
  <2>2. CASE u = w
    BY <1>4, <1>6, <2>2 DEF WorkApart, Busy
  <2>3. CASE v = w
    BY <1>4, <1>6, <2>3 DEF WorkApart, Busy
  <2>4. QED
    BY <2>1, <2>2, <2>3
<1>10. CASE open
  <2>1. slot[s].refreshing
    BY <1>0, <1>2, <1>10 DEF WorkFits
  <2>2. slot' = [slot EXCEPT ![s] = h] /\ conn' = Ended({})
    BY <1>2, <1>10, <2>1 DEF Restores, Dropped
  <2>3. conn' = conn
    <3>1. conn' \in [Conns -> ConnRecords] /\ \A c \in Conns : conn'[c] = conn[c]
      BY <1>0, <2>2, EndedIs
    <3>2. QED
      BY <1>0, <3>1 DEF AttachmentsTyped
  <2>4. slot'[s] = h /\ \A t \in Servers : t # s => slot'[t] = slot[t]
    BY <1>0, <1>7, <2>2 DEF AttachmentsTyped
  <2>5. AttachmentsTyped'
    BY <1>0, <1>1, <1>4, <1>5, <1>7, <2>2, <2>3 DEF AttachmentsTyped
  <2>6. ASSUME NEW t \in Servers PROVE SlotFits(t)'
    <3>1. CASE t = s
      <4>1. h.conn # 0 => ConnServes(h.conn, s) /\ ~h.refreshing /\ IsListed(h.conn, h.version, h.listed)
        BY <1>0, <1>2 DEF WorkFits
      <4>2. h.conn # 0 => ConnServes(h.conn, s)' /\ IsListed(h.conn, h.version, h.listed)'
        BY <2>3, <4>1 DEF ConnServes, IsListed
      <4>3. QED
        BY <1>1, <1>10, <2>4, <3>1, <4>1, <4>2 DEF SlotFits, ConnServes, IsListed
    <3>2. CASE t # s
      BY <1>1, <2>3, <2>4, <3>2, SlotStays DEF AttachmentsInv
    <3>3. QED
      BY <3>1, <3>2
  <2>7. ASSUME NEW v \in Workers, v # w PROVE WorkFits(v)'
    <3>1. WorkFits(v) /\ WorkApart(v, w) /\ worker'[v] = worker[v]
      BY <1>6, <2>7 DEF AttachmentsInv
    <3>2. Busy(v) => worker[v].name \in Servers /\ slot[worker[v].name].refreshing /\ worker[v].name # s
      BY <1>0, <1>2, <1>10, <3>1 DEF WorkFits, WorkApart
    <3>3. Busy(v) => slot'[worker[v].name].refreshing
      BY <2>4, <3>2
    <3>4. QED
      BY <1>10, <2>3, <3>1, <3>3, WorkStays
  <2>8. ASSUME NEW c \in Conns PROVE ConnFits(c)'
    <3>0. 0 \notin Conns
      BY DEF Conns
    <3>1. ASSUME NEW t \in Servers, slot[t].conn = c PROVE IsHeld(c)'
      <4>1. t # s
        BY <2>1, <3>0, <3>1 DEF AttachmentsInv, SlotFits
      <4>2. QED
        BY <2>4, <3>1, <4>1 DEF IsHeld
    <3>2. ASSUME NEW v \in Workers, worker[v].held.conn = c PROVE IsHeld(c)'
      <4>1. CASE v = w
        BY <1>2, <1>7, <2>4, <3>2, <4>1 DEF IsHeld
      <4>2. CASE v # w
        BY <1>6, <3>2, <4>2 DEF IsHeld
      <4>3. QED
        BY <4>1, <4>2
    <3>3. IsHeld(c) => IsHeld(c)'
      BY <3>1, <3>2 DEF IsHeld
    <3>4. QED
      BY <1>1, <2>3, <3>3, ConnStays DEF AttachmentsInv
  <2>9. ASSUME NEW t \in Servers, NEW v \in Workers PROVE SlotApart(t, v)'
    <3>0. SlotApart(t, v) /\ (v # w => WorkApart(w, v))
      BY DEF AttachmentsInv
    <3>1. CASE v = w
      BY <1>4, <1>6, <3>1 DEF SlotApart
    <3>2. CASE v # w /\ t # s
      BY <1>6, <2>4, <3>0, <3>2 DEF SlotApart
    <3>3. CASE v # w /\ t = s
      <4>1. h.conn # 0 => worker[v].held.conn # h.conn
        BY <1>2, <3>0, <3>3 DEF WorkApart
      <4>2. QED
        BY <1>6, <2>4, <3>3, <4>1 DEF SlotApart
    <3>4. QED
      BY <3>1, <3>2, <3>3
  <2>10. QED
    BY <1>8, <1>9, <2>5, <2>6, <2>7, <2>8, <2>9 DEF AttachmentsInv
<1>11. CASE ~open
  <2>1. PICK cs : cs = {h.conn} \ {0}
    OBVIOUS
  <2>2. slot' = slot /\ conn' = Ended(cs)
    BY <1>2, <1>11, <2>1 DEF Restores, Dropped
  <2>3. /\ conn' \in [Conns -> ConnRecords]
        /\ \A c \in Conns : c \notin cs => conn'[c] = conn[c]
        /\ \A c \in Conns : c \in cs => ~conn'[c].up
    BY <1>0, <2>2, EndedIs
  <2>4. AttachmentsTyped'
    BY <1>0, <1>1, <1>4, <1>5, <2>2, <2>3 DEF AttachmentsTyped
  <2>5. ASSUME NEW t \in Servers PROVE SlotFits(t)'
    <3>1. SlotFits(t) /\ slot[t].conn = 0
      BY <1>11 DEF AttachmentsInv, SlotFits
    <3>2. QED
      BY <1>1, <2>2, <3>1, SlotStays
  <2>6. ASSUME NEW v \in Workers, v # w PROVE WorkFits(v)'
    <3>1. WorkFits(v) /\ WorkApart(v, w) /\ worker'[v] = worker[v]
      BY <1>6, <2>6 DEF AttachmentsInv
    <3>2. worker[v].held.conn # 0 => conn'[worker[v].held.conn] = conn[worker[v].held.conn]
      BY <1>2, <2>1, <2>3, <3>1 DEF WorkFits, WorkApart, ConnServes
    <3>3. QED
      BY <1>1, <1>11, <3>1, <3>2, WorkStays
  <2>7. ASSUME NEW c \in Conns PROVE ConnFits(c)'
    <3>1. CASE c \in cs
      BY <2>3, <3>1 DEF ConnFits
    <3>2. CASE c \notin cs
      <4>1. c # h.conn
        <5>1. 0 \notin Conns
          BY DEF Conns
        <5>2. QED
          BY <2>1, <3>2, <5>1
      <4>2. IsHeld(c) => IsHeld(c)'
        BY <1>2, <1>6, <2>2, <4>1 DEF IsHeld
      <4>3. QED
        BY <1>1, <2>3, <3>2, <4>2, ConnStays DEF AttachmentsInv
    <3>3. QED
      BY <3>1, <3>2
  <2>8. ASSUME NEW t \in Servers, NEW v \in Workers PROVE SlotApart(t, v)'
    BY <1>11, <2>2 DEF AttachmentsInv, SlotFits, SlotApart
  <2>9. QED
    BY <1>8, <1>9, <2>4, <2>5, <2>6, <2>7, <2>8 DEF AttachmentsInv
<1>12. QED
  BY <1>0, <1>10, <1>11 DEF AttachmentsTyped

\* A call that is not answered ends the connection of its server.
LEMMA CallFailsStep ==
  ASSUME AttachmentsInv, NEW s \in Servers, CallFails(s) PROVE AttachmentsInv'
<1>0. /\ AttachmentsTyped /\ SlotFits(s) /\ slot[s] \in Slots /\ slot[s].conn # 0
      /\ UNCHANGED << remote, open, worker >>
  BY DEF AttachmentsInv, AttachmentsTyped, CallFails, Routes
<1>1. PICK c : c = slot[s].conn
  OBVIOUS
<1>2. PICK h : h = [slot[s] EXCEPT !.conn = 0, !.version = 0]
  OBVIOUS
<1>3. h \in Slots /\ h.conn = 0 /\ h.refreshing = slot[s].refreshing
  BY <1>0, <1>2, NoConnIs DEF Slots
<1>4. slot' = [slot EXCEPT ![s] = h]
  BY <1>0, <1>2 DEF CallFails, AttachmentsTyped
<1>5. slot'[s] = h /\ \A t \in Servers : t # s => slot'[t] = slot[t]
  BY <1>0, <1>4 DEF AttachmentsTyped
<1>6. conn' = Ended({c})
  BY <1>1 DEF CallFails
<1>7. /\ conn' \in [Conns -> ConnRecords]
      /\ \A d \in Conns : d # c => conn'[d] = conn[d]
      /\ \A d \in Conns : d = c => ~conn'[d].up
  BY <1>0, <1>6, EndedIs
<1>8. AttachmentsTyped'
  BY <1>0, <1>3, <1>4, <1>7 DEF AttachmentsTyped
<1>9. ASSUME NEW t \in Servers PROVE SlotFits(t)'
  <2>1. CASE t = s
    BY <1>3, <1>5, <2>1 DEF SlotFits
  <2>2. CASE t # s
    <3>1. SlotFits(t)
      BY DEF AttachmentsInv
    <3>2. slot[t].conn # 0 => conn'[slot[t].conn] = conn[slot[t].conn]
      BY <1>0, <1>1, <1>7, <2>2, <3>1 DEF SlotFits, ConnServes
    <3>3. QED
      BY <1>0, <1>5, <2>2, <3>1, <3>2, SlotStays
  <2>3. QED
    BY <2>1, <2>2
<1>10. ASSUME NEW w \in Workers PROVE WorkFits(w)'
  <2>1. WorkFits(w) /\ SlotApart(s, w)
    BY DEF AttachmentsInv
  <2>2. worker[w].held.conn # 0 => conn'[worker[w].held.conn] = conn[worker[w].held.conn]
    BY <1>0, <1>1, <1>7, <2>1 DEF WorkFits, SlotApart, ConnServes
  <2>3. open /\ Busy(w) => slot'[worker[w].name].refreshing
    BY <1>3, <1>5, <2>1 DEF WorkFits
  <2>4. QED
    BY <1>0, <2>1, <2>2, <2>3, WorkStays
<1>11. ASSUME NEW d \in Conns PROVE ConnFits(d)'
  <2>1. CASE d = c
    BY <1>7, <2>1 DEF ConnFits
  <2>2. CASE d # c
    <3>1. IsHeld(d) => IsHeld(d)'
      BY <1>0, <1>1, <1>5, <2>2 DEF IsHeld
    <3>2. QED
      BY <1>0, <1>7, <2>2, <3>1, ConnStays DEF AttachmentsInv
  <2>3. QED
    BY <2>1, <2>2
<1>12. ASSUME NEW v \in Workers, NEW w \in Workers, v # w PROVE WorkApart(v, w)'
  BY <1>0, <1>12, ApartStays DEF AttachmentsInv
<1>13. ASSUME NEW t \in Servers, NEW w \in Workers PROVE SlotApart(t, w)'
  BY <1>0, <1>3, <1>5 DEF AttachmentsInv, SlotApart
<1>14. QED
  BY <1>8, <1>9, <1>10, <1>11, <1>12, <1>13 DEF AttachmentsInv

\* close_session ends what is in the slots; what a worker has, the worker ends.
LEMMA CloseStep == ASSUME AttachmentsInv, Close PROVE AttachmentsInv'
<1>0. AttachmentsTyped /\ open' = FALSE /\ UNCHANGED << remote, worker >>
  BY DEF AttachmentsInv, Close
<1>1. PICK cs : cs = {slot[s].conn : s \in Servers} \ {0}
  OBVIOUS
<1>2. conn' = Ended(cs)
  BY <1>1 DEF Close
<1>3. /\ conn' \in [Conns -> ConnRecords]
      /\ \A c \in Conns : c \notin cs => conn'[c] = conn[c]
      /\ \A c \in Conns : c \in cs => ~conn'[c].up
  BY <1>0, <1>2, EndedIs
<1>4. PICK h : h = Attached(0, 0, 0)
  OBVIOUS
<1>5. h \in Slots /\ h.conn = 0
  BY <1>4, NoConnIs DEF Attached, Slots
<1>6. slot' = [s \in Servers |-> h]
  BY <1>4 DEF Close
<1>7. \A s \in Servers : slot'[s].conn = 0
  BY <1>5, <1>6
<1>8. AttachmentsTyped'
  BY <1>0, <1>3, <1>5, <1>6 DEF AttachmentsTyped
<1>9. \A s \in Servers : SlotFits(s)'
  BY <1>7 DEF SlotFits
<1>10. ASSUME NEW w \in Workers PROVE WorkFits(w)'
  <2>1. WorkFits(w) /\ \A s \in Servers : SlotApart(s, w)
    BY DEF AttachmentsInv
  <2>2. worker[w].held.conn # 0 => worker[w].held.conn \notin cs
    BY <1>1, <2>1 DEF SlotApart
  <2>3. worker[w].held.conn # 0 => conn'[worker[w].held.conn] = conn[worker[w].held.conn]
    BY <1>3, <2>1, <2>2 DEF WorkFits, ConnServes
  <2>4. QED
    BY <1>0, <2>1, <2>3, WorkStays
<1>11. ASSUME NEW c \in Conns PROVE ConnFits(c)'
  <2>0. 0 \notin Conns
    BY DEF Conns
  <2>1. CASE c \in cs
    BY <1>3, <2>1 DEF ConnFits
  <2>2. CASE c \notin cs
    <3>1. \A s \in Servers : slot[s].conn # c
      BY <1>1, <2>0, <2>2
    <3>2. IsHeld(c) => IsHeld(c)'
      BY <1>0, <3>1 DEF IsHeld
    <3>3. QED
      BY <1>0, <1>3, <2>2, <3>2, ConnStays DEF AttachmentsInv
  <2>3. QED
    BY <2>1, <2>2
<1>12. ASSUME NEW v \in Workers, NEW w \in Workers, v # w PROVE WorkApart(v, w)'
  BY <1>0, <1>12, ApartStays DEF AttachmentsInv
<1>13. \A s \in Servers, w \in Workers : SlotApart(s, w)'
  BY <1>7 DEF SlotApart
<1>14. QED
  BY <1>8, <1>9, <1>10, <1>11, <1>12, <1>13 DEF AttachmentsInv

-----------------------------------------------------------------------------
(* The invariant.                                                          *)

\* attach_specs has listed every server over a connection of its own.
LEMMA AttachmentsInitially == Init => AttachmentsInv
<1> SUFFICES ASSUME Init PROVE AttachmentsInv
  OBVIOUS
<1>1. PICK number \in [Servers -> 1..Cardinality(Servers)],
           stream \in [Servers -> {"open", "none"}] :
        /\ \A s, t \in Servers : s # t => number[s] # number[t]
        /\ \A s \in Servers : stream[s] \in Streams(s)
        /\ conn = [c \in Conns |->
             IF \E s \in Servers : number[s] = c
             THEN LET s == CHOOSE t \in Servers : number[t] = c IN Fresh(s, stream[s])
             ELSE NoConn]
        /\ slot = [s \in Servers |-> Attached(number[s], 0, conn[number[s]].gen)]
  BY DEF Init
<1>2. /\ remote = [s \in Servers |-> 0] /\ open = TRUE
      /\ worker = [w \in Workers |-> NoWork]
  BY DEF Init
<1>3. \A s \in Servers : number[s] \in Conns /\ number[s] # 0 /\ number[s] \in 0..MaxConns
  <2>1. Cardinality(Servers) \in Nat /\ MaxConns \in Nat /\ Cardinality(Servers) <= MaxConns
    BY AttachmentAssumption, FS_CardinalityType
  <2>2. QED
    BY <1>1, <2>1 DEF Conns
<1>4. remote \in [Servers -> Catalogs]
  BY <1>2, NoConnIs
<1>5. ASSUME NEW s \in Servers, NEW f, f = Fresh(s, stream[s])
      PROVE  f \in ConnRecords /\ f.up /\ f.server = s /\ f.told = 0 /\ f.pipe = 0
  <2>1. PICK b : b = stream[s]
    OBVIOUS
  <2>2. b \in Streams(s) /\ f = Fresh(s, b)
    BY <1>1, <1>5, <2>1
  <2>3. remote[s] = 0
    BY <1>2
  <2>4. QED
    BY <1>4, <2>2, <2>3, FreshIs
<1>6. ASSUME NEW s \in Servers PROVE conn[number[s]] = Fresh(s, stream[s])
  <2>1. PICK c : c = number[s]
    OBVIOUS
  <2>2. PICK r : r = CHOOSE t \in Servers : number[t] = c
    OBVIOUS
  <2>3. r \in Servers /\ number[r] = c
    BY <2>1, <2>2
  <2>4. r = s
    BY <1>1, <2>1, <2>3
  <2>5. c \in Conns /\ \E t \in Servers : number[t] = c
    BY <1>3, <2>1
  <2>6. conn[c] = Fresh(r, stream[r])
    BY <1>1, <2>2, <2>5
  <2>7. QED
    BY <2>1, <2>4, <2>6
<1>7. ASSUME NEW s \in Servers
      PROVE  LET f == conn[number[s]]
             IN  f \in ConnRecords /\ f.up /\ f.server = s /\ f.told = 0 /\ f.pipe = 0
  BY <1>5, <1>6
<1>8. ASSUME NEW c \in Conns
      PROVE  \/ ~conn[c].up /\ conn[c] \in ConnRecords
             \/ \E s \in Servers : number[s] = c /\ conn[c] \in ConnRecords
  <2>1. CASE \E s \in Servers : number[s] = c
    BY <1>7, <2>1
  <2>2. CASE ~\E s \in Servers : number[s] = c
    <3>1. conn[c] = NoConn
      BY <1>1, <2>2
    <3>2. QED
      BY <3>1, NoConnIs
  <2>3. QED
    BY <2>1, <2>2
<1>9. conn \in [Conns -> ConnRecords]
  <2>1. PICK k : k = [c \in Conns |-> conn[c]]
    OBVIOUS
  <2>2. conn = k
    BY <1>1, <2>1
  <2>3. QED
    BY <1>8, <2>1, <2>2
<1>10. ASSUME NEW s \in Servers
       PROVE  /\ slot[s] \in Slots /\ slot[s].conn = number[s] /\ ~slot[s].refreshing
              /\ slot[s].version = 0 /\ slot[s].listed = conn[number[s]].gen
  <2>1. PICK n, g : n = number[s] /\ g = conn[number[s]].gen
    OBVIOUS
  <2>2. slot[s] = [refreshing |-> FALSE, conn |-> n, version |-> 0, listed |-> g]
    BY <1>1, <2>1 DEF Attached
  <2>3. n \in 0..MaxConns /\ g \in Nat /\ 0 \in Catalogs
    <3>1. conn[number[s]] \in ConnRecords
      BY <1>7
    <3>2. QED
      BY <1>3, <2>1, <3>1, NoConnIs DEF ConnRecords
  <2>4. slot[s] \in Slots
    BY <2>2, <2>3 DEF Slots
  <2>5. QED
    BY <2>1, <2>2, <2>4
<1>11. slot \in [Servers -> Slots]
  <2>1. PICK k : k = [s \in Servers |-> slot[s]]
    OBVIOUS
  <2>2. slot = k
    BY <1>1, <2>1
  <2>3. QED
    BY <1>10, <2>1, <2>2
<1>12. AttachmentsTyped
  BY <1>2, <1>4, <1>9, <1>11, NoConnIs DEF AttachmentsTyped
<1>13. \A w \in Workers : worker[w] = NoWork
  BY <1>2
<1>14. \A w \in Workers : ~Busy(w) /\ worker[w].held.conn = 0
  BY <1>13, NoConnIs DEF Busy
<1>15. ASSUME NEW s \in Servers PROVE SlotFits(s)
  <2>1. conn[number[s]] \in ConnRecords /\ conn[number[s]].told = 0
    BY <1>7
  <2>2. conn[number[s]].gen \in Nat
    BY <2>1 DEF ConnRecords
  <2>3. IsListed(slot[s].conn, slot[s].version, slot[s].listed)
    BY <1>10, <2>1, <2>2 DEF IsListed
  <2>4. ConnServes(slot[s].conn, s)
    BY <1>3, <1>7, <1>10 DEF ConnServes
  <2>5. QED
    BY <1>2, <1>10, <2>3, <2>4 DEF SlotFits
<1>16. ASSUME NEW w \in Workers PROVE WorkFits(w)
  BY <1>14 DEF WorkFits, Busy
<1>17. ASSUME NEW c \in Conns PROVE ConnFits(c)
  <2>1. CASE ~conn[c].up
    BY <2>1 DEF ConnFits
  <2>2. ASSUME NEW s \in Servers, number[s] = c PROVE ConnFits(c)
    <3>1. conn[c].server = s /\ conn[c].told = 0 /\ conn[c].pipe = 0 /\ remote[s] = 0
      BY <1>2, <1>7, <2>2
    <3>2. ToldTruly(c)
      BY <3>1 DEF ToldTruly
    <3>3. IsHeld(c)
      BY <1>10, <2>2 DEF IsHeld
    <3>4. QED
      BY <3>2, <3>3 DEF ConnFits
  <2>3. QED
    BY <1>8, <2>1, <2>2
<1>18. /\ \A v, w \in Workers : v # w => WorkApart(v, w)
       /\ \A s \in Servers, w \in Workers : SlotApart(s, w)
  BY <1>14 DEF WorkApart, SlotApart
<1>19. QED
  BY <1>12, <1>15, <1>16, <1>17, <1>18 DEF AttachmentsInv

LEMMA AttachmentsStep == AttachmentsInv /\ [Next]_vars => AttachmentsInv'
<1> SUFFICES ASSUME AttachmentsInv, [Next]_vars PROVE AttachmentsInv'
  OBVIOUS
<1>1. ASSUME UNCHANGED << remote, conn, open, slot, worker >> PROVE AttachmentsInv'
  BY <1>1 DEF AttachmentsInv, AttachmentsTyped, SlotFits, WorkFits, ConnFits, WorkApart,
              SlotApart, ConnServes, IsListed, Busy, ToldTruly, IsHeld
<1>2. CASE \/ \E s \in Servers : Change(s)
           \/ \E c \in Conns : Notice(c) \/ Fails(c) \/ StreamEnds(c) \/ StreamReopens(c)
  BY <1>2, ReadersStep
<1>3. ASSUME NEW s \in Servers, WatchTakes(s) PROVE AttachmentsInv'
  <2>1. CASE open /\ ~slot[s].refreshing /\ Take(Watch, s, FALSE)
    BY <2>1, TakeStep DEF Workers
  <2>2. QED
    BY <1>1, <1>3, <2>1 DEF WatchTakes
<1>4. ASSUME NEW s \in Servers, CallFails(s) PROVE AttachmentsInv'
  BY <1>4, CallFailsStep
<1>5. ASSUME NEW r \in Requests, NEW s \in Servers, RequestTakes(r, s) PROVE AttachmentsInv'
  BY <1>5, TakeStep DEF RequestTakes, Workers
<1>6. ASSUME NEW w \in Workers, Refresh(w) PROVE AttachmentsInv'
  BY <1>6, ListsStep, ReconnectsStep, ListedStep, RestoresStep DEF Refresh
<1>7. CASE Close
  BY <1>7, CloseStep
<1>8. CASE CleansUp \/ Scan \/ UNCHANGED vars
  BY <1>1, <1>8 DEF CleansUp, Scan, vars
<1>9. QED
  BY <1>2, <1>3, <1>4, <1>5, <1>6, <1>7, <1>8 DEF Next

LEMMA InvIsSound == AttachmentsInv => AttachmentsAreSound
<1> SUFFICES ASSUME AttachmentsInv PROVE AttachmentsAreSound
  OBVIOUS
<1>1. RoutedCatalogIsCurrent
  BY DEF AttachmentsInv, SlotFits, IsListed, RoutedCatalogIsCurrent, Routes, NeedsRefresh
<1>2. ASSUME NEW c \in Conns
      PROVE  Cardinality(Holders(c)) = IF conn[c].up THEN 1 ELSE 0
  <2>0. 0 \notin Conns
    BY DEF Conns
  <2>1. \A s \in Servers : slot[s].conn = c => conn[c].up /\ conn[c].server = s
    BY <2>0 DEF AttachmentsInv, SlotFits, ConnServes
  <2>2. \A w \in Workers : worker[w].held.conn = c => conn[c].up /\ Busy(w)
    BY <2>0 DEF AttachmentsInv, WorkFits, ConnServes
  <2>3. \A w \in Workers : worker[w].held.conn = c => worker[w].pc # "idle"
    BY <2>2 DEF Busy
  <2>4. CASE ~conn[c].up
    <3>1. Holders(c) = {}
      BY <2>1, <2>2, <2>4 DEF Holders
    <3>2. QED
      BY <2>4, <3>1, FS_EmptySet
  <2>5. CASE conn[c].up
    <3>1. \E x : Holders(c) = {x}
      <4>1. ASSUME NEW s \in Servers, slot[s].conn = c PROVE Holders(c) = {s}
        <5>1. \A w \in Workers : worker[w].held.conn # c
          BY <2>0, <4>1 DEF AttachmentsInv, SlotApart
        <5>2. \A t \in Servers : slot[t].conn = c => t = s
          BY <2>1, <4>1
        <5>3. QED
          BY <4>1, <5>1, <5>2 DEF Holders
      <4>2. ASSUME NEW w \in Workers, worker[w].held.conn = c PROVE Holders(c) = {w}
        <5>1. \A s \in Servers : slot[s].conn # c
          BY <2>0, <4>2 DEF AttachmentsInv, SlotApart
        <5>2. \A v \in Workers : worker[v].held.conn = c => v = w
          BY <2>0, <4>2 DEF AttachmentsInv, WorkApart
        <5>3. worker[w].pc # "idle"
          BY <2>3, <4>2
        <5>4. QED
          BY <4>2, <5>1, <5>2, <5>3 DEF Holders
      <4>3. IsHeld(c)
        BY <2>5 DEF AttachmentsInv, ConnFits
      <4>4. QED
        BY <4>1, <4>2, <4>3 DEF IsHeld
    <3>2. QED
      BY <2>5, <3>1, FS_Singleton
  <2>6. QED
    BY <2>4, <2>5
<1>3. QED
  BY <1>1, <1>2 DEF AttachmentsAreSound, NoConnectionIsLost

\* However announcements, refreshes, reconnects, calls and the end of the session
\* interleave, a call goes out only under a catalog that includes what its connection was
\* told before, and every connection that is up has one owner, who will end it
\* (begin_refresh, put_back, needs_refresh, close_session).
THEOREM AttachmentsStaySound == Spec => []AttachmentsAreSound
<1>1. QED
  BY AttachmentsInitially, AttachmentsStep, InvIsSound, PTL DEF Spec

(***************************************************************************)
(* Listening: what a recorder gave, and where it went.                     *)
(***************************************************************************)

HearerRecords == [pc : {"ask", "open", "opened", "check", "read", "send", "over", "refused"},
                  recorder : BOOLEAN, there : BOOLEAN, broken : BOOLEAN,
                  recorded : Nat, sent : Nat, heard : Nat, late : 0..1]

\* A chunk of after the close is the last, and an error is; what was read is sent or next.
HearerFits(q) ==
  /\ q.late = 1 => ~sessionOpen /\ q.pc \in {"send", "check", "over"}
  /\ q.pc \in {"ask", "open", "refused"} => ~q.recorder
  /\ q.pc \in {"ask", "open", "opened", "refused"} => q.recorded = 0 /\ q.sent = 0
  /\ q.there => q.recorded = q.sent + IF q.pc = "send" THEN 1 ELSE 0
  /\ q.broken => q.pc \in {"send", "over"}

ListeningInv ==
  /\ sessionOpen \in BOOLEAN /\ listener \in [Hearers -> HearerRecords]
  /\ \A l \in Hearers : HearerFits(listener[l])

LEMMA ListeningInitially == ListeningInit => ListeningInv
BY DEF ListeningInit, ListeningInv, Silent, HearerRecords, HearerFits

LEMMA HearerBecomes ==
  ASSUME ListeningInv, NEW l \in Hearers, NEW q, Becomes(l, q), q \in HearerRecords, HearerFits(q)
  PROVE  ListeningInv'
BY DEF ListeningInv, Becomes, HearerFits

LEMMA HearerStep ==
  ASSUME ListeningInv, NEW l \in Hearers, ThreadSteps(l) \/ Hears(l) \/ Leaves(l)
  PROVE  ListeningInv'
<1>1. PICK x : x = listener[l]
  OBVIOUS
<1>2. x \in HearerRecords /\ HearerFits(x)
  BY <1>1 DEF ListeningInv
<1>3. ASSUME NEW q, Becomes(l, q), q \in HearerRecords, HearerFits(q) PROVE ListeningInv'
  BY <1>3, HearerBecomes
<1>4. CASE AsksToListen(l)
  <2>1. PICK pc \in {"open", "refused"} : Becomes(l, [x EXCEPT !.pc = pc]) /\ x.pc = "ask"
    BY <1>1, <1>4 DEF AsksToListen, Now
  <2>2. PICK q : q = [x EXCEPT !.pc = pc]
    OBVIOUS
  <2>3. q \in HearerRecords /\ HearerFits(q)
    BY <1>2, <2>1, <2>2 DEF HearerRecords, HearerFits
  <2>4. QED
    BY <1>3, <2>1, <2>2, <2>3
<1>5. CASE OpensAudio(l)
  <2>1. PICK q : Becomes(l, q) /\ x.pc = "open" /\ (\/ q = [x EXCEPT !.pc = "opened", !.recorder = TRUE]
                                                   \/ q = [x EXCEPT !.pc = "refused"])
    BY <1>1, <1>5 DEF OpensAudio, Now
  <2>2. q \in HearerRecords /\ HearerFits(q)
    BY <1>2, <2>1 DEF HearerRecords, HearerFits
  <2>3. QED
    BY <1>3, <2>1, <2>2
<1>6. CASE BeginsStream(l)
  <2>1. PICK q : Becomes(l, q) /\ x.pc = "opened" /\ (\/ q = [x EXCEPT !.pc = "check"]
                                                     \/ q = [x EXCEPT !.pc = "refused", !.recorder = FALSE])
    BY <1>1, <1>6 DEF BeginsStream, Now
  <2>2. q \in HearerRecords /\ HearerFits(q)
    BY <1>2, <2>1 DEF HearerRecords, HearerFits
  <2>3. QED
    BY <1>3, <2>1, <2>2
<1>7. CASE ChecksSession(l)
  <2>1. PICK q : /\ Becomes(l, q) /\ x.pc = "check"
                 /\ \/ sessionOpen /\ q = [x EXCEPT !.pc = "read"]
                    \/ q = [x EXCEPT !.recorder = FALSE, !.pc = "over"]
    BY <1>1, <1>7 DEF ChecksSession, Now, Quiet
  <2>2. q \in HearerRecords /\ HearerFits(q)
    BY <1>2, <2>1 DEF HearerRecords, HearerFits
  <2>3. QED
    BY <1>3, <2>1, <2>2
<1>8. CASE Records(l)
  <2>1. PICK n \in Nat, late \in 0..1 :
          n = x.recorded + 1 /\ (x.pc = "read" => late = x.late + IF sessionOpen THEN 0 ELSE 1)
    BY <1>2 DEF HearerRecords, HearerFits
  <2>2. PICK q : /\ Becomes(l, q) /\ x.pc = "read"
                 /\ \/ q = [x EXCEPT !.pc = "send", !.recorded = n, !.late = late]
                    \/ q = [x EXCEPT !.pc = "send", !.recorded = n, !.broken = TRUE]
                    \/ q = [x EXCEPT !.recorder = FALSE, !.pc = "over"]
    BY <1>1, <1>8, <2>1 DEF Records, Now, Quiet
  <2>3. q \in HearerRecords /\ HearerFits(q)
    <3>1. CASE q = [x EXCEPT !.pc = "send", !.recorded = n, !.late = late]
      <4>1. q \in HearerRecords
        BY <1>2, <2>1, <3>1 DEF HearerRecords
      <4>2. /\ q.pc = "send" /\ q.recorded = n /\ q.late = late
            /\ q.there = x.there /\ q.sent = x.sent /\ q.broken = x.broken
        BY <1>2, <3>1 DEF HearerRecords
      <4>3. x.late = 0 /\ ~x.broken /\ (x.there => x.recorded = x.sent)
        BY <1>2, <2>2 DEF HearerFits, HearerRecords
      <4>4. QED
        BY <2>1, <2>2, <4>1, <4>2, <4>3 DEF HearerFits
    <3>2. CASE q = [x EXCEPT !.pc = "send", !.recorded = n, !.broken = TRUE]
      <4>1. q \in HearerRecords
        BY <1>2, <2>1, <3>2 DEF HearerRecords
      <4>2. /\ q.pc = "send" /\ q.recorded = n /\ q.late = x.late
            /\ q.there = x.there /\ q.sent = x.sent
        BY <1>2, <3>2 DEF HearerRecords
      <4>3. x.late = 0 /\ (x.there => x.recorded = x.sent)
        BY <1>2, <2>2 DEF HearerFits, HearerRecords
      <4>4. QED
        BY <2>1, <2>2, <4>1, <4>2, <4>3 DEF HearerFits
    <3>3. CASE q = [x EXCEPT !.recorder = FALSE, !.pc = "over"]
      BY <1>2, <2>2, <3>3 DEF HearerRecords, HearerFits
    <3>4. QED
      BY <2>2, <3>1, <3>2, <3>3
  <2>4. QED
    BY <1>3, <2>2, <2>3
<1>9. CASE Sends(l)
  <2>1. PICK n \in Nat : n = x.sent + 1
    BY <1>2 DEF HearerRecords
  <2>2. PICK q : /\ Becomes(l, q) /\ x.pc = "send"
                 /\ \/ ~x.there /\ q = [x EXCEPT !.recorder = FALSE, !.pc = "over"]
                    \/ x.there /\ q = [x EXCEPT !.recorder = FALSE, !.pc = "over", !.sent = n]
                    \/ x.there /\ ~x.broken /\ q = [x EXCEPT !.sent = n, !.pc = "check"]
    BY <1>1, <1>9, <2>1 DEF Sends, Now, Quiet
  <2>3. /\ q \in HearerRecords /\ q.late = x.late /\ q.there = x.there /\ q.broken = x.broken
        /\ q.recorded = x.recorded /\ q.pc \in {"check", "over"}
        /\ x.there => q.sent = n
        /\ q.broken => q.pc = "over"
    BY <1>2, <2>1, <2>2 DEF HearerRecords
  <2>4. (x.late = 1 => ~sessionOpen) /\ (x.there => x.recorded = n)
    BY <1>2, <2>1, <2>2 DEF HearerRecords, HearerFits
  <2>5. HearerFits(q)
    BY <2>3, <2>4 DEF HearerFits
  <2>6. QED
    BY <1>3, <2>2, <2>3, <2>5
<1>10. CASE Hears(l) \/ Leaves(l)
  <2>1. PICK n \in Nat : n = x.heard + 1
    BY <1>2 DEF HearerRecords
  <2>2. PICK q : Becomes(l, q) /\ (q = [x EXCEPT !.heard = n] \/ q = [x EXCEPT !.there = FALSE])
    BY <1>1, <1>10, <2>1 DEF Hears, Leaves
  <2>3. q \in HearerRecords /\ HearerFits(q)
    BY <1>2, <2>1, <2>2 DEF HearerRecords, HearerFits
  <2>4. QED
    BY <1>3, <2>2, <2>3
<1>11. QED
  BY <1>4, <1>5, <1>6, <1>7, <1>8, <1>9, <1>10 DEF ThreadSteps

LEMMA ListeningStep == ListeningInv /\ [ListeningNext]_listeningVars => ListeningInv'
<1>1. ASSUME ListeningInv, ClosesSession \/ UNCHANGED listeningVars PROVE ListeningInv'
  <2>1. sessionOpen' \in BOOLEAN /\ (sessionOpen' => sessionOpen) /\ UNCHANGED listener
    <3>1. CASE ClosesSession
      BY <3>1, Zenon DEF ClosesSession
    <3>2. CASE UNCHANGED listeningVars
      BY <1>1, <3>2, Zenon DEF listeningVars, ListeningInv
    <3>3. QED
      BY <1>1, <3>1, <3>2
  <2>2. ASSUME NEW l \in Hearers PROVE HearerFits(listener[l])'
    <3>1. PICK q : q = listener[l] /\ HearerFits(q)
      BY <1>1 DEF ListeningInv
    <3>2. HearerFits(q)'
      BY <2>1, <3>1 DEF HearerFits
    <3>3. QED
      BY <2>1, <3>1, <3>2
  <2>3. QED
    BY <1>1, <2>1, <2>2 DEF ListeningInv
<1>2. QED
  BY <1>1, HearerStep DEF ListeningNext

LEMMA SoundStaysForASession == ListeningSpec => []SoundIsForASession
<1>1. ListeningInv => SoundIsForASession
  <2> SUFFICES ASSUME ListeningInv, NEW l \in Hearers,
                      listener[l] \in HearerRecords, HearerFits(listener[l])
               PROVE  LET q == listener[l] IN
                        /\ q.late <= 1 /\ (q.late = 1 => Now(l) \in {"send", "check", "over"})
                        /\ Now(l) = "refused" => q.recorded = 0 /\ ~q.recorder
                        /\ q.there => q.recorded = q.sent + IF Now(l) = "send" THEN 1 ELSE 0
                        /\ q.broken => Now(l) \in {"send", "over"}
    BY DEF ListeningInv, SoundIsForASession
  <2>1. QED
    BY DEF HearerRecords, HearerFits, Now
<1>2. QED
  BY <1>1, ListeningInitially, ListeningStep, PTL DEF ListeningSpec

(***************************************************************************)
(* Portal: a view, what the portal did about it, and its file.             *)
(***************************************************************************)

ViewRecords == [pc : {"connect", "subscribe", "call", "called", "wait", "read", "remove",
                      "done", "failed"},
                began : Nat, subscribed : BOOLEAN,
                signal : Uris \cup {"denied", "none"}, frame : Nat]
ScreenFiles == [shot : Nat, kind : Kinds \cup {"none"}]
PortalSteps == {"idle", "asked", "answered", "gone"}

\* The view x, what the portal does about it, and its file.
ViewFits(x, p, f) ==
  /\ x.began <= screen
  /\ x.pc \in {"connect", "subscribe", "call"} => p = "idle"
  /\ p = "idle" => f = NoFile /\ x.signal = "none"
  /\ p = "asked" => f = NoFile
  /\ x.pc \in {"call", "called", "wait"} => x.subscribed
  /\ x.pc \in {"called", "wait"} /\ p \in {"answered", "gone"} => x.signal # "none"
  /\ x.pc \in {"called", "wait", "read"} /\ x.signal = "local" => p = "answered" /\ f # NoFile
  /\ x.pc = "read" => x.signal = "local"
  /\ x.pc = "remove" => p = "answered" /\ f # NoFile /\ x.frame = f.shot
  /\ x.pc = "done" => p = "answered" /\ f = NoFile /\ x.frame \in x.began..screen
  /\ f # NoFile => f.shot \in x.began..screen

PortalInv ==
  /\ screen \in Nat /\ view \in [Views -> ViewRecords]
  /\ portal \in [Views -> PortalSteps] /\ file \in [Views -> ScreenFiles]
  /\ \A v \in Views : ViewFits(view[v], portal[v], file[v])

LEMMA PortalInitially == PortalInit => PortalInv
BY DEF PortalInit, PortalInv, Unasked, NoFile, ViewRecords, ScreenFiles, PortalSteps, ViewFits

\* One view goes on.
LEMMA ViewGoes ==
  ASSUME PortalInv, NEW v \in Views, NEW q \in ViewRecords, NEW p \in PortalSteps,
         NEW f \in ScreenFiles, view' = [view EXCEPT ![v] = q],
         portal' = [portal EXCEPT ![v] = p], file' = [file EXCEPT ![v] = f], UNCHANGED screen,
         ViewFits(q, p, f)
  PROVE  PortalInv'
<1>1. /\ view' \in [Views -> ViewRecords] /\ portal' \in [Views -> PortalSteps]
      /\ file' \in [Views -> ScreenFiles] /\ screen' \in Nat
  BY DEF PortalInv
<1>2. ASSUME NEW w \in Views PROVE ViewFits(view[w], portal[w], file[w])'
  <2>1. CASE w = v
    <3>1. view'[w] = q /\ portal'[w] = p /\ file'[w] = f
      BY <2>1 DEF PortalInv
    <3>2. QED
      BY <3>1 DEF ViewFits
  <2>2. CASE w # v
    <3>1. view'[w] = view[w] /\ portal'[w] = portal[w] /\ file'[w] = file[w]
      BY <2>2 DEF PortalInv
    <3>2. ViewFits(view[w], portal[w], file[w])
      BY DEF PortalInv
    <3>3. QED
      BY <3>1, <3>2 DEF ViewFits
  <2>3. QED
    BY <2>1, <2>2
<1>3. QED
  BY <1>1, <1>2 DEF PortalInv

LEMMA ViewStep ==
  ASSUME PortalInv, NEW v \in Views,
         \/ ConnectsToBus(v) \/ Subscribes(v) \/ AsksPortal(v) \/ CallReturns(v) \/ Waits(v)
         \/ ReadsFile(v) \/ Removes(v) \/ Answers(v) \/ Hangs(v)
  PROVE  PortalInv'
<1>1. PICK x, p, f : x = view[v] /\ p = portal[v] /\ f = file[v]
  OBVIOUS
<1>2. /\ x \in ViewRecords /\ p \in PortalSteps /\ f \in ScreenFiles /\ ViewFits(x, p, f)
      /\ screen \in Nat
      /\ view = [view EXCEPT ![v] = x] /\ portal = [portal EXCEPT ![v] = p]
      /\ file = [file EXCEPT ![v] = f]
  BY <1>1 DEF PortalInv
<1>3. ASSUME NEW q \in ViewRecords, view' = [view EXCEPT ![v] = q], ViewFits(q, p, f),
             UNCHANGED << screen, portal, file >>
      PROVE  PortalInv'
  BY <1>2, <1>3, ViewGoes
<1>4. PICK gone : gone = [x EXCEPT !.pc = "failed", !.subscribed = FALSE]
  OBVIOUS
<1>5. gone \in ViewRecords /\ (Failed(v) => view' = [view EXCEPT ![v] = gone])
  <2>1. gone \in ViewRecords
    BY <1>2, <1>4 DEF ViewRecords
  <2>2. ASSUME Failed(v) PROVE view' = [view EXCEPT ![v] = gone]
    BY <1>1, <1>4, <2>2 DEF Failed
  <2>3. QED
    BY <2>1, <2>2
<1>6. ViewFits(gone, p, f)
  BY <1>2, <1>4 DEF ViewRecords, ViewFits
<1>7. ASSUME Failed(v), UNCHANGED << screen, portal, file >> PROVE PortalInv'
  <2>1. view' = [view EXCEPT ![v] = gone]
    BY <1>5, <1>7
  <2>2. QED
    BY <1>3, <1>5, <1>6, <1>7, <2>1
<1>8. CASE ConnectsToBus(v)
  <2>1. PICK s \in Nat : s = screen
    BY <1>2
  <2>2. PICK q : q = [x EXCEPT !.pc = "subscribe", !.began = s]
    OBVIOUS
  <2>3. x.pc = "connect"
    BY <1>1, <1>8 DEF ConnectsToBus, IsIn
  <2>4. /\ q \in ViewRecords /\ q.pc = "subscribe" /\ q.began = s /\ q.signal = x.signal
        /\ q.began <= screen
    <3>1. q \in ViewRecords /\ q.pc = "subscribe" /\ q.began = s /\ q.signal = x.signal
      BY <1>2, <2>2 DEF ViewRecords
    <3>2. s <= screen
      BY <2>1
    <3>3. QED
      BY <3>1, <3>2
  <2>5. p = "idle" /\ f = NoFile /\ x.signal = "none"
    BY <1>2, <2>3 DEF ViewFits
  <2>6. ViewFits(q, p, f)
    BY <2>4, <2>5 DEF ViewFits
  <2>7. CASE view' = [view EXCEPT ![v].pc = "subscribe", ![v].began = screen]
    <3>1. view' = [view EXCEPT ![v] = q]
      BY <1>1, <2>1, <2>2, <2>7
    <3>2. QED
      BY <1>3, <1>8, <2>4, <2>6, <3>1 DEF ConnectsToBus
  <2>8. QED
    BY <1>7, <1>8, <2>7 DEF ConnectsToBus
<1>9. CASE Subscribes(v)
  <2>1. PICK q : q = [x EXCEPT !.pc = "call", !.subscribed = TRUE]
    OBVIOUS
  <2>2. q \in ViewRecords /\ (x.pc = "subscribe" => ViewFits(q, p, f))
    BY <1>2, <2>1 DEF ViewRecords, ViewFits
  <2>3. QED
    BY <1>1, <1>3, <1>9, <2>1, <2>2 DEF Subscribes, IsIn
<1>10. CASE AsksPortal(v)
  <2>1. PICK q : q = [x EXCEPT !.pc = "called"]
    OBVIOUS
  <2>2. /\ view' = [view EXCEPT ![v] = q] /\ portal' = [portal EXCEPT ![v] = "asked"]
        /\ UNCHANGED << screen, file >> /\ x.pc = "call"
    BY <1>1, <1>10, <2>1 DEF AsksPortal, StepsTo, IsIn
  <2>3. q \in ViewRecords /\ ViewFits(q, "asked", f) /\ "asked" \in PortalSteps
    BY <1>2, <2>1, <2>2 DEF ViewRecords, ViewFits, PortalSteps
  <2>4. QED
    BY <1>2, <2>2, <2>3, ViewGoes
<1>11. CASE CallReturns(v)
  <2>1. PICK q : q = [x EXCEPT !.pc = "wait"]
    OBVIOUS
  <2>2. q \in ViewRecords /\ (x.pc = "called" => ViewFits(q, p, f))
    BY <1>2, <2>1 DEF ViewRecords, ViewFits
  <2>3. QED
    BY <1>1, <1>3, <1>7, <1>11, <2>1, <2>2 DEF CallReturns, StepsTo, IsIn
<1>12. CASE Waits(v)
  <2>1. PICK q : q = [x EXCEPT !.pc = "read"]
    OBVIOUS
  <2>2. q \in ViewRecords /\ (x.pc = "wait" /\ x.signal = "local" => ViewFits(q, p, f))
    BY <1>2, <2>1 DEF ViewRecords, ViewFits
  <2>3. QED
    BY <1>1, <1>3, <1>7, <1>12, <2>1, <2>2 DEF Waits, StepsTo, IsIn
<1>13. CASE ReadsFile(v)
  <2>1. PICK s \in Nat : s = f.shot
    BY <1>2 DEF ScreenFiles
  <2>2. PICK q : q = [x EXCEPT !.pc = "remove", !.frame = s]
    OBVIOUS
  <2>3. q \in ViewRecords /\ (x.pc = "read" => ViewFits(q, p, f))
    BY <1>2, <2>1, <2>2 DEF ViewRecords, ViewFits
  <2>4. QED
    BY <1>1, <1>3, <1>7, <1>13, <2>1, <2>2, <2>3 DEF ReadsFile, IsIn
<1>14. CASE Removes(v)
  <2>1. PICK none : none = NoFile
    OBVIOUS
  <2>2. none \in ScreenFiles
    BY <2>1 DEF NoFile, ScreenFiles
  <2>3. PICK q : q = [x EXCEPT !.pc = "done"]
    OBVIOUS
  <2>4. x.pc = "remove"
    BY <1>1, <1>14 DEF Removes, IsIn
  <2>5. q \in ViewRecords /\ ViewFits(q, p, none) /\ ViewFits(gone, p, none)
    BY <1>2, <1>4, <2>1, <2>3, <2>4 DEF ViewRecords, ViewFits
  <2>6. UNCHANGED << screen, portal >>
    BY <1>14 DEF Removes
  <2>7. CASE file' = [file EXCEPT ![v] = none] /\ view' = [view EXCEPT ![v] = q]
    BY <1>2, <2>2, <2>5, <2>6, <2>7, ViewGoes
  <2>8. CASE file' = [file EXCEPT ![v] = none] /\ Failed(v)
    <3>1. view' = [view EXCEPT ![v] = gone] /\ portal' = [portal EXCEPT ![v] = p]
          /\ UNCHANGED screen
      BY <1>2, <1>5, <2>6, <2>8
    <3>2. QED
      BY <1>2, <1>5, <2>2, <2>5, <2>8, <3>1, ViewGoes
  <2>9. CASE Failed(v) /\ UNCHANGED file
    BY <1>7, <2>6, <2>9
  <2>10. QED
    BY <1>1, <1>14, <2>1, <2>3, <2>7, <2>8, <2>9 DEF Removes, StepsTo
<1>15. CASE Answers(v)
  <2>1. PICK answer \in Uris \cup {"denied"} :
          /\ view' = [view EXCEPT ![v].signal = IF view[v].subscribed THEN answer ELSE @]
          /\ IF answer = "local"
             THEN \E kind \in Kinds : file' = [file EXCEPT ![v] = [shot |-> screen, kind |-> kind]]
             ELSE UNCHANGED file
    BY <1>15 DEF Answers
  <2>2. p = "asked" /\ portal' = [portal EXCEPT ![v] = "answered"] /\ UNCHANGED screen
    BY <1>1, <1>15 DEF Answers
  <2>3. PICK said \in Uris \cup {"denied", "none"} : said = IF x.subscribed THEN answer ELSE x.signal
    BY <1>2 DEF ViewRecords
  <2>4. PICK q : q = [x EXCEPT !.signal = said]
    OBVIOUS
  <2>5. view' = [view EXCEPT ![v] = q] /\ q \in ViewRecords
    BY <1>1, <1>2, <2>1, <2>3, <2>4 DEF ViewRecords
  <2>6. "answered" \in PortalSteps /\ answer # "none"
    BY DEF PortalSteps, Uris
  <2>7. CASE answer = "local"
    <3>1. PICK kind \in Kinds : file' = [file EXCEPT ![v] = [shot |-> screen, kind |-> kind]]
      BY <2>1, <2>7
    <3>2. PICK g : g = [shot |-> screen, kind |-> kind]
      OBVIOUS
    <3>3. g \in ScreenFiles /\ g # NoFile /\ g.shot = screen
      BY <1>2, <3>2 DEF ScreenFiles, NoFile, Kinds
    <3>4. ViewFits(q, "answered", g)
      BY <1>2, <2>2, <2>3, <2>4, <2>6, <3>3 DEF ViewRecords, ViewFits
    <3>5. QED
      BY <1>2, <2>2, <2>5, <2>6, <3>1, <3>2, <3>3, <3>4, ViewGoes
  <2>8. CASE answer # "local"
    <3>1. ViewFits(q, "answered", f)
      BY <1>2, <2>2, <2>3, <2>4, <2>6, <2>8 DEF ViewRecords, ViewFits
    <3>2. QED
      BY <1>2, <2>1, <2>2, <2>5, <2>6, <2>8, <3>1, ViewGoes
  <2>9. QED
    BY <2>7, <2>8
<1>16. CASE Hangs(v)
  <2>1. PICK q : q = [x EXCEPT !.signal = "denied"]
    OBVIOUS
  <2>2. /\ view' = [view EXCEPT ![v] = q] /\ portal' = [portal EXCEPT ![v] = "gone"]
        /\ UNCHANGED << screen, file >> /\ p = "asked"
    BY <1>1, <1>16, <2>1 DEF Hangs
  <2>3. q \in ViewRecords /\ ViewFits(q, "gone", f) /\ "gone" \in PortalSteps
    BY <1>2, <2>1, <2>2 DEF ViewRecords, ViewFits, PortalSteps
  <2>4. QED
    BY <1>2, <2>2, <2>3, ViewGoes
<1>17. QED
  BY <1>8, <1>9, <1>10, <1>11, <1>12, <1>13, <1>14, <1>15, <1>16

LEMMA PortalStep == PortalInv /\ [PortalNext]_portalVars => PortalInv'
<1>1. ASSUME PortalInv, ScreenChanges PROVE PortalInv'
  <2>1. screen' = screen + 1 /\ UNCHANGED << view, portal, file >> /\ screen \in Nat
    BY <1>1 DEF ScreenChanges, PortalInv
  <2>2. ASSUME NEW v \in Views PROVE ViewFits(view[v], portal[v], file[v])'
    <3>1. PICK x \in ViewRecords, p \in PortalSteps, f \in ScreenFiles :
            x = view[v] /\ p = portal[v] /\ f = file[v] /\ ViewFits(x, p, f)
      BY <1>1 DEF PortalInv
    <3>2. ViewFits(x, p, f)'
      BY <2>1, <3>1 DEF ViewFits, ViewRecords, ScreenFiles
    <3>3. QED
      BY <2>1, <3>1, <3>2
  <2>3. QED
    BY <1>1, <2>1, <2>2 DEF PortalInv
<1>2. ASSUME PortalInv, UNCHANGED portalVars PROVE PortalInv'
  BY <1>2 DEF portalVars, PortalInv, ViewFits
<1>3. QED
  BY <1>1, <1>2, ViewStep DEF PortalNext

LEMMA ViewsStayOfNow == PortalSpec => []ViewsAreOfNow
<1>1. PortalInv => ViewsAreOfNow
  BY DEF PortalInv, ViewsAreOfNow, ViewFits, IsIn, PortalSteps
<1>2. QED
  BY <1>1, PortalInitially, PortalStep, PTL DEF PortalSpec

\* What is read of a desktop is for the session that asked, however many listen, leave or
\* close it meanwhile, and of the time it asked, however views overlap (listen, audio_loop,
\* capture, portal_roundtrip).
THEOREM DesktopStaysItsOwn == ListeningSpec /\ PortalSpec => []DesktopIsReadForItsSession
<1>1. SoundIsForASession /\ ViewsAreOfNow => DesktopIsReadForItsSession
  BY DEF DesktopIsReadForItsSession
<1>2. QED
  BY <1>1, SoundStaysForASession, ViewsStayOfNow, PTL

(***************************************************************************)
(* Access: the launch, its token, and a call as far as it has come.        *)
(***************************************************************************)

VisorRecords == [number : Nat, up : {"off", "starting", "on"}, port : BOOLEAN]
CallRecords == [pc : {"idle", "ready", "unsent", "queued", "serving", "cut", "refused", "handled",
                      "failed"},
                door : Sockets \cup {"port", "none"}, uid : {"ours", "other", "unknown", "none"},
                bearer : Nat, by : Nat, link : BOOLEAN, sentTo : {"none", "visor", "stranger"},
                report : {"none", "unknown", "done", "refused"}, calls : Nat]

\* A call under the launch x: who it is from, and what the visor did about it.
CallFits(q, x) ==
  /\ q.bearer <= x.number
  /\ q.pc \in {"queued", "serving"} => x.up # "off"
  /\ q.pc = "serving" => q.door = "port" \/ q.uid = "ours"
  /\ q.door = "port" => q.uid = "ours"
  /\ q.pc \in {"handled", "failed"} => /\ q.uid = "ours" /\ q.by > 0
                                       /\ (q.door = "port" => q.bearer = q.by)
                                       /\ (q.link <=> q.door = "companion")
  /\ q.uid = "ours" => q.sentTo # "stranger"
  /\ q.pc = "refused" => q.door = "port" /\ q.bearer < x.number
  /\ q.report = "done" /\ q.pc # "ready" => q.by > 0

LaunchFits == (visor.up # "off" => visor.number > 0) /\ apiToken <= visor.number

AccessInv ==
  /\ environment \in Environments /\ visor \in VisorRecords /\ apiToken \in Int /\ LaunchFits
  /\ caller \in [Callers -> CallRecords]
  /\ \A c \in Callers : CallFits(caller[c], visor)

LEMMA AccessInitially == AccessInit => AccessInv
BY DEF AccessInit, AccessInv, NoCall, VisorRecords, CallRecords, CallFits, LaunchFits, Sockets

\* runtime_dir_from and its copy agree.
LEMMA DirectoriesAgree ==
  ASSUME NEW env \in Environments PROVE CompanionDir(env) = RuntimeDir(env)
<1>1. /\ env \in [1..4 -> Nat \cup {-1}] /\ Appended \in [1..4 -> Nat]
      /\ SocketLength \in Nat /\ SunPathMax \in Nat /\ 1..4 = {1, 2, 3, 4}
  BY AccessAssumption DEF Unset
<1>2. PICK notBlank : notBlank = {i \in DOMAIN env : env[i] > 0}
  OBVIOUS
<1>3. \A i : i \in notBlank <=> i \in {1, 2, 3, 4} /\ env[i] > 0
  BY <1>1, <1>2
<1>4. ASSUME NEW i \in notBlank, \A j \in notBlank : i <= j
      PROVE  (CHOOSE k \in notBlank : \A j \in notBlank : k <= j) = i
  <2>1. ASSUME NEW k \in notBlank, \A j \in notBlank : k <= j PROVE k = i
    BY <1>3, <1>4, <2>1
  <2>2. QED
    BY <1>4, <2>1
<1>5. ASSUME NEW i \in notBlank, \A j \in notBlank : i <= j
      PROVE  RuntimeDir(env) = IF env[i] + Appended[i] + SocketLength >= SunPathMax THEN Nowhere
                               ELSE [from |-> i, length |-> env[i] + Appended[i]]
  BY <1>2, <1>4, <1>5 DEF RuntimeDir
<1>6. CASE env[1] > 0
  <2>1. 1 \in notBlank /\ \A j \in notBlank : 1 <= j
    BY <1>3, <1>6
  <2>2. QED
    BY <1>5, <1>6, <2>1 DEF CompanionDir
<1>7. CASE ~(env[1] > 0) /\ env[2] > 0
  <2>1. 2 \in notBlank /\ \A j \in notBlank : 2 <= j
    BY <1>3, <1>7
  <2>2. QED
    BY <1>5, <1>7, <2>1 DEF CompanionDir
<1>8. CASE ~(env[1] > 0) /\ ~(env[2] > 0) /\ env[3] > 0
  <2>1. 3 \in notBlank /\ \A j \in notBlank : 3 <= j
    BY <1>3, <1>8
  <2>2. QED
    BY <1>5, <1>8, <2>1 DEF CompanionDir
<1>9. CASE ~(env[1] > 0) /\ ~(env[2] > 0) /\ ~(env[3] > 0) /\ env[4] > 0
  <2>1. 4 \in notBlank /\ \A j \in notBlank : 4 <= j
    BY <1>3, <1>9
  <2>2. QED
    BY <1>5, <1>9, <2>1 DEF CompanionDir
<1>10. CASE ~(env[1] > 0) /\ ~(env[2] > 0) /\ ~(env[3] > 0) /\ ~(env[4] > 0)
  <2>1. notBlank = {}
    BY <1>3, <1>10
  <2>2. RuntimeDir(env) = Nowhere
    BY <1>2, <2>1 DEF RuntimeDir
  <2>3. CompanionDir(env) = Nowhere
    BY <1>10 DEF CompanionDir
  <2>4. QED
    BY <2>2, <2>3
<1>11. QED
  BY <1>6, <1>7, <1>8, <1>9, <1>10

\* One call goes on.
LEMMA CallerGoesOn ==
  ASSUME AccessInv, NEW c \in Callers, NEW q \in CallRecords, Gets(c, q), CallFits(q, visor),
         UNCHANGED << environment, visor, apiToken >>
  PROVE  AccessInv'
<1>1. caller' \in [Callers -> CallRecords]
  BY DEF AccessInv, Gets
<1>2. ASSUME NEW o \in Callers PROVE CallFits(caller'[o], visor)
  <2>1. CASE o = c
    BY <2>1 DEF AccessInv, Gets
  <2>2. CASE o # c
    BY <2>2 DEF AccessInv, Gets
  <2>3. QED
    BY <2>1, <2>2
<1>3. QED
  BY <1>1, <1>2 DEF AccessInv, LaunchFits

LEMMA CallStep ==
  ASSUME AccessInv, NEW c \in Callers,
         Accepts(c) \/ Serves(c) \/ Appears(c) \/ ReachesFor(c) \/ Reports(c) \/ CallsAgain(c)
  PROVE  AccessInv'
<1>1. PICK x : x = caller[c]
  OBVIOUS
<1>2. PICK n : n = visor.number
  OBVIOUS
<1>3. /\ x \in CallRecords /\ CallFits(x, visor) /\ n \in Nat
      /\ visor \in VisorRecords /\ LaunchFits /\ apiToken \in Int
  BY <1>1, <1>2 DEF AccessInv, VisorRecords
<1>4. UNCHANGED << environment, visor, apiToken >>
  BY DEF Accepts, Serves, Appears, ReachesFor, Reports, CallsAgain
<1>5. ASSUME NEW q \in CallRecords, Gets(c, q), CallFits(q, visor) PROVE AccessInv'
  BY <1>4, <1>5, CallerGoesOn
<1>6. CASE Accepts(c)
  <2>1. PICK pc \in {"serving", "cut"} : /\ Gets(c, [x EXCEPT !.pc = pc]) /\ visor.up = "on"
                                         /\ x.pc = "queued"
                                         /\ pc = "serving" => x.door = "port" \/ x.uid = "ours"
    BY <1>1, <1>6 DEF Accepts, Admits, CallerAt
  <2>2. PICK q : q = [x EXCEPT !.pc = pc]
    OBVIOUS
  <2>3. q \in CallRecords
    BY <1>3, <2>2 DEF CallRecords
  <2>4. CallFits(q, visor)
    BY <1>3, <2>1, <2>2 DEF CallRecords, CallFits
  <2>5. QED
    BY <1>5, <2>1, <2>2, <2>3, <2>4
<1>7. CASE Serves(c)
  <2>1. x.pc = "serving" /\ visor.up # "off" /\ n > 0 /\ (x.door = "port" \/ x.uid = "ours")
    BY <1>1, <1>2, <1>3, <1>7 DEF Serves, CallerAt, CallFits, LaunchFits
  <2>2. CASE x.door = "port" /\ x.bearer # n
    <3>1. PICK q : q = [x EXCEPT !.pc = "refused"]
      OBVIOUS
    <3>2. q \in CallRecords /\ Gets(c, q)
      BY <1>1, <1>2, <1>3, <1>7, <2>2, <3>1 DEF CallRecords, Serves, BearerMatches
    <3>3. x.bearer < visor.number
      BY <1>2, <1>3, <2>2 DEF CallFits, CallRecords
    <3>4. CallFits(q, visor)
      BY <1>3, <2>1, <2>2, <3>1, <3>3 DEF CallRecords, CallFits
    <3>5. QED
      BY <1>5, <3>2, <3>4
  <2>3. CASE ~(x.door = "port" /\ x.bearer # n)
    <3>1. PICK pc \in {"handled", "failed"} :
            Gets(c, [x EXCEPT !.pc = pc, !.by = n, !.link = x.door = "companion"])
      BY <1>1, <1>2, <1>7, <2>3 DEF Serves, BearerMatches
    <3>2. PICK link \in BOOLEAN : link <=> x.door = "companion"
      OBVIOUS
    <3>3. PICK q : q = [x EXCEPT !.pc = pc, !.by = n, !.link = link]
      OBVIOUS
    <3>4. q = [x EXCEPT !.pc = pc, !.by = n, !.link = x.door = "companion"]
      BY <3>2, <3>3
    <3>5. /\ q \in CallRecords /\ q.pc = pc /\ q.by = n /\ q.link = link /\ q.door = x.door
          /\ q.uid = x.uid /\ q.bearer = x.bearer /\ q.sentTo = x.sentTo /\ q.report = x.report
      BY <1>3, <3>3 DEF CallRecords
    <3>6. x.uid = "ours" /\ x.sentTo # "stranger" /\ x.bearer <= visor.number
      BY <1>3, <2>1 DEF CallFits
    <3>7. CallFits(q, visor)
      BY <2>1, <2>3, <3>2, <3>5, <3>6 DEF CallFits
    <3>8. QED
      BY <1>5, <3>1, <3>4, <3>5, <3>7
  <2>4. QED
    BY <2>2, <2>3
<1>8. CASE Appears(c)
  <2>1. PICK d \in Sockets \cup {"port"}, uid \in {"ours", "other", "unknown"}, bearer \in Tokens :
          /\ d = "port" => uid = "ours"
          /\ Gets(c, [NoCall EXCEPT !.pc = "ready", !.door = d, !.uid = uid, !.bearer = bearer])
    BY <1>8 DEF Appears
  <2>2. bearer \in Nat /\ bearer <= visor.number
    BY <1>2, <1>3, <2>1 DEF Tokens, LaunchFits
  <2>3. PICK none : none = NoCall
    OBVIOUS
  <2>4. none \in CallRecords /\ none.sentTo = "none" /\ none.report = "none"
    BY <2>3 DEF NoCall, CallRecords
  <2>5. PICK q : q = [none EXCEPT !.pc = "ready", !.door = d, !.uid = uid, !.bearer = bearer]
    OBVIOUS
  <2>6. /\ q \in CallRecords /\ q.pc = "ready" /\ q.door = d /\ q.uid = uid /\ q.bearer = bearer
        /\ q.sentTo = "none"
    BY <2>2, <2>4, <2>5 DEF CallRecords
  <2>7. CallFits(q, visor)
    BY <2>1, <2>2, <2>6 DEF CallFits
  <2>8. QED
    BY <1>5, <2>1, <2>3, <2>5, <2>6, <2>7
<1>9. CASE ReachesFor(c)
  <2>1. PICK pc \in {"queued", "unsent"}, to \in {"none", "visor", "stranger"} :
          /\ Gets(c, [NewAttempt(c) EXCEPT !.pc = pc, !.sentTo = to])
          /\ pc = "queued" => visor.up # "off"
          /\ to = "stranger" => x.uid # "ours"
    BY <1>1, <1>9 DEF ReachesFor
  <2>2. PICK k \in Nat : k = x.calls + 1
    BY <1>3 DEF CallRecords
  <2>3. PICK q : q = [x EXCEPT !.by = 0, !.link = FALSE, !.report = "none", !.calls = k, !.pc = pc,
                               !.sentTo = to]
    OBVIOUS
  <2>4. Gets(c, q)
    BY <1>1, <2>1, <2>2, <2>3 DEF NewAttempt
  <2>5. /\ q \in CallRecords /\ q.pc = pc /\ q.report = "none" /\ q.door = x.door
        /\ q.uid = x.uid /\ q.bearer = x.bearer /\ q.sentTo = to
    BY <1>3, <2>3 DEF CallRecords
  <2>6. x.bearer <= visor.number /\ (x.door = "port" => x.uid = "ours")
    BY <1>3 DEF CallFits
  <2>7. CallFits(q, visor)
    BY <2>1, <2>5, <2>6 DEF CallFits
  <2>8. QED
    BY <1>5, <2>4, <2>5, <2>7
<1>10. CASE Reports(c)
  <2>1. PICK said \in {"unknown", "done", "refused"} :
          /\ Gets(c, [x EXCEPT !.report = said])
          /\ said = "done" => x.pc = "handled"
    BY <1>1, <1>10 DEF Reports, CallerAt
  <2>2. PICK q : q = [x EXCEPT !.report = said]
    OBVIOUS
  <2>3. q \in CallRecords /\ CallFits(q, visor)
    BY <1>3, <2>1, <2>2 DEF CallRecords, CallFits
  <2>4. QED
    BY <1>5, <2>1, <2>2, <2>3
<1>11. CASE CallsAgain(c)
  <2>1. PICK q : q = [x EXCEPT !.pc = "ready"]
    OBVIOUS
  <2>2. Gets(c, q) /\ q \in CallRecords /\ CallFits(q, visor)
    BY <1>1, <1>3, <1>11, <2>1 DEF CallsAgain, CallRecords, CallFits
  <2>3. QED
    BY <1>5, <2>2
<1>12. QED
  BY <1>6, <1>7, <1>8, <1>9, <1>10, <1>11

\* The visor moves, and what was connected to one that ends is cut off.
LEMMA VisorStep ==
  ASSUME AccessInv, Launches \/ WritesApiToken \/ Ends PROVE AccessInv'
<1>1. PICK n : n = visor.number
  OBVIOUS
<1>2. n \in Nat /\ visor \in VisorRecords /\ LaunchFits /\ environment \in Environments
  BY <1>1 DEF AccessInv, VisorRecords
<1>3. ASSUME NEW c \in Callers PROVE caller[c] \in CallRecords /\ CallFits(caller[c], visor)
  BY DEF AccessInv
<1>4. CASE Launches
  <2>1. PICK port \in BOOLEAN :
          /\ visor' = [number |-> visor.number + 1, port |-> port,
                       up |-> IF port THEN "starting" ELSE "on"]
          /\ apiToken' = IF port THEN -1 ELSE 0
    BY <1>4 DEF Launches
  <2>2. PICK m \in Nat : m = n + 1
    BY <1>2
  <2>3. visor' \in VisorRecords /\ visor'.number = m /\ visor'.up # "off"
    BY <1>1, <2>1, <2>2 DEF VisorRecords
  <2>4. LaunchFits' /\ apiToken' \in Int
    BY <1>2, <2>1, <2>2, <2>3 DEF LaunchFits
  <2>5. ASSUME NEW c \in Callers PROVE CallFits(caller[c], visor')
    BY <1>1, <1>2, <1>3, <2>2, <2>3 DEF CallFits, CallRecords
  <2>6. QED
    BY <1>2, <1>4, <2>3, <2>4, <2>5 DEF AccessInv, Launches
<1>5. CASE WritesApiToken
  <2>1. visor' = [visor EXCEPT !.up = "on"] /\ apiToken' = n /\ visor.up # "off"
        /\ UNCHANGED << environment, caller >>
    BY <1>1, <1>5 DEF WritesApiToken
  <2>2. visor' \in VisorRecords /\ visor'.number = n /\ visor'.up # "off"
    BY <1>1, <1>2, <2>1 DEF VisorRecords
  <2>3. LaunchFits' /\ apiToken' \in Int
    BY <1>1, <1>2, <2>1, <2>2 DEF LaunchFits
  <2>4. ASSUME NEW c \in Callers PROVE CallFits(caller[c], visor')
    BY <1>1, <1>3, <2>2 DEF CallFits
  <2>5. QED
    BY <1>2, <2>1, <2>2, <2>3, <2>4 DEF AccessInv
<1>6. CASE Ends
  <2>1. visor' = [visor EXCEPT !.up = "off"] /\ UNCHANGED << environment, apiToken >>
    BY <1>6 DEF Ends
  <2>2. visor' \in VisorRecords /\ visor'.number = n /\ visor'.up = "off"
    BY <1>1, <1>2, <2>1 DEF VisorRecords
  <2>3. LaunchFits' /\ apiToken' \in Int
    BY <1>1, <1>2, <2>1, <2>2 DEF LaunchFits, AccessInv
  <2>4. ASSUME NEW c \in Callers PROVE caller'[c] \in CallRecords /\ CallFits(caller'[c], visor')
    <3>1. PICK x : x = caller[c] /\ x \in CallRecords /\ CallFits(x, visor)
      BY <1>3
    <3>2. CASE x.pc \in {"queued", "serving"}
      <4>1. PICK q : q = [x EXCEPT !.pc = "cut"]
        OBVIOUS
      <4>2. caller'[c] = q
        BY <1>6, <3>1, <3>2, <4>1 DEF Ends
      <4>3. q \in CallRecords /\ CallFits(q, visor')
        BY <1>1, <2>2, <3>1, <3>2, <4>1 DEF CallFits, CallRecords
      <4>4. QED
        BY <4>2, <4>3
    <3>3. CASE x.pc \notin {"queued", "serving"}
      <4>1. caller'[c] = x
        BY <1>6, <3>1, <3>3 DEF Ends
      <4>2. CallFits(x, visor')
        BY <1>1, <2>2, <3>1, <3>3 DEF CallFits
      <4>3. QED
        BY <3>1, <4>1, <4>2
    <3>4. QED
      BY <3>2, <3>3
  <2>5. caller' \in [Callers -> CallRecords]
    <3>1. caller' = [c \in Callers |-> caller'[c]]
      BY <1>6 DEF Ends
    <3>2. QED
      BY <2>4, <3>1
  <2>6. QED
    BY <1>2, <2>1, <2>2, <2>3, <2>4, <2>5 DEF AccessInv
<1>7. QED
  BY <1>4, <1>5, <1>6

LEMMA AccessStep == AccessInv /\ [AccessNext]_accessVars => AccessInv'
<1>1. ASSUME AccessInv, \/ StrangerLeaves \/ UNCHANGED accessVars
                        \/ \E d \in Sockets : AcceptFails(d) \/ Wakes(d)
      PROVE  AccessInv'
  <2>1. UNCHANGED << environment, visor, apiToken, caller >>
    BY <1>1 DEF StrangerLeaves, accessVars, AcceptFails, Wakes
  <2>2. QED
    BY <1>1, <2>1 DEF AccessInv, LaunchFits
<1>2. QED
  BY <1>1, CallStep, VisorStep DEF AccessNext

LEMMA AccessStaysOwn == AccessSpec => []AccessIsOwn
<1>1. ASSUME AccessInv PROVE AccessIsOwn
  <2>1. CompanionDir(environment) = RuntimeDir(environment)
    BY <1>1, DirectoriesAgree DEF AccessInv
  <2>2. ASSUME NEW c \in Callers PROVE CallFits(caller[c], visor)
    BY <1>1 DEF AccessInv
  <2>3. QED
    BY <2>1, <2>2 DEF AccessIsOwn, CallFits, Worked, CallerAt
<1>2. QED
  BY <1>1, AccessInitially, AccessStep, PTL DEF AccessSpec

(***************************************************************************)
(* ToolCalls: a request, what was sent for it, and its row.                *)
(***************************************************************************)

AskRecords == [pc : {"decide", "lock", "call", "answer", "unlock", "record", "note", "done",
                     "rejected"},
               decision : Decisions \cup {"none"}, outcome : {"none", "denied", "ok", "failed"}]
AuditRows == [of : ToolRequests, decision : Decisions \cup {"none"},
              outcome : {"none", "denied", "ok", "failed"}]

\* The rows of r in a list of rows.
RowsIn(rows, r) == {i \in DOMAIN rows : rows[i].of = r}

\* A request that is through has one row, of what was done; before, it has none.
RowFits(r, a, rows) ==
  IF a.pc \in {"note", "done"}
  THEN \E i \in DOMAIN rows : /\ RowsIn(rows, r) = {i}
                              /\ rows[i].outcome = a.outcome /\ rows[i].decision = a.decision
  ELSE RowsIn(rows, r) = {}

\* What was sent for it, sent while it held the lock of the sessions.
SentFits(r, a) ==
  /\ a.pc \in {"call", "answer", "unlock"} => tableLock = r
  /\ a.pc \in {"call", "answer"} => inTable
  /\ a.pc = "answer" => calledIn[r] = "open" /\ toolSlot \in {"listed", "stale"}
  /\ a.pc \in {"lock", "call"} => a.decision = "approve"
  /\ calledIn[r] # Unsent => /\ a.decision = "approve" /\ calledIn[r] = "open"
                             /\ a.pc \in {"answer", "unlock", "record", "note", "done"}
  /\ a.outcome = "ok" => calledIn[r] # Unsent
  /\ r \in feedNotes => a.pc = "done"

ToolTyped ==
  /\ inTable \in BOOLEAN /\ tableLock \in ToolRequests \cup {Nobody}
  /\ asked \in [ToolRequests -> AskRecords] /\ mcpAudit \in Seq(AuditRows)
  /\ calledIn \in [ToolRequests -> {Unsent, "open", "closed"}]

ToolInv ==
  /\ ToolTyped
  /\ \A r \in ToolRequests : RowFits(r, asked[r], mcpAudit) /\ SentFits(r, asked[r])

LEMMA ToolInitially == ToolInit => ToolInv
<1> SUFFICES ASSUME ToolInit PROVE ToolInv
  OBVIOUS
<1>1. ToolTyped
  BY DEF ToolInit, ToolTyped, NewCall, AskRecords, AuditRows
<1>2. ASSUME NEW r \in ToolRequests
      PROVE  /\ asked[r].pc = "decide" /\ asked[r].outcome = "none" /\ calledIn[r] = Unsent
             /\ r \notin feedNotes /\ DOMAIN mcpAudit = {}
  BY DEF ToolInit, NewCall
<1>3. ASSUME NEW r \in ToolRequests PROVE RowFits(r, asked[r], mcpAudit) /\ SentFits(r, asked[r])
  BY <1>2 DEF RowFits, SentFits, RowsIn
<1>4. QED
  BY <1>1, <1>3 DEF ToolInv

\* One request goes on to q and the rest keeps what it has.  What the others rely on: whoever
\* holds the lock keeps it, the session in the table, and the server.
LEMMA RequestGoesOn ==
  ASSUME ToolInv, NEW r \in ToolRequests, NEW q \in AskRecords,
         asked' = [asked EXCEPT ![r] = q], ToolTyped',
         RowFits(r, q, mcpAudit'), SentFits(r, q)',
         \A o \in ToolRequests \ {r}, a \in AskRecords :
           a = asked[o] => RowFits(o, a, mcpAudit') /\ SentFits(o, a)'
  PROVE  ToolInv'
<1>1. asked'[r] = q /\ \A o \in ToolRequests \ {r} : asked'[o] = asked[o] /\ asked[o] \in AskRecords
  BY DEF ToolInv, ToolTyped
<1>2. ASSUME NEW o \in ToolRequests PROVE RowFits(o, asked[o], mcpAudit)' /\ SentFits(o, asked[o])'
  <2>1. CASE o = r
    BY <1>1, <2>1 DEF RowFits, SentFits
  <2>2. CASE o # r
    <3>1. PICK a \in AskRecords : a = asked[o] /\ a = asked'[o]
      BY <1>1, <2>2
    <3>2. RowFits(o, a, mcpAudit') /\ SentFits(o, a)'
      BY <2>2, <3>1
    <3>3. QED
      BY <3>1, <3>2 DEF RowFits, SentFits
  <2>3. QED
    BY <2>1, <2>2
<1>3. QED
  BY <1>2 DEF ToolInv

\* A row is appended: of r it is the first, of the others nothing changes.
LEMMA RowIsAppended ==
  ASSUME NEW rows \in Seq(AuditRows), NEW row \in AuditRows, NEW w \in ToolRequests
  PROVE  /\ Append(rows, row) \in Seq(AuditRows)
         /\ row.of # w => RowsIn(Append(rows, row), w) = RowsIn(rows, w)
         /\ \A i \in DOMAIN rows : /\ i \in DOMAIN Append(rows, row)
                                   /\ Append(rows, row)[i] = rows[i]
         /\ row.of = w /\ RowsIn(rows, w) = {} =>
              \E i \in DOMAIN Append(rows, row) :
                RowsIn(Append(rows, row), w) = {i} /\ Append(rows, row)[i] = row
<1>1. PICK more : more = Append(rows, row)
  OBVIOUS
<1>2. /\ more \in Seq(AuditRows) /\ DOMAIN more = DOMAIN rows \cup {Len(rows) + 1}
      /\ Len(rows) + 1 \notin DOMAIN rows /\ more[Len(rows) + 1] = row
      /\ \A i \in DOMAIN rows : more[i] = rows[i]
  BY <1>1
<1>3. PICK n : n = Len(rows) + 1
  OBVIOUS
<1>4. \A i : i \in DOMAIN more <=> i \in DOMAIN rows \/ i = n
  BY <1>2, <1>3
<1>5. ASSUME row.of # w PROVE RowsIn(more, w) = RowsIn(rows, w)
  BY <1>2, <1>3, <1>4, <1>5 DEF RowsIn
<1>6. ASSUME row.of = w, RowsIn(rows, w) = {} PROVE RowsIn(more, w) = {n} /\ more[n] = row
  BY <1>2, <1>3, <1>4, <1>6 DEF RowsIn
<1>7. QED
  BY <1>1, <1>2, <1>4, <1>5, <1>6

LEMMA RowsOfOthers ==
  ASSUME NEW rows \in Seq(AuditRows), NEW row \in AuditRows,
         NEW o \in ToolRequests, o # row.of, NEW a, RowFits(o, a, rows)
  PROVE  RowFits(o, a, Append(rows, row))
<1>1. PICK more : more = Append(rows, row)
  OBVIOUS
<1>2. /\ RowsIn(more, o) = RowsIn(rows, o)
      /\ \A i \in DOMAIN rows : i \in DOMAIN more /\ more[i] = rows[i]
  BY <1>1, RowIsAppended
<1>3. RowFits(o, a, more)
  BY <1>2 DEF RowFits
<1>4. QED
  BY <1>1, <1>3

\* The steps of a request that has no row yet and leave the rows alone.
LEMMA CallOfToolStep ==
  ASSUME ToolInv, NEW r \in ToolRequests,
         \/ IsDecidedOn(r) \/ LocksTable(r) \/ CallsTool(r) \/ IsAnsweredByTool(r) \/ LetsGo(r)
  PROVE  ToolInv'
<1>1. PICK x : x = asked[r]
  OBVIOUS
<1>2. /\ x \in AskRecords /\ RowFits(r, x, mcpAudit) /\ SentFits(r, x) /\ ToolTyped
      /\ Nobody \notin ToolRequests
  BY <1>1, ToolAssumption DEF ToolInv, ToolTyped
<1>3. ASSUME NEW o \in ToolRequests PROVE RowFits(o, asked[o], mcpAudit) /\ SentFits(o, asked[o])
  BY DEF ToolInv
<1>4. UNCHANGED << inTable, mcpAudit, feedNotes >>
  BY DEF IsDecidedOn, LocksTable, CallsTool, IsAnsweredByTool, LetsGo
<1>5. ASSUME NEW q \in AskRecords, asked' = [asked EXCEPT ![r] = q], ToolTyped',
             x.pc \notin {"note", "done"}, q.pc \notin {"note", "done"}, SentFits(r, q)',
             \A o \in ToolRequests \ {r}, a \in AskRecords : a = asked[o] => SentFits(o, a)'
      PROVE  ToolInv'
  <2>1. RowFits(r, q, mcpAudit')
    BY <1>2, <1>4, <1>5 DEF RowFits
  <2>2. ASSUME NEW o \in ToolRequests \ {r}, NEW a \in AskRecords, a = asked[o]
        PROVE  RowFits(o, a, mcpAudit')
    BY <1>3, <1>4, <2>2
  <2>3. QED
    BY <1>5, <2>1, <2>2, RequestGoesOn
<1>6. CASE IsDecidedOn(r)
  <2>1. PICK decision \in Decisions, pc \in {"rejected", "record", "lock"}, outcome \in {"denied", "none"} :
          /\ asked' = [asked EXCEPT ![r].decision = decision, ![r].pc = pc, ![r].outcome = outcome]
          /\ pc = "lock" => decision = "approve"
    BY <1>6 DEF IsDecidedOn, Decisions
  <2>2. PICK q : q = [x EXCEPT !.decision = decision, !.pc = pc, !.outcome = outcome]
    OBVIOUS
  <2>3. /\ q \in AskRecords /\ q.pc = pc /\ q.decision = decision /\ q.outcome = outcome
        /\ asked' = [asked EXCEPT ![r] = q]
    BY <1>1, <1>2, <2>1, <2>2 DEF AskRecords
  <2>4. x.pc = "decide" /\ UNCHANGED << inTable, tableLock, toolSlot, feedNotes, calledIn, mcpAudit >>
    BY <1>1, <1>6 DEF IsDecidedOn, HasCome
  <2>5. ToolTyped'
    BY <1>2, <2>3, <2>4 DEF ToolTyped
  <2>6. calledIn[r] = Unsent /\ r \notin feedNotes
    BY <1>2, <2>4 DEF SentFits
  <2>7. SentFits(r, q)'
    BY <2>1, <2>3, <2>4, <2>6 DEF SentFits
  <2>8. ASSUME NEW o \in ToolRequests \ {r}, NEW a \in AskRecords, a = asked[o]
        PROVE  SentFits(o, a)'
    <3>1. SentFits(o, a)
      BY <1>3, <2>8
    <3>2. QED
      BY <2>4, <3>1 DEF SentFits
  <2>9. QED
    BY <1>5, <2>3, <2>4, <2>1, <2>5, <2>7, <2>8
<1>7. CASE LocksTable(r)
  <2>1. PICK pc \in {"call", "rejected"} : /\ asked' = [asked EXCEPT ![r].pc = pc]
                                           /\ pc = "call" => inTable /\ tableLock' = r
                                           /\ pc = "rejected" => tableLock' = Nobody
    BY <1>7 DEF LocksTable, GoesOn
  <2>2. PICK q : q = [x EXCEPT !.pc = pc]
    OBVIOUS
  <2>3. /\ q \in AskRecords /\ q.pc = pc /\ q.decision = x.decision /\ q.outcome = x.outcome
        /\ asked' = [asked EXCEPT ![r] = q]
    BY <1>1, <1>2, <2>1, <2>2 DEF AskRecords
  <2>4. /\ x.pc = "lock" /\ tableLock = Nobody
        /\ UNCHANGED << inTable, toolSlot, feedNotes, calledIn, mcpAudit >>
    BY <1>1, <1>7 DEF LocksTable, HasCome
  <2>5. ToolTyped'
    <3>1. tableLock' \in ToolRequests \cup {Nobody}
      BY <2>1
    <3>2. QED
      BY <1>2, <2>3, <2>4, <3>1 DEF ToolTyped
  <2>6. SentFits(r, q)'
    BY <1>2, <2>1, <2>3, <2>4 DEF SentFits
  <2>7. ASSUME NEW o \in ToolRequests \ {r}, NEW a \in AskRecords, a = asked[o]
        PROVE  SentFits(o, a)'
    <3>1. SentFits(o, a)
      BY <1>3, <2>7
    <3>2. a.pc \notin {"call", "answer", "unlock"}
      BY <1>2, <2>4, <3>1 DEF SentFits
    <3>3. QED
      BY <2>4, <3>1, <3>2 DEF SentFits
  <2>8. QED
    BY <1>5, <2>1, <2>3, <2>4, <2>5, <2>6, <2>7
<1>8. CASE CallsTool(r)
  <2>1. /\ x.pc = "call" /\ UNCHANGED << inTable, tableLock, toolSlot, feedNotes, mcpAudit >>
        /\ tableLock = r /\ inTable /\ x.decision = "approve" /\ calledIn[r] = Unsent
        /\ r \notin feedNotes /\ x.outcome # "ok"
    BY <1>1, <1>2, <1>8 DEF CallsTool, HasCome, SentFits
  <2>2. ASSUME NEW o \in ToolRequests \ {r}, NEW a \in AskRecords, a = asked[o],
               calledIn'[o] = calledIn[o]
        PROVE  SentFits(o, a)'
    <3>1. SentFits(o, a)
      BY <1>3, <2>2
    <3>2. QED
      BY <2>1, <2>2, <3>1 DEF SentFits
  <2>3. CASE Ready /\ GoesOn(r, "answer")
             /\ calledIn' = [calledIn EXCEPT ![r] = IF inTable THEN "open" ELSE "closed"]
    <3>1. PICK q : q = [x EXCEPT !.pc = "answer"]
      OBVIOUS
    <3>2. /\ q \in AskRecords /\ q.pc = "answer" /\ q.decision = x.decision /\ q.outcome = x.outcome
          /\ asked' = [asked EXCEPT ![r] = q]
      BY <1>1, <1>2, <2>3, <3>1 DEF AskRecords, GoesOn
    <3>3. calledIn' = [calledIn EXCEPT ![r] = "open"] /\ toolSlot = "listed"
      BY <2>1, <2>3 DEF Ready
    <3>4. calledIn'[r] = "open" /\ \A o \in ToolRequests \ {r} : calledIn'[o] = calledIn[o]
      BY <1>2, <3>3 DEF ToolTyped
    <3>5. ToolTyped'
      BY <1>2, <2>1, <3>2, <3>3 DEF ToolTyped
    <3>6. SentFits(r, q)'
      BY <2>1, <3>2, <3>3, <3>4 DEF SentFits
    <3>7. QED
      BY <1>5, <2>1, <2>2, <3>2, <3>4, <3>5, <3>6
  <2>4. CASE /\ asked' = [asked EXCEPT ![r].pc = "unlock", ![r].outcome = "failed"]
             /\ UNCHANGED calledIn
    <3>1. PICK q : q = [x EXCEPT !.pc = "unlock", !.outcome = "failed"]
      OBVIOUS
    <3>2. /\ q \in AskRecords /\ q.pc = "unlock" /\ q.decision = x.decision /\ q.outcome = "failed"
          /\ asked' = [asked EXCEPT ![r] = q]
      BY <1>1, <1>2, <2>4, <3>1 DEF AskRecords
    <3>3. ToolTyped'
      BY <1>2, <2>1, <2>4, <3>2 DEF ToolTyped
    <3>4. SentFits(r, q)'
      BY <2>1, <2>4, <3>2 DEF SentFits
    <3>5. QED
      BY <1>5, <2>1, <2>2, <2>4, <3>2, <3>3, <3>4
  <2>5. QED
    BY <1>8, <2>3, <2>4 DEF CallsTool
<1>9. CASE IsAnsweredByTool(r)
  <2>1. PICK outcome \in {"ok", "failed"} :
          asked' = [asked EXCEPT ![r].pc = "unlock", ![r].outcome = outcome]
    BY <1>9 DEF IsAnsweredByTool
  <2>2. PICK q : q = [x EXCEPT !.pc = "unlock", !.outcome = outcome]
    OBVIOUS
  <2>3. /\ q \in AskRecords /\ q.pc = "unlock" /\ q.decision = x.decision /\ q.outcome = outcome
        /\ asked' = [asked EXCEPT ![r] = q]
    BY <1>1, <1>2, <2>1, <2>2 DEF AskRecords
  <2>4. /\ x.pc = "answer" /\ UNCHANGED << inTable, tableLock, feedNotes, mcpAudit, calledIn >>
        /\ tableLock = r /\ calledIn[r] = "open" /\ x.decision = "approve" /\ r \notin feedNotes
    BY <1>1, <1>2, <1>9 DEF IsAnsweredByTool, HasCome, SentFits, Unsent
  <2>5. ToolTyped'
    BY <1>2, <2>3, <2>4 DEF ToolTyped
  <2>6. SentFits(r, q)'
    BY <2>3, <2>4 DEF SentFits, Unsent
  <2>7. ASSUME NEW o \in ToolRequests \ {r}, NEW a \in AskRecords, a = asked[o]
        PROVE  SentFits(o, a)'
    <3>1. SentFits(o, a) /\ a.pc # "answer"
      BY <1>3, <2>4, <2>7 DEF SentFits
    <3>2. QED
      BY <2>4, <3>1 DEF SentFits
  <2>8. QED
    BY <1>5, <2>3, <2>4, <2>5, <2>6, <2>7
<1>10. CASE LetsGo(r)
  <2>1. PICK q : q = [x EXCEPT !.pc = "record"]
    OBVIOUS
  <2>2. /\ q \in AskRecords /\ q.pc = "record" /\ q.decision = x.decision /\ q.outcome = x.outcome
        /\ asked' = [asked EXCEPT ![r] = q]
    BY <1>1, <1>2, <1>10, <2>1 DEF AskRecords, LetsGo, GoesOn
  <2>3. /\ x.pc = "unlock" /\ tableLock = r /\ tableLock' = Nobody
        /\ UNCHANGED << inTable, toolSlot, feedNotes, mcpAudit, calledIn >>
    BY <1>1, <1>2, <1>10 DEF LetsGo, HasCome, SentFits
  <2>4. ToolTyped'
    BY <1>2, <2>2, <2>3 DEF ToolTyped
  <2>5. SentFits(r, q)'
    BY <1>2, <2>2, <2>3 DEF SentFits
  <2>6. ASSUME NEW o \in ToolRequests \ {r}, NEW a \in AskRecords, a = asked[o]
        PROVE  SentFits(o, a)'
    <3>1. SentFits(o, a) /\ a.pc \notin {"call", "answer", "unlock"}
      BY <1>3, <2>3, <2>6 DEF SentFits
    <3>2. QED
      BY <2>3, <3>1 DEF SentFits
  <2>7. QED
    BY <1>5, <2>2, <2>3, <2>4, <2>5, <2>6
<1>11. QED
  BY <1>6, <1>7, <1>8, <1>9, <1>10

\* What follows a call: its row, and its line in the feed.
LEMMA AuditStep ==
  ASSUME ToolInv, NEW r \in ToolRequests, RecordsCall(r) \/ NotesCall(r) PROVE ToolInv'
<1>1. PICK x : x = asked[r]
  OBVIOUS
<1>2. x \in AskRecords /\ RowFits(r, x, mcpAudit) /\ SentFits(r, x) /\ ToolTyped
  BY <1>1 DEF ToolInv, ToolTyped
<1>3. ASSUME NEW o \in ToolRequests PROVE RowFits(o, asked[o], mcpAudit) /\ SentFits(o, asked[o])
  BY DEF ToolInv
<1>4. CASE RecordsCall(r)
  <2>1. PICK row : row = [of |-> r, decision |-> x.decision, outcome |-> x.outcome]
    OBVIOUS
  <2>2. row \in AuditRows /\ row.of = r /\ row.decision = x.decision /\ row.outcome = x.outcome
    BY <1>2, <2>1 DEF AskRecords, AuditRows
  <2>3. PICK q : q = [x EXCEPT !.pc = "note"]
    OBVIOUS
  <2>4. /\ q \in AskRecords /\ q.pc = "note" /\ q.decision = x.decision /\ q.outcome = x.outcome
        /\ asked' = [asked EXCEPT ![r] = q]
    BY <1>1, <1>2, <1>4, <2>3 DEF AskRecords, RecordsCall, GoesOn
  <2>5. /\ x.pc = "record" /\ mcpAudit' = Append(mcpAudit, row)
        /\ UNCHANGED << inTable, tableLock, toolSlot, feedNotes, calledIn >>
    BY <1>1, <1>4, <2>1 DEF RecordsCall, HasCome, Row
  <2>6. mcpAudit \in Seq(AuditRows) /\ RowsIn(mcpAudit, r) = {}
    BY <1>2, <2>5 DEF ToolTyped, RowFits
  <2>7. /\ mcpAudit' \in Seq(AuditRows)
        /\ \E i \in DOMAIN mcpAudit' : RowsIn(mcpAudit', r) = {i} /\ mcpAudit'[i] = row
    BY <2>2, <2>5, <2>6, RowIsAppended
  <2>8. RowFits(r, q, mcpAudit')
    BY <2>2, <2>4, <2>7 DEF RowFits
  <2>9. ToolTyped'
    BY <1>2, <2>4, <2>5, <2>7 DEF ToolTyped
  <2>10. SentFits(r, q)'
    BY <1>2, <2>4, <2>5 DEF SentFits
  <2>11. ASSUME NEW o \in ToolRequests \ {r}, NEW a \in AskRecords, a = asked[o]
         PROVE  RowFits(o, a, mcpAudit') /\ SentFits(o, a)'
    <3>1. SentFits(o, a) /\ RowFits(o, a, mcpAudit)
      BY <1>3, <2>11
    <3>2. RowFits(o, a, mcpAudit')
      BY <2>2, <2>5, <2>6, <3>1, RowsOfOthers
    <3>3. QED
      BY <2>5, <3>1, <3>2 DEF SentFits
  <2>12. QED
    BY <2>4, <2>8, <2>9, <2>10, <2>11, RequestGoesOn
<1>5. CASE NotesCall(r)
  <2>1. PICK q : q = [x EXCEPT !.pc = "done"]
    OBVIOUS
  <2>2. /\ q \in AskRecords /\ q.pc = "done" /\ q.decision = x.decision /\ q.outcome = x.outcome
        /\ asked' = [asked EXCEPT ![r] = q]
    BY <1>1, <1>2, <1>5, <2>1 DEF AskRecords, NotesCall, GoesOn
  <2>3. /\ x.pc = "note" /\ feedNotes' \subseteq feedNotes \cup {r}
        /\ UNCHANGED << inTable, tableLock, toolSlot, mcpAudit, calledIn >>
    BY <1>1, <1>5 DEF NotesCall, HasCome
  <2>4. ToolTyped'
    BY <1>2, <2>2, <2>3 DEF ToolTyped
  <2>5. SentFits(r, q)' /\ RowFits(r, q, mcpAudit')
    BY <1>2, <2>2, <2>3 DEF SentFits, RowFits
  <2>6. ASSUME NEW o \in ToolRequests \ {r}, NEW a \in AskRecords, a = asked[o]
        PROVE  RowFits(o, a, mcpAudit') /\ SentFits(o, a)'
    <3>1. SentFits(o, a) /\ RowFits(o, a, mcpAudit)
      BY <1>3, <2>6
    <3>2. o \in feedNotes' => o \in feedNotes
      BY <2>3
    <3>3. QED
      BY <2>3, <3>1, <3>2 DEF SentFits
  <2>7. QED
    BY <2>2, <2>4, <2>5, <2>6, RequestGoesOn
<1>6. QED
  BY <1>4, <1>5

\* The session and the server: the lock keeps them from a call that is under way.
LEMMA SessionOfToolsStep ==
  ASSUME ToolInv, ClosesIt \/ Refreshes \/ AnnouncesChange \/ UNCHANGED toolVars PROVE ToolInv'
<1>1. UNCHANGED << tableLock, asked, mcpAudit, calledIn >> /\ ToolTyped /\ Nobody \notin ToolRequests
  BY ToolAssumption DEF ToolInv, ClosesIt, Refreshes, AnnouncesChange, toolVars
<1>2. feedNotes' \subseteq feedNotes /\ inTable' \in BOOLEAN
  <2>1. CASE ClosesIt
    BY <2>1 DEF ClosesIt
  <2>2. CASE Refreshes \/ AnnouncesChange \/ UNCHANGED toolVars
    <3>1. UNCHANGED << feedNotes, inTable >>
      BY <2>2 DEF Refreshes, AnnouncesChange, toolVars
    <3>2. QED
      BY <1>1, <3>1, Zenon DEF ToolTyped
  <2>3. QED
    BY <2>1, <2>2
<1>3. \/ tableLock = Nobody
      \/ inTable' = inTable /\ (toolSlot' = toolSlot \/ toolSlot' = "stale")
  BY DEF ClosesIt, Refreshes, AnnouncesChange, toolVars
<1>4. ASSUME NEW r \in ToolRequests PROVE (RowFits(r, asked[r], mcpAudit) /\ SentFits(r, asked[r]))'
  <2>1. PICK a : a = asked[r] /\ RowFits(r, a, mcpAudit) /\ SentFits(r, a)
    BY DEF ToolInv
  <2>2. tableLock = Nobody => a.pc \notin {"call", "answer", "unlock"}
    BY <1>1, <2>1 DEF SentFits
  <2>3. SentFits(r, a)'
    BY <1>1, <1>2, <1>3, <2>1, <2>2 DEF SentFits
  <2>4. a = asked'[r] /\ RowFits(r, a, mcpAudit')
    BY <1>1, <2>1
  <2>5. QED
    BY <2>3, <2>4
<1>5. ToolTyped'
  BY <1>1, <1>2 DEF ToolTyped
<1>6. QED
  BY <1>4, <1>5 DEF ToolInv

LEMMA ToolStep == ToolInv /\ [ToolNext]_toolVars => ToolInv'
BY CallOfToolStep, AuditStep, SessionOfToolsStep DEF ToolNext

LEMMA CallsStayAudited == ToolSpec => []CallsAreAudited
<1>1. ASSUME ToolInv, NEW r \in ToolRequests PROVE RowIsTrue(r)
  <2>1. RowFits(r, asked[r], mcpAudit) /\ SentFits(r, asked[r]) /\ RowsOf(r) = RowsIn(mcpAudit, r)
    BY <1>1 DEF ToolInv, RowsOf, RowsIn
  <2>2. CASE asked[r].pc \in {"note", "done"}
    <3>1. PICK i : /\ RowsOf(r) = {i} /\ mcpAudit[i].outcome = asked[r].outcome
                   /\ mcpAudit[i].decision = asked[r].decision
      BY <2>1, <2>2 DEF RowFits
    <3>2. Cardinality(RowsOf(r)) = 1
      BY <3>1, FS_Singleton
    <3>3. QED
      BY <2>1, <2>2, <3>1, <3>2 DEF SentFits, RowIsTrue
  <2>3. CASE asked[r].pc \notin {"note", "done"}
    <3>1. RowsOf(r) = {} /\ r \notin feedNotes
      BY <2>1, <2>3 DEF RowFits, SentFits
    <3>2. Cardinality(RowsOf(r)) = 0
      BY <3>1, FS_EmptySet
    <3>3. QED
      BY <2>3, <3>1, <3>2 DEF RowIsTrue
  <2>4. QED
    BY <2>2, <2>3
<1>2. ASSUME ToolInv, NEW r \in ToolRequests PROVE CallIsAllowed(r)
  <2>1. \A q \in ToolRequests : SentFits(q, asked[q])
    BY <1>2 DEF ToolInv
  <2>2. ASSUME NEW q \in ToolRequests \ {r}, HasCome(r, "answer") PROVE ~HasCome(q, "answer")
    BY <2>1, <2>2 DEF SentFits, HasCome
  <2>3. QED
    BY <2>1, <2>2 DEF SentFits, HasCome, CallIsAllowed
<1>3. ToolInv => CallsAreAudited
  BY <1>1, <1>2 DEF CallsAreAudited
<1>4. QED
  BY <1>3, ToolInitially, ToolStep, PTL DEF ToolSpec

\* What is handled comes from this user, through any number of launches, and a call of a
\* tool that was sent is on record as it ended, however calls, refreshes and the close
\* overlap (accept_loop, reject_without_bearer, exchange_read_timeout, mcp_call).
THEOREM RequestsStayOwn == AccessSpec /\ ToolSpec => []RequestsAreOwn
<1>1. AccessIsOwn /\ CallsAreAudited => RequestsAreOwn
  BY DEF RequestsAreOwn
<1>2. QED
  BY <1>1, AccessStaysOwn, CallsStayAudited, PTL
===============================================================================
