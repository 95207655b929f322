----------------------------- MODULE PromptPass ------------------------------
(***************************************************************************)
(* The prompt door of the visor: POST /prompt and the session stream       *)
(* (api.rs, stream.rs, session.rs, vault.rs), the pass that audits them    *)
(* (prompt.rs) and the orchestrator that picks the doors of a model        *)
(* (orchestrator.rs).  A request is a thread: the sessions lock makes a    *)
(* delivery one step, the gate of the pass is held from Enter to Leave,    *)
(* and each call of a door is a step of its own.                           *)
(*                                                                         *)
(* A text is the set of secret values in it, and a secret has the name of  *)
(* its value.  The key and what looks like a secret by its shape are       *)
(* redacted like a needle and are left out, as PII, the names of files and *)
(* the activity feed are.  There is one session.                           *)
(***************************************************************************)
EXTENDS Naturals, Sequences, FiniteSets, SequencesExt

CONSTANTS Requests, Values,
          Short,       \* the values too short to be a needle
          Hosts,       \* the authorities of the supervisor URLs
          Models,      \* PRODUCT_CATALOG
          Default,     \* DoorConfig::default_model
          Setups,      \* the configurations the visor may start with
          Bodies       \* the bodies a stream may bring

ASSUME PromptAssumption == Short \subseteq Values /\ Default \in Models

NoPrompt == "none"
Unknown == "unknown"
ASSUME PromptNames == {NoPrompt, Unknown, "blank"} \cap (Hosts \cup Models) = {}

VARIABLES
  doors,    \* the orchestrator after connect
  session,  \* [open, vault, prompts]: the vault's values, the inbox
  job,      \* the requests
  gate,     \* PromptPass::gate, a set of at most one request
  needles,  \* Auditor::needles
  pending,  \* Auditor::pending: the prompts and files flagged and not on a row
  report,   \* Report: door and other expert
  audit     \* Auditor::records

PromptVars == << doors, session, job, gate, needles, pending, report, audit >>

-----------------------------------------------------------------------------
(* Configuration of the doors.                                             *)

Texts == SUBSET Values
Lists == UNION {[1..n -> Hosts] : n \in 0..3}

\* A route is a line of DoorConfig::routes; an expert set may name the host
\* that answers.
DoorConfigs == [primary : Hosts \cup {NoPrompt}, second : Hosts \cup {NoPrompt},
                routes : [Models -> Lists], experts : SUBSET Models,
                answers : [Models -> Hosts \cup {NoPrompt}]]

\* connect, and what it refuses.
Accepted(c) ==
  LET routed == \E m \in Models : c.routes[m] # << >>
      answered == {m \in Models : c.answers[m] # NoPrompt}
      named == {c.primary, c.second}
  IN  /\ c.primary = NoPrompt => ~routed /\ c.experts = {} /\ answered = {}
      /\ c.second = NoPrompt => ~routed /\ c.experts = {}
      /\ c.second # NoPrompt =>
           /\ c.primary # c.second
           /\ \A m \in Models : ToSet(c.routes[m]) \subseteq named
           /\ answered \subseteq c.experts /\ \A m \in answered : c.answers[m] \in named

\* Orchestrator::from_named keeps the first of equal routes.
Kept(seen, h) == IF h \in ToSet(seen) THEN seen ELSE Append(seen, h)
Distinct(hosts) ==
  LET seen[n \in 0..Len(hosts)] == IF n = 0 THEN << >> ELSE Kept(seen[n - 1], hosts[n])
  IN seen[Len(hosts)]

NoDoors == [configured |-> FALSE]

Connected(c) ==
  IF c.primary = NoPrompt
  THEN [doors |-> << >>, routes |-> [m \in Models |-> << >>], experts |-> {},
        answers |-> [m \in Models |-> NoPrompt]]
  ELSE [doors |-> IF c.second = NoPrompt THEN << c.primary >> ELSE << c.primary, c.second >>,
        routes |-> [m \in Models |-> Distinct(c.routes[m])],
        experts |-> c.experts,
        answers |-> IF c.second = NoPrompt THEN [m \in Models |-> NoPrompt] ELSE c.answers]

\* Orchestrator::plan: what to do for a model, and whom to ask in what order.
Plan(m) ==
  CASE doors.doors = << >> -> [kind |-> "unconfigured", ask |-> << >>]
    [] Len(doors.doors) = 1 -> [kind |-> "one", ask |-> doors.doors]
    [] Len(doors.doors) = 2 /\ m \in doors.experts ->
         [kind |-> "experts", ask |-> doors.doors]
    [] OTHER -> [kind |-> IF doors.routes[m] = << >> THEN "unmapped" ELSE "failover",
                 ask |-> doors.routes[m]]

\* The expert whose text the caller gets.
Answering(m) ==
  IF doors.answers[m] = doors.doors[2] THEN doors.doors[2] ELSE doors.doors[1]

-----------------------------------------------------------------------------
(* Requests.                                                               *)

\* A line of a stream body, or the one prompt of POST /prompt.
Prompts == [kind : {"prompt"}, text : Texts, model : {Unknown} \cup Models]
Blank == [kind |-> "prompt", text |-> {}, model |-> "blank"]
Files == [kind : {"file"}, text : Texts]
Secrets == [kind : {"secret"}, value : Values, source : {"local", "mcp", "other"}]
Bad == [kind |-> "bad"]
Lines == Prompts \cup Files \cup Secrets \cup {Bad}


ASSUME InputAssumption == Setups \subseteq DoorConfigs /\ Bodies \subseteq Seq(Lines)

NoJob == [pc |-> "new", stream |-> FALSE, key |-> TRUE, items |-> << >>, at |-> 0,
          needles |-> {}, left |-> << >>, heard |-> << >>]
NoReport == [door |-> NoPrompt, other |-> << >>]

PromptInit ==
  /\ doors = NoDoors
  /\ session = [open |-> TRUE, vault |-> {}, prompts |-> << >>]
  /\ job = [r \in Requests |-> NoJob]
  /\ gate = {} /\ needles = {} /\ pending = << >> /\ report = NoReport /\ audit = << >>

\* PromptPass::open, before the first request; a refused configuration ends the
\* visor.
Open ==
  /\ doors = NoDoors
  /\ \E c \in Setups : Accepted(c) /\ doors' = Connected(c)
  /\ UNCHANGED << session, job, gate, needles, pending, report, audit >>

Goes(r, from, to) == job[r].pc = from /\ job' = [job EXCEPT ![r].pc = to]
PassUnchanged == UNCHANGED << doors, gate, needles, pending, report, audit >>

\* submit_prompt: the key is judged inside the pass.
Submit(r) ==
  /\ job[r].pc = "new" /\ doors # NoDoors
  /\ \E p \in Prompts \cup {Blank}, key \in BOOLEAN :
       job' = [job EXCEPT ![r] = [NoJob EXCEPT !.pc = "waiting", !.key = key,
                                               !.items = << p >>]]
  /\ UNCHANGED session /\ PassUnchanged

\* session_stream: the key and the session are checked before the body is
\* read, and a bad line refuses the whole body.
Stream(r) ==
  /\ job[r].pc = "new" /\ session.open /\ doors # NoDoors
  /\ \E body \in Bodies :
       job' = [job EXCEPT ![r] = [NoJob EXCEPT !.pc = "reading", !.stream = TRUE,
                                               !.items = body]]
  /\ UNCHANGED session /\ PassUnchanged

Asked(items, kind) ==
  FlattenSeq([i \in DOMAIN items |-> IF items[i].kind = kind THEN << items[i] >> ELSE << >>])
Pushed(items) == {items[i].value : i \in {j \in DOMAIN items : items[j].kind = "secret"}}

\* parse and preflight.
Parses(items) ==
  items # << >> /\ \A i \in DOMAIN items : items[i] # Bad
PassesPreflight(items) ==
  /\ Pushed(items) \cap session.vault = {}
  /\ Cardinality(Pushed(items)) = Len(Asked(items, "secret"))

\* materialize: a local value is at hand, a fetch from an MCP server may fail at
\* any time, the other sources are not implemented.
Materializes(line) ==
  CASE line.source = "local" -> {TRUE}
    [] line.source = "mcp" -> BOOLEAN
    [] OTHER -> {FALSE}

\* Whether every secret of a body may be, or some may not be, fetched.
MayMaterialize(items) ==
  \A i \in DOMAIN items : items[i].kind = "secret" => TRUE \in Materializes(items[i])
MayFail(items) ==
  \E i \in DOMAIN items : items[i].kind = "secret" /\ FALSE \in Materializes(items[i])

\* What n lines of a body leave in the session.
Holding(items, n) ==
  [session EXCEPT !.vault = @ \cup Pushed(SubSeq(items, 1, n)),
                  !.prompts = @ \o Asked(SubSeq(items, 1, n), "prompt")]

\* deliver and vault_needles, under the sessions lock.
Deliver(r) ==
  /\ session.open /\ Parses(job[r].items) /\ PassesPreflight(job[r].items)
  /\ MayMaterialize(job[r].items)
  /\ job[r].pc = "reading"
  /\ session' = Holding(job[r].items, Len(job[r].items))
  /\ job' = [job EXCEPT ![r].pc = "waiting", ![r].needles = session'.vault \ Short]
  /\ PassUnchanged

\* A secret that preflight could fetch cannot be fetched again: the lines
\* before it stay.
DeliverSome(r) ==
  /\ session.open /\ Parses(job[r].items) /\ PassesPreflight(job[r].items)
  /\ MayMaterialize(job[r].items)
  /\ Goes(r, "reading", "refused")
  /\ \E n \in 0..(Len(job[r].items) - 1) :
       /\ job[r].items[n + 1].kind = "secret" /\ FALSE \in Materializes(job[r].items[n + 1])
       /\ session' = Holding(job[r].items, n)
  /\ PassUnchanged

\* The body, the session or a secret will not do.
Refuse(r) ==
  /\ \/ ~session.open \/ ~Parses(job[r].items) \/ ~PassesPreflight(job[r].items)
     \/ MayFail(job[r].items)
  /\ Goes(r, "reading", "refused")
  /\ UNCHANGED session /\ PassUnchanged

Close ==
  /\ session.open /\ doors # NoDoors
  /\ session' = [open |-> FALSE, vault |-> {}, prompts |-> << >>]
  /\ UNCHANGED job /\ PassUnchanged

-----------------------------------------------------------------------------
(* The pass.                                                               *)

GateIsFree(r) == gate = {}

\* submit or drive_parked takes the gate; the latter arms the needles.
Enter(r) ==
  /\ GateIsFree(r) /\ gate' = gate \cup {r}
  /\ Goes(r, "waiting", "next")
  /\ needles' = IF job[r].stream THEN job[r].needles ELSE needles
  /\ UNCHANGED << doors, session, pending, report, audit >>

Current(r) == job[r].items[job[r].at]
Redacted(text) == text \ needles
NextUnlessFailed(r) ==
  LET later == {i \in DOMAIN job[r].items : i > job[r].at /\ job[r].items[i].kind = "prompt"}
  IN  IF \/ later = {}
         \/ job[r].at # 0 /\ audit # << >> /\ Last(audit).outcome # "forwarded" THEN 0
      ELSE CHOOSE i \in later : \A j \in later : i <= j

NextPrompt(r) ==
  LET later == {i \in DOMAIN job[r].items : i > job[r].at /\ job[r].items[i].kind = "prompt"}
  IN  IF later = {} THEN 0 ELSE CHOOSE i \in later : \A j \in later : i <= j

\* flag_inbox: a finding is noted as pending.
Flagged(r, i) ==
  IF job[r].stream /\ job[r].items[i].text \cap needles # {} THEN << << r, i >> >> ELSE << >>

FlaggedFile(r, i) == IF job[r].items[i].kind = "file" THEN Flagged(r, i) ELSE << >>

\* Auditor::record takes what is pending along.
Row(of, outcome, door, shown, other, heard, flags) ==
  [of |-> of, outcome |-> outcome, door |-> door, shown |-> shown, other |-> other,
   heard |-> heard, flags |-> flags]

\* What stops a prompt before any door is asked.
Stopped(r, p) ==
  CASE ~job[r].key \/ p.model \in {"blank", Unknown} -> "rejected"
    [] job[r].key /\ p.model \in Models /\ Plan(p.model).ask = << >> -> "door_failed"
    [] OTHER -> NoPrompt

\* submit_inner up to the first call of a door, and dispatch's report.
Begin(r) ==
  LET i == NextPrompt(r)
      p == job[r].items[i]
      flags == pending \o Flagged(r, i)
  IN  /\ job[r].pc = "next" /\ i # 0
      /\ \/ /\ Stopped(r, p) # NoPrompt
            /\ audit' = Append(audit, Row(<< r, i >>, Stopped(r, p), NoPrompt, Redacted(p.text),
                                          << >>, << >>, flags))
            /\ pending' = << >> /\ UNCHANGED report
            /\ job' = [job EXCEPT ![r].at = i]
         \/ /\ Stopped(r, p) = NoPrompt
            /\ pending' = flags /\ UNCHANGED audit
            /\ report' = [NoReport EXCEPT !.door =
                            IF Plan(p.model).kind = "experts" THEN Answering(p.model)
                            ELSE Plan(p.model).ask[1]]
            /\ job' = [job EXCEPT ![r].at = i, ![r].pc = "asking", ![r].heard = << >>,
                                  ![r].left = Plan(p.model).ask]
      /\ UNCHANGED << doors, session, gate, needles >>

\* A door answers, fails or does not answer in time; its text may repeat the
\* prompt.  Only a failure of a failover leads on, the experts are both asked.
AsksOn(r, ok) == Plan(Current(r).model).kind = "experts" \/ ~ok

Hear(r) ==
  LET h == Head(job[r].left)
      p == Current(r)
  IN  /\ job[r].pc = "asking" /\ job[r].left # << >>
      /\ \E ok \in BOOLEAN, text \in {{}, p.text} : (ok \/ text = {}) /\
           LET left == IF AsksOn(r, ok) THEN Tail(job[r].left) ELSE << >>
           IN  /\ job' = [job EXCEPT ![r].left = left,
                      ![r].heard = Append(@, [door |-> h, ok |-> ok, text |-> text])]
               /\ report' = IF Plan(p.model).kind = "failover" /\ left # << >>
                            THEN [report EXCEPT !.door = Head(left)] ELSE report
      /\ UNCHANGED << doors, session, gate, needles, pending, audit >>

\* ExpertFan::forward with both texts in hand, for the door that answers.
FanReport(r) ==
  LET own == Answering(Current(r).model)
      aside == {h \in ToSet(job[r].heard) : h.door # own}
  IN  [door |-> own, other |-> SetToSeq({[door |-> h.door, text |-> h.text] : h \in aside})]

\* dispatch: a failover is told by its last door, the experts must both answer.
Answered(r) ==
  IF Plan(Current(r).model).kind = "experts"
  THEN \A i \in DOMAIN job[r].heard : job[r].heard[i].ok ELSE Last(job[r].heard).ok

Told(r) ==
  LET kind == Plan(Current(r).model).kind
  IN  CASE kind = "experts" /\ Answered(r) -> FanReport(r)
        [] kind = "failover" -> [NoReport EXCEPT !.door = Last(job[r].heard).door]
        [] OTHER -> report

\* store_success or failed_row: what dispatch returned becomes the row.
Store(r) ==
  LET p == Current(r)
      heard == job[r].heard
      ok == Answered(r)
      told == Told(r)
      answer == {h.text : h \in {g \in ToSet(heard) : Plan(p.model).kind = "experts"
                                                       => g.door = Answering(p.model)}}
  IN  /\ job[r].pc = "asking" /\ job[r].left = << >>
      /\ audit' = Append(audit,
           Row(<< r, job[r].at >>, IF ok THEN "forwarded" ELSE "door_failed", told.door,
               Redacted(p.text) \cup (IF ok THEN Redacted(UNION answer) ELSE {}),
               [i \in DOMAIN told.other |-> [told.other[i] EXCEPT !.text = Redacted(@)]],
               heard, pending))
      /\ report' = [told EXCEPT !.other = << >>]
      /\ pending' = << >>
      /\ job' = [job EXCEPT ![r].pc = "next", ![r].left = << >>, ![r].heard = << >>]
      /\ UNCHANGED << doors, session, gate, needles >>

\* The rest of drive_parked: the files are flagged, on a row of their own, the
\* needles cleared and the gate released.
Leave(r) ==
  LET flags == pending \o FlattenSeq([i \in DOMAIN job[r].items |-> FlaggedFile(r, i)])
  IN  /\ NextPrompt(r) = 0 /\ Goes(r, "next", "done")
      /\ gate' = gate \ {r}
      /\ IF job[r].stream
         THEN /\ audit' = IF flags = << >> THEN audit
                          ELSE Append(audit, Row(<< r, 0 >>, "rejected", NoPrompt, {}, << >>, << >>, flags))
              /\ pending' = << >> /\ needles' = {}
         ELSE UNCHANGED << audit, pending, needles >>
      /\ UNCHANGED << doors, session, report >>

PromptNext ==
  \/ Open \/ Close
  \/ \E r \in Requests :
       Submit(r) \/ Stream(r) \/ Deliver(r) \/ DeliverSome(r) \/ Refuse(r)
         \/ Enter(r) \/ Begin(r) \/ Hear(r) \/ Store(r) \/ Leave(r)

PromptSpec == PromptInit /\ [][PromptNext]_PromptVars
-----------------------------------------------------------------------------
(* Properties.                                                             *)

\* Every variable keeps its type; outside the gate nothing is armed or pending.
PromptTypeOK ==
  /\ session \in [open : BOOLEAN, vault : SUBSET Values, prompts : Seq(Prompts)]
  /\ \A r \in Requests :
       /\ job[r].pc \in {"new", "reading", "refused", "waiting", "next", "asking", "done"}
       /\ job[r].items \in Seq(Lines \cup {Blank}) /\ job[r].needles \subseteq Values
  /\ gate \subseteq Requests /\ needles \subseteq Values
  /\ report.door \in Hosts \cup {NoPrompt}
  /\ gate = {} => needles = {} /\ pending = << >> /\ report.other = << >>

Shown(row) == row.shown \cup UNION {h.text : h \in ToSet(row.other)}

\* An audit row of a stream shows none of the secrets that were in the vault of
\* the session when its body was delivered, whoever else is in the pass
\* (PromptPass::drive_parked and its needles).
RowsHideSecrets ==
  \A i \in DOMAIN audit : Shown(audit[i]) \cap job[audit[i].of[1]].needles = {}

\* A row tells of its own prompt only: the findings are its own, or of the files
\* of its own body; the door is one that answered or refused this prompt; the
\* other expert is the other door that answered it (Report and
\* Auditor::pending, shared by all requests).
RowsAreTheirOwn ==
  \A i \in DOMAIN audit :
    LET row == audit[i]
        spoke == {[door |-> h.door, ok |-> h.ok] : h \in ToSet(row.heard)}
    IN  /\ \A f \in ToSet(row.flags) : f[1] = row.of[1] /\ row.of[2] \in {0, f[2]}
        /\ row.heard # << >> =>
             /\ row.door \in {h.door : h \in spoke}
             /\ row.outcome = "forwarded" => [door |-> row.door, ok |-> TRUE] \in spoke
        /\ \A h \in ToSet(row.other) :
             h.door # row.door /\ [door |-> h.door, ok |-> TRUE] \in spoke

\* The rows of the prompts of a request.
RowsOf(r) == {n \in DOMAIN audit : audit[n].of[1] = r /\ audit[n].of[2] # 0}
PromptsOf(r) == {i \in DOMAIN job[r].items : job[r].items[i].kind = "prompt"}

\* "One submit is one audit row": a prompt that was submitted, or that a stream
\* acknowledged, has exactly one row when its request is done, in their order and
\* whatever became of the prompts before it; and while it is in flight no door gets it twice,
\* and a failover asks nobody after an answer.
EveryPromptOnce ==
  \A r \in Requests :
    LET heard == job[r].heard
    IN  /\ \A n, o \in RowsOf(r) : n < o => audit[n].of[2] < audit[o].of[2]
        /\ job[r].pc = "done" => {audit[n].of[2] : n \in RowsOf(r)} = PromptsOf(r)
        /\ job[r].pc = "asking" =>
             /\ IsInjective([i \in DOMAIN heard |-> heard[i].door])
             /\ Plan(Current(r).model).kind = "failover" =>
                  \A i \in DOMAIN heard : heard[i].ok => i = Len(heard)

\* The audit tells what became of every prompt, under its own name and without a
\* secret of its session (PromptPass, Auditor).
AuditIsTrue == RowsHideSecrets /\ RowsAreTheirOwn /\ EveryPromptOnce
=============================================================================
