------------------------------- MODULE Routing -------------------------------
(***************************************************************************)
(* Which MCP server the companion is told to prefer (src/api.rs            *)
(* companion_session, cached_focus, spawn_focus_refresh; src/mcp/          *)
(* bindings.rs).  A poll chooses a session, takes the cached identity of   *)
(* the focused window, takes the cached bindings and matches them.  Three  *)
(* facts that age on their own meet in the answer: the servers of the      *)
(* session, the focus, and the bindings file.                              *)
(*                                                                         *)
(* An identity is a window class and an executable, each possibly absent;  *)
(* names compare as model values.  Time is counted in ticks.  Polls come   *)
(* one at a time and are over within a tick; a probe of the compositor     *)
(* takes up to ProbeTicks, which the code itself does not bound.           *)
(***************************************************************************)
EXTENDS Integers, Sequences, FiniteSets, FiniteSetsExt

CONSTANTS RentedSessions, \* sessions the table may hold
          RoutedServers,  \* MCP servers
          Identities,     \* what the compositor may say: [class, exe]
          BindingFiles,   \* contents of mcp-bindings.json: bindings in order;
                          \* one that is missing or invalid has none
          FocusTicks,     \* FOCUS_TTL
          RefreshTicks,   \* BINDINGS_REFRESH
          ProbeTicks,     \* the longest a probe takes
          MaxTurns        \* changes of the world

NoName == "none"
ASSUME RoutingAssumption ==
  /\ \A i \in Identities : i \in [class : STRING, exe : STRING]
  /\ BindingFiles \subseteq Seq([server : RoutedServers, class : STRING, exe : STRING])
  /\ {FocusTicks, RefreshTicks} \subseteq Nat \ {0} /\ {ProbeTicks, MaxTurns} \subseteq Nat

VARIABLES
  world,    \* the focus, the bindings file, the ready servers of each session,
            \* the one touched last and the one the gate runs for
  turns,    \* how often the world changed
  focus,    \* FocusCache: a set of at most one sample and its age
  bindings, \* BindingCache, the same
  probe,    \* the refresh under way and what it saw
  refreshing, \* focus_refreshing
  poll,     \* the poll under way
  recent    \* history: ticks since each focus and each file was the current
            \* one, and the servers seen ready since the poll began

RoutingVars == << world, turns, focus, bindings, probe, refreshing, poll, recent >>

Window == FocusTicks + ProbeTicks
Nobody == "nobody"
Polls == [pc : {"none", "chooses", "looks", "matches", "answers"},
          driving : RentedSessions \cup {Nobody}, id : RentedSessions \cup {Nobody},
          healthy : SUBSET RoutedServers, saw : SUBSET Identities,
          preferred : SUBSET RoutedServers]
NoPoll == [pc |-> "none", driving |-> Nobody, id |-> Nobody, healthy |-> {}, saw |-> {},
           preferred |-> {}]
NoProbe == [pc |-> "none", age |-> 0, saw |-> {}]

RoutingInit ==
  /\ turns = 0 /\ focus = {} /\ bindings = {} /\ refreshing = FALSE
  /\ probe = NoProbe /\ poll = NoPoll
  /\ \E f \in BindingFiles, i \in Identities, s \in RentedSessions :
       /\ world = [focus |-> i, file |-> f, ready |-> [r \in RentedSessions |-> {}],
                   latest |-> s, driving |-> Nobody]
       /\ recent = [focus |-> [j \in Identities |-> IF j = i THEN 0 ELSE Window],
                    file |-> [g \in BindingFiles |-> IF g = f THEN 0 ELSE RefreshTicks],
                    ready |-> [r \in RentedSessions |-> {}]]

-----------------------------------------------------------------------------
(* explain_preferred.                                                      *)

Empty(identity) == identity.class = NoName /\ identity.exe = NoName

\* matches_focus: every selector there is, and at least one.
Matches(identity, b) ==
  /\ b.class # NoName \/ b.exe # NoName
  /\ b.class # NoName => b.class = identity.class
  /\ b.exe # NoName => b.exe = identity.exe

\* The bindings, by index, that match the focus and whose server is healthy.
Usable(identity, file, healthy) ==
  {n \in DOMAIN file : /\ Matches(identity, file[n])
                                /\ file[n].server \in healthy}

\* The order of the file is the user's precedence.
Preferred(identity, file, healthy) ==
  IF Empty(identity) \/ Usable(identity, file, healthy) = {} THEN {}
  ELSE {file[Min(Usable(identity, file, healthy))].server}

-----------------------------------------------------------------------------
(* The world: windows, the user's editor, sessions and their servers.      *)

\* Every change is noted, and a poll under way may have seen what it undoes.
WorldIs(w) ==
  /\ turns < MaxTurns /\ turns' = turns + 1 /\ world' = w
  /\ recent' = [focus |-> [recent.focus EXCEPT ![w.focus] = 0],
                file |-> [recent.file EXCEPT ![w.file] = 0],
                ready |-> [r \in RentedSessions |-> recent.ready[r] \cup w.ready[r]]]
  /\ UNCHANGED << focus, bindings, probe, refreshing, poll >>

WorldChanges ==
  \/ \E i \in Identities : WorldIs([world EXCEPT !.focus = i])
  \/ \E f \in BindingFiles : WorldIs([world EXCEPT !.file = f])
  \/ \E r \in RentedSessions, S \in SUBSET RoutedServers :
       WorldIs([world EXCEPT !.ready[r] = S, !.latest = r])
  \/ \E r \in RentedSessions \cup {Nobody} : WorldIs([world EXCEPT !.driving = r])

-----------------------------------------------------------------------------
(* One poll.                                                               *)

PollBegins ==
  /\ poll.pc = "none"
  /\ poll' = [NoPoll EXCEPT !.pc = "chooses", !.driving = world.driving]
  /\ recent' = [recent EXCEPT !.ready = world.ready]
  /\ UNCHANGED << world, turns, focus, bindings, probe, refreshing >>

\* The session the gate runs for, else the one touched last; what is ready in
\* it (RoutingStatus::Ready) is asked under the lock on the table.
PollChooses ==
  /\ poll.pc = "chooses"
  /\ LET id == IF poll.driving # Nobody THEN poll.driving ELSE world.latest
     IN  poll' = [poll EXCEPT !.pc = "looks", !.id = id, !.healthy = world.ready[id]]
  /\ UNCHANGED << world, turns, focus, bindings, probe, refreshing, recent >>

FreshSamples == {s \in focus : s.age < FocusTicks}

\* What cached_focus returns: nothing while an expired sample is refreshed.
SampleSeen == {s.identity : s \in FreshSamples}

PollLooks ==
  /\ poll.pc = "looks"
  /\ poll' = [poll EXCEPT !.pc = "matches", !.saw = SampleSeen]
  /\ IF FreshSamples # {} \/ refreshing THEN UNCHANGED << probe, refreshing >>
     ELSE probe' = [NoProbe EXCEPT !.pc = "reads"] /\ refreshing' = TRUE
  /\ UNCHANGED << world, turns, focus, bindings, recent >>

\* BindingCache::current: the file is read again once a second.
CurrentBindings == {b \in bindings : b.age < RefreshTicks}

PollMatches ==
  /\ poll.pc = "matches"
  /\ bindings' = IF CurrentBindings # {} THEN bindings ELSE {[file |-> world.file, age |-> 0]}
  /\ poll' = [poll EXCEPT !.pc = "answers",
       !.preferred = UNION {Preferred(i, b.file, poll.healthy) : i \in poll.saw, b \in bindings'}]
  /\ UNCHANGED << world, turns, focus, probe, refreshing, recent >>

PollAnswers ==
  /\ poll.pc = "answers" /\ poll' = NoPoll
  /\ UNCHANGED << world, turns, focus, bindings, probe, refreshing, recent >>

-----------------------------------------------------------------------------
(* The refresh, off the request worker.                                    *)

ProbeReads ==
  /\ probe.pc = "reads"
  /\ probe' = [probe EXCEPT !.pc = "stores", !.saw = {world.focus}]
  /\ UNCHANGED << world, turns, focus, bindings, refreshing, poll, recent >>

ClearedByTheStore(panics) == ~panics

\* The guard Clear: the flag falls however the task ends.
Cleared(panics) == TRUE

\* A probe that failed is an identity of its own, the empty one; one that
\* panicked stores nothing.  The sample is as old as its store.
ProbeEnds(panics) ==
  /\ probe.pc = "stores" /\ probe' = NoProbe
  /\ refreshing' = ~Cleared(panics)
  /\ focus' = IF panics THEN focus ELSE {[identity |-> i, age |-> 0] : i \in probe.saw}
  /\ UNCHANGED << world, turns, bindings, poll, recent >>

Aged(n, most) == IF n < most THEN n + 1 ELSE n

RoutingTick ==
  /\ poll.pc = "none"
  /\ probe.pc # "none" => probe.age < ProbeTicks
  /\ focus' = {[s EXCEPT !.age = Aged(@, FocusTicks)] : s \in focus}
  /\ bindings' = {[b EXCEPT !.age = Aged(@, RefreshTicks)] : b \in bindings}
  /\ probe' = IF probe.pc = "none" THEN probe ELSE [probe EXCEPT !.age = @ + 1]
  /\ recent' = [recent EXCEPT
       !.focus = [i \in Identities |-> IF i = world.focus THEN 0 ELSE Aged(@[i], Window)],
       !.file = [f \in BindingFiles |-> IF f = world.file THEN 0 ELSE Aged(@[f], RefreshTicks)]]
  /\ UNCHANGED << world, turns, refreshing, poll >>

RoutingNext ==
  \/ WorldChanges \/ RoutingTick
  \/ PollBegins \/ PollChooses \/ PollLooks \/ PollMatches \/ PollAnswers
  \/ ProbeReads \/ \E panics \in BOOLEAN : ProbeEnds(panics)

RoutingSpec == RoutingInit /\ [][RoutingNext]_RoutingVars

-----------------------------------------------------------------------------
(* Properties.                                                             *)

\* Every variable keeps its type (FocusCache, BindingCache, CompanionSession).
RoutingTypeOK ==
  /\ world \in [focus : Identities, file : BindingFiles,
                ready : [RentedSessions -> SUBSET RoutedServers], latest : RentedSessions,
                driving : RentedSessions \cup {Nobody}]
  /\ turns \in 0..MaxTurns /\ refreshing \in BOOLEAN /\ poll \in Polls
  /\ focus \in SUBSET [identity : Identities, age : 0..FocusTicks]
  /\ bindings \in SUBSET [file : BindingFiles, age : 0..RefreshTicks]
  /\ Cardinality(focus) <= 1 /\ Cardinality(bindings) <= 1
  /\ probe \in [pc : {"none", "reads", "stores"}, age : 0..ProbeTicks, saw : SUBSET Identities]

\* A server is preferred only on facts that all held a moment ago: it was ready
\* in the chosen session during this poll, the file of the last second bound
\* it, and the window it is bound to had the focus no longer ago than a sample
\* lives and a probe takes: a stale identity does not go on selecting it.
RoutesOnRecentFacts ==
  poll.pc = "answers" =>
    \A s \in poll.preferred :
      /\ s \in recent.ready[poll.id]
      /\ \E i \in Identities, f \in BindingFiles :
           /\ recent.focus[i] < Window /\ recent.file[f] < RefreshTicks
           /\ \E n \in DOMAIN f : /\ Matches(i, f[n])
                                           /\ f[n].server = s

\* The flag that keeps a second probe away is up only while a probe is out, so
\* the focus can always be read again (spawn_focus_refresh).
FocusCanBeRefreshed == refreshing => probe.pc # "none"

\* What a poll prefers rests on facts that were recent, and the next poll can
\* have more recent ones.
RoutingIsCurrent == RoutesOnRecentFacts /\ FocusCanBeRefreshed
=============================================================================
