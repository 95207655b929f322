------------------------------- MODULE Startup -------------------------------
(***************************************************************************)
(* Visors that start, serve and end in one runtime directory: the lock,    *)
(* the two sockets and the token file (companion_sock.rs), the loopback    *)
(* port, and serve with its shutdown (api.rs, main.rs).  A launch is one   *)
(* process; launches are numbered in the order they begin, and may overlap *)
(* or die anywhere.                                                        *)
(*                                                                         *)
(* A socket file is known by the launch that bound it and is stale once    *)
(* that launch no longer listens on it; 0 is no file.  The token of a      *)
(* launch is its number.  The choice of the directory, file modes and the  *)
(* check of a peer's uid are left out; what serve does to sessions and the *)
(* gate when it stops is in module Automation.                             *)
(***************************************************************************)
EXTENDS Naturals, FiniteSets

CONSTANT MaxLaunches
ASSUME LaunchesAreCounted == MaxLaunches \in Nat

Launches == 1..MaxLaunches
Doors == {"companion", "control"}
BlankLaunch == MaxLaunches + 1  \* api.token opened with truncate and not yet written

VARIABLES
  launch,     \* Options::tcp and how far serve has got
  holder,     \* who holds companion.lock
  socket,     \* the socket files
  listening,  \* the listeners each launch has open
  token       \* api.token

startupVars == << launch, holder, socket, listening, token >>

Unborn == [pc |-> "unborn", tcp |-> FALSE]
Ends == {"unborn", "gone"}

StartupInit ==
  /\ launch = [l \in Launches |-> Unborn]
  /\ holder = {} /\ token = 0
  /\ socket = [d \in Doors |-> 0]
  /\ listening = [l \in Launches |-> {}]

At(l, pc) == launch[l].pc = pc
GoesTo(l, pc) == launch' = [launch EXCEPT ![l].pc = pc]

\* The process is gone, and with it its lock, its listeners; the files
\* stay.  A start that fails in serve ends the same way.
Gone(l) ==
  /\ GoesTo(l, "gone")
  /\ holder' = holder \ {l}
  /\ listening' = [listening EXCEPT ![l] = {}]
  /\ UNCHANGED << socket, token >>

\* unix_socket_listening.
Listening(d) == socket[d] # 0 /\ d \in listening[socket[d]]

-----------------------------------------------------------------------------
(* Starting.                                                               *)

Begins(l) ==
  /\ At(l, "unborn") /\ \A k \in 1..(l - 1) : ~At(k, "unborn")
  /\ \E tcp \in BOOLEAN : launch' = [launch EXCEPT ![l] = [pc |-> "lock", tcp |-> tcp]]
  /\ UNCHANGED << holder, socket, listening, token >>

LockIsFree(l) == holder = {}

\* lock_runtime, then the probe of both sockets.
Locks(l) ==
  /\ At(l, "lock")
  /\ \/ /\ LockIsFree(l) /\ holder' = holder \cup {l} /\ GoesTo(l, "probe")
        /\ UNCHANGED << socket, listening, token >>
     \/ ~LockIsFree(l) /\ Gone(l)

Probes(l) ==
  /\ At(l, "probe")
  /\ \/ /\ \A d \in Doors : ~Listening(d)
        /\ GoesTo(l, IF launch[l].tcp THEN "port" ELSE "replace companion")
        /\ UNCHANGED << holder, socket, listening, token >>
     \/ (\E d \in Doors : Listening(d)) /\ Gone(l)

\* The port may be another program's.
BindsPort(l) ==
  /\ At(l, "port")
  /\ \/ /\ \A k \in Launches : "port" \notin listening[k]
        /\ listening' = [listening EXCEPT ![l] = @ \cup {"port"}]
        /\ GoesTo(l, "replace companion") /\ UNCHANGED << holder, socket, token >>
     \/ Gone(l)

\* bind_named: a socket nobody listens on is removed, and one of its own bound,
\* by separate calls.
Replacing == [companion |-> "replace companion", control |-> "replace control"]
Removing == [companion |-> "remove companion", control |-> "remove control"]
Binding == [companion |-> "bind companion", control |-> "bind control"]
After == [companion |-> "replace control", control |-> "token"]

Replaces(l, d) ==
  /\ At(l, Replacing[d])
  /\ \/ /\ ~Listening(d) /\ GoesTo(l, Removing[d])
        /\ UNCHANGED << holder, socket, listening, token >>
     \/ Listening(d) /\ Gone(l)

UnlinksBoth(l, d) ==
  /\ At(l, Removing[d]) /\ GoesTo(l, Binding[d])
  /\ socket' = [e \in Doors |-> 0]
  /\ UNCHANGED << holder, listening, token >>

Unlinks(l, d) ==
  /\ At(l, Removing[d]) /\ GoesTo(l, Binding[d])
  /\ socket' = [socket EXCEPT ![d] = 0]
  /\ UNCHANGED << holder, listening, token >>

Binds(l, d) ==
  /\ At(l, Binding[d])
  /\ \/ /\ socket[d] = 0 /\ socket' = [socket EXCEPT ![d] = l]
        /\ listening' = [listening EXCEPT ![l] = @ \cup {d}]
        /\ GoesTo(l, After[d]) /\ UNCHANGED << holder, token >>
     \/ socket[d] # 0 /\ Gone(l)

\* write_api_token opens the file empty and then writes; remove_api_token.
SettlesToken(l) ==
  /\ At(l, "token")
  /\ IF launch[l].tcp THEN token' = BlankLaunch /\ GoesTo(l, "write token")
     ELSE token' = 0 /\ GoesTo(l, "serving")
  /\ UNCHANGED << holder, socket, listening >>

WritesToken(l) ==
  /\ At(l, "write token")
  /\ token' = l /\ GoesTo(l, "serving")
  /\ UNCHANGED << holder, socket, listening >>

-----------------------------------------------------------------------------
(* Serving and ending.                                                     *)

\* when_first_stops: a signal or the end of one listener stops the others; each
\* drops its listener when it returns.
StopsServing(l) ==
  /\ At(l, "serving") /\ GoesTo(l, "stopping")
  /\ \E d \in {{}} \cup {{k} : k \in listening[l]} :
       listening' = [listening EXCEPT ![l] = @ \ d]
  /\ UNCHANGED << holder, socket, token >>

ListenerReturns(l) ==
  /\ At(l, "stopping")
  /\ \E d \in listening[l] : listening' = [listening EXCEPT ![l] = @ \ {d}]
  /\ UNCHANGED << launch, holder, socket, token >>

\* serve returns, which drops the lock; the runtime then waits a while for the
\* desktop calls that have not ended.
Returns(l) ==
  /\ At(l, "stopping") /\ listening[l] = {} /\ GoesTo(l, "draining")
  /\ holder' = holder \ {l} /\ UNCHANGED << socket, listening, token >>

\* Past the deadline of when_first_stops or of the runtime, or when nothing is
\* left to wait for.
Exits(l) ==
  /\ At(l, "stopping") \/ At(l, "draining")
  /\ Gone(l)

\* A crash.
Dies(l) == launch[l].pc \notin Ends /\ Gone(l)

StartupNext ==
  \E l \in Launches :
    \/ Begins(l) \/ Locks(l) \/ Probes(l) \/ BindsPort(l)
    \/ \E d \in Doors : Replaces(l, d) \/ Unlinks(l, d) \/ Binds(l, d)
    \/ SettlesToken(l) \/ WritesToken(l)
    \/ StopsServing(l) \/ ListenerReturns(l) \/ Returns(l) \/ Exits(l) \/ Dies(l)

StartupSpec == StartupInit /\ [][StartupNext]_startupVars

-----------------------------------------------------------------------------
(* Properties.                                                             *)

\* Every variable keeps its type (serve, Options, lock_runtime), and the lock
\* has one holder at most.
StartupTypeOK ==
  /\ launch \in [Launches -> [pc : {"unborn", "lock", "probe", "port", "token", "write token",
                                    "serving", "stopping", "draining", "gone"}
                                     \cup UNION {{Replacing[d], Removing[d], Binding[d]} : d \in Doors},
                              tcp : BOOLEAN]]
  /\ holder \subseteq Launches /\ Cardinality(holder) <= 1
  /\ socket \in [Doors -> 0..MaxLaunches] /\ token \in 0..BlankLaunch
  /\ listening \in [Launches -> SUBSET (Doors \cup {"port"})]

\* However starts, stops and crashes overlap, what a client finds is one visor: a
\* socket that is listened on is still the file at its path, and a visor that
\* serves is alone, reachable on both sockets, and the token file is for its
\* port or is not there (serve, lock_runtime, bind_named).
OneVisorAnswers ==
  \A l \in Launches :
    /\ \A d \in listening[l] \cap Doors : socket[d] = l
    /\ At(l, "serving") =>
         /\ \A k \in Launches : At(k, "serving") => k = l
         /\ Doors \subseteq listening[l]
         /\ token = IF "port" \in listening[l] THEN l ELSE 0
=============================================================================
