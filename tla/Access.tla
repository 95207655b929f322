-------------------------------- MODULE Access --------------------------------
(***************************************************************************)
(* Who is let in at the doors of the visor: the two sockets, where the     *)
(* kernel names the user at the other end (companion_sock.rs,              *)
(* local_peer.rs), and the loopback port with the token of the launch      *)
(* (api.rs); and the callers, the companion (visor.rs), which looks at the *)
(* user who listens before it sends, and the adapter, which reads the      *)
(* token once.  How launches overlap is in module Startup; here a launch   *)
(* begins when the one before is gone.                                     *)
(*                                                                         *)
(* A value of the environment is its length in characters once trimmed, 0  *)
(* when it is blank.  A token is the number of its launch, 0 none.         *)
(***************************************************************************)
EXTENDS Integers

CONSTANTS Callers,
          Environments, \* by the four variables: a length, or Unset
          SocketLength, \* of "/companion.sock"
          Appended,     \* by variable: the length of what is appended to its value
          SunPathMax,
          MaxVisors,    \* bound: launches
          MaxCalls,     \* bound: calls of one caller
          MaxPause      \* the longest back-off, with 1 the shortest

Unset == -1

ASSUME AccessAssumption ==
  /\ Environments \subseteq [1..4 -> Nat \cup {Unset}]
  /\ Appended \in [1..4 -> Nat] /\ {SocketLength, SunPathMax} \subseteq Nat

Sockets == {"companion", "control"}

VARIABLES
  environment,
  visor,     \* the launch: its number, whether it is up, and whether it has a port
  door,      \* the accept loops: whether one waits or sleeps, and how long it will
  apiToken,  \* api.token: a launch, 0 for no file, -1 while it is empty
  stranger,  \* another user listens at the path of companion.sock
  caller     \* the callers: how far, at which door, as who, with which token

accessVars == << environment, visor, door, apiToken, stranger, caller >>

-----------------------------------------------------------------------------
(* runtime_dir_from: one copy in the visor and one in the companion.       *)

Nowhere == [from |-> 0, length |-> 0]

\* The first of the four that is not blank decides, even when its path does not fit.
RuntimeDir(env) ==
  LET notBlank == {i \in DOMAIN env : env[i] > 0}
      first == CHOOSE i \in notBlank : \A j \in notBlank : i <= j
      length == env[first] + Appended[first]
  IN IF notBlank = {} \/ length + SocketLength >= SunPathMax THEN Nowhere
     ELSE [from |-> first, length |-> length]

CompanionDir(env) ==
  LET Chosen(i) == [from |-> i, length |-> env[i] + Appended[i]]
      dir == IF env[1] > 0 THEN Chosen(1) ELSE IF env[2] > 0 THEN Chosen(2)
             ELSE IF env[3] > 0 THEN Chosen(3) ELSE IF env[4] > 0 THEN Chosen(4) ELSE Nowhere
  IN IF dir.length + SocketLength >= SunPathMax THEN Nowhere ELSE dir

-----------------------------------------------------------------------------
Waiting == [awake |-> TRUE, pause |-> 1]
NoCall == [pc |-> "idle", door |-> "none", uid |-> "none", bearer |-> 0, by |-> 0, link |-> FALSE,
           sentTo |-> "none", report |-> "none", calls |-> 0]

AccessInit ==
  /\ environment \in Environments
  /\ visor = [number |-> 0, up |-> "off", port |-> FALSE]
  /\ door = [d \in Sockets |-> Waiting]
  /\ apiToken = 0 /\ stranger \in BOOLEAN
  /\ caller = [c \in Callers |-> NoCall]

CallerAt(c, pc) == caller[c].pc = pc
Gets(c, state) == caller' = [caller EXCEPT ![c] = state]
Doors == Sockets \cup IF visor.port THEN {"port"} ELSE {}

-----------------------------------------------------------------------------
(* The visor.                                                              *)

\* serve: listeners, then the token, and only then does anybody accept.  Against a
\* stranger's socket it does not start.
Launches ==
  /\ visor.up = "off" /\ visor.number < MaxVisors /\ ~stranger
  /\ RuntimeDir(environment) # Nowhere
  /\ \E port \in BOOLEAN :
       /\ visor' = [number |-> visor.number + 1, port |-> port,
                    up |-> IF port THEN "starting" ELSE "on"]
       /\ apiToken' = IF port THEN -1 ELSE 0
  /\ door' = [d \in Sockets |-> Waiting]
  /\ UNCHANGED << environment, stranger, caller >>

WritesApiToken ==
  /\ visor.up = "starting" /\ visor' = [visor EXCEPT !.up = "on"]
  /\ apiToken' = visor.number
  /\ UNCHANGED << environment, door, stranger, caller >>

\* A stop, a listener that is dead, or a crash: what was connected is cut off.
Ends ==
  /\ visor.up # "off" /\ visor' = [visor EXCEPT !.up = "off"]
  /\ caller' = [c \in Callers |-> IF caller[c].pc \in {"queued", "serving"}
                                  THEN [caller[c] EXCEPT !.pc = "cut"] ELSE caller[c]]
  /\ UNCHANGED << environment, door, apiToken, stranger >>

AdmitsAll(c) == TRUE

\* admit; a credential that cannot be read is nobody's.
Admits(c) == caller[c].uid = "ours"

\* accept_loop.  A peer that is not this user is dropped before a byte is read.
Accepts(c) ==
  /\ visor.up = "on" /\ CallerAt(c, "queued")
  /\ IF caller[c].door = "port" THEN UNCHANGED door
     ELSE /\ door[caller[c].door].awake
          /\ door' = [door EXCEPT ![caller[c].door].pause = 1]
  /\ Gets(c, [caller[c] EXCEPT !.pc = IF caller[c].door = "port" \/ Admits(c)
                                      THEN "serving" ELSE "cut"])
  /\ UNCHANGED << environment, visor, apiToken, stranger >>

\* A transient error: the loop sleeps, and the next sleep is longer.
AcceptFails(d) ==
  /\ visor.up = "on" /\ door[d].awake /\ door' = [door EXCEPT ![d].awake = FALSE]
  /\ UNCHANGED << environment, visor, apiToken, stranger, caller >>

Wakes(d) ==
  /\ visor.up = "on" /\ ~door[d].awake
  /\ door' = [door EXCEPT ![d] = [awake |-> TRUE, pause |-> IF 2 * @.pause < MaxPause
                                                            THEN 2 * @.pause ELSE MaxPause]]
  /\ UNCHANGED << environment, visor, apiToken, stranger, caller >>

\* bearer_matches; the token of a launch is never empty.
BearerMatches(c) == caller[c].bearer = visor.number

\* reject_without_bearer before anything is routed, and then the routes of the door.
Serves(c) ==
  /\ CallerAt(c, "serving")
  /\ IF caller[c].door = "port" /\ ~BearerMatches(c)
     THEN Gets(c, [caller[c] EXCEPT !.pc = "refused"])
     ELSE \E pc \in {"handled", "failed"} :
            Gets(c, [caller[c] EXCEPT !.pc = pc, !.by = visor.number,
                                      !.link = caller[c].door = "companion"])
  /\ UNCHANGED << environment, visor, door, apiToken, stranger >>

-----------------------------------------------------------------------------
(* The callers.                                                            *)

\* configured_token: the environment's, of some launch so far, or the file's, if it can be
\* read and is not empty.
Tokens == (1..visor.number) \cup {IF apiToken > 0 THEN apiToken ELSE 0}

Appears(c) ==
  /\ CallerAt(c, "idle")
  /\ \E d \in Sockets \cup {"port"}, uid \in {"ours", "other", "unknown"}, bearer \in Tokens :
       /\ d = "port" => uid = "ours"
       /\ d # "port" => bearer = 0
       /\ Gets(c, [NoCall EXCEPT !.pc = "ready", !.door = d, !.uid = uid, !.bearer = bearer])
  /\ UNCHANGED << environment, visor, door, apiToken, stranger >>

NewAttempt(c) == [caller[c] EXCEPT !.by = 0, !.link = FALSE, !.report = "none", !.calls = @ + 1]

\* exchange_read_timeout and release_to_peer: the companion connects, looks who listens,
\* and only then copies the request.
ReachesFor(c) ==
  LET d == caller[c].door
      dir == IF d = "companion" THEN CompanionDir(environment) ELSE RuntimeDir(environment)
      reached == IF d = "companion" /\ stranger THEN "stranger"
                 ELSE IF visor.up # "off" /\ d \in Doors /\ dir = RuntimeDir(environment)
                 THEN "visor" ELSE "none"
      sends == reached = "visor" \/ (reached = "stranger" /\ caller[c].uid # "ours")
  IN /\ CallerAt(c, "ready") /\ caller[c].calls < MaxCalls
     /\ Gets(c, [NewAttempt(c) EXCEPT !.pc = IF reached = "visor" THEN "queued" ELSE "unsent",
                                !.sentTo = IF sends THEN reached ELSE "none"])
     /\ UNCHANGED << environment, visor, door, apiToken, stranger >>

\* mcp_connection_request and trust_request: what the user is told.  A connection that is
\* cut, or says nothing in time, reads as an empty answer, and that as a refusal.
Reports(c) ==
  /\ caller[c].door = "companion" /\ caller[c].report = "none" /\ ~CallerAt(c, "ready")
  /\ \/ CallerAt(c, "unsent") /\ Gets(c, [caller[c] EXCEPT !.report = "unknown"])
     \/ CallerAt(c, "handled") /\ Gets(c, [caller[c] EXCEPT !.report = "done"])
     \/ ~CallerAt(c, "unsent") /\ Gets(c, [caller[c] EXCEPT !.report = "refused"])
     \/ CallerAt(c, "handled") /\ Gets(c, [caller[c] EXCEPT !.report = "unknown"])  \* too long
  /\ UNCHANGED << environment, visor, door, apiToken, stranger >>

\* The next call has the token of the first.
CallsAgain(c) ==
  /\ caller[c].pc \notin {"idle", "ready", "queued", "serving"}
  /\ Gets(c, [caller[c] EXCEPT !.pc = "ready"])
  /\ UNCHANGED << environment, visor, door, apiToken, stranger >>

StrangerLeaves ==
  /\ stranger /\ stranger' = FALSE
  /\ UNCHANGED << environment, visor, door, apiToken, caller >>

AccessNext ==
  \/ Launches \/ WritesApiToken \/ Ends \/ StrangerLeaves
  \/ \E d \in Sockets : AcceptFails(d) \/ Wakes(d)
  \/ \E c \in Callers :
       Accepts(c) \/ Serves(c) \/ Appears(c) \/ ReachesFor(c) \/ Reports(c) \/ CallsAgain(c)

AccessSpec == AccessInit /\ [][AccessNext]_accessVars

-----------------------------------------------------------------------------
\* Every variable keeps its type (accept_loop, serve, exchange_read_timeout).
AccessTypeOK ==
  /\ visor \in [number : 0..MaxVisors, up : {"off", "starting", "on"}, port : BOOLEAN]
  /\ door \in [Sockets -> [awake : BOOLEAN, pause : 1..MaxPause]]
  /\ apiToken \in -1..MaxVisors
  /\ \A c \in Callers :
       caller[c].pc \in {"idle", "ready", "unsent", "queued", "serving", "cut", "refused", "handled",
                         "failed"}

Worked(c) == caller[c].pc \in {"handled", "failed"}

\* What is handled comes from this user: over a socket from a peer the kernel names as
\* this user, over the port with the token of the launch that handles it, however the
\* visor was restarted meanwhile.  Only companion.sock is the companion's link.  The
\* companion sends nothing to another user, it looks for the visor where the visor is, and
\* says "done" of nothing the visor did not do.
AccessIsOwn ==
  /\ CompanionDir(environment) = RuntimeDir(environment)
  /\ \A c \in Callers :
       /\ Worked(c) => /\ caller[c].uid = "ours" /\ caller[c].by > 0
                       /\ (caller[c].door = "port" => caller[c].bearer = caller[c].by)
                       /\ (caller[c].link <=> caller[c].door = "companion")
       /\ caller[c].uid = "ours" => caller[c].sentTo # "stranger"
       /\ CallerAt(c, "refused") => caller[c].door = "port" /\ caller[c].bearer < visor.number
       /\ caller[c].report = "done" /\ ~CallerAt(c, "ready") => caller[c].by > 0
=============================================================================
