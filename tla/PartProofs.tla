------------------------------ MODULE PartProofs ------------------------------
(***************************************************************************)
(* The parts that stand beside the automation of a session: the launches   *)
(* that share a runtime directory, the watched frame feed, the companion's *)
(* cursor and its menu settings, the configuration editors, the bindings   *)
(* to the focused application, and signing in.  One section a module, each *)
(* with its inductive invariant and the theorem that rests on it.          *)
(***************************************************************************)
EXTENDS Startup, Feed, Cursor, Settings, Configuration, Routing, Login,
        FiniteSetTheorems, WellFoundedInduction, TLAPS

(***************************************************************************)
(* Startup: one visor answers, however many launches begin, overlap and    *)
(* die.  The invariant follows one holder of companion.lock through serve. *)
(***************************************************************************)

\* How far serve is while it keeps companion.lock.
Held == {"probe", "port", "replace companion", "remove companion", "bind companion",
         "replace control", "remove control", "bind control", "token", "write token",
         "serving", "stopping"}
Pcs == Held \cup {"unborn", "lock", "draining", "gone"}

Typed ==
  /\ launch \in [Launches -> [pc : Pcs, tcp : BOOLEAN]]
  /\ holder \subseteq Launches
  /\ socket \in [Doors -> 0..MaxLaunches] /\ token \in 0..BlankLaunch
  /\ listening \in [Launches -> SUBSET (Doors \cup {"port"})]

\* The lock is held from lock_runtime to the return of serve, by one launch.
OneHolds ==
  /\ \A l \in Launches : l \in holder <=> launch[l].pc \in Held
  /\ \A k, l \in holder : k = l

\* Only the holder listens, and where it listens the file is its own.
HolderListens ==
  /\ \A l \in Launches : l \notin holder => listening[l] = {}
  /\ \A l \in Launches : \A d \in listening[l] \cap Doors : socket[d] = l

\* What a launch has open follows from how far it is.
OpensInOrder(l) ==
  LET pc == launch[l].pc IN
  /\ pc \in {"probe", "port"} => listening[l] = {}
  /\ pc \in {"replace companion", "remove companion", "bind companion"} =>
       listening[l] \cap Doors = {}
  /\ pc \in {"replace control", "remove control", "bind control"} =>
       listening[l] \cap Doors = {"companion"}
  /\ pc \in {"token", "write token", "serving"} => Doors \subseteq listening[l]
  /\ pc \in Held \ {"probe", "port", "stopping"} => ("port" \in listening[l] <=> launch[l].tcp)

\* The token file, once it is settled, is that of the launch that serves.
TokenSettled(l) ==
  /\ At(l, "port") => launch[l].tcp
  /\ At(l, "write token") => launch[l].tcp
  /\ At(l, "serving") => token = IF launch[l].tcp THEN l ELSE 0

StartupInv ==
  /\ Typed /\ OneHolds /\ HolderListens
  /\ \A l \in Launches : OpensInOrder(l) /\ TokenSettled(l)

LEMMA StartupInitially == StartupInit => StartupInv
<1> SUFFICES ASSUME StartupInit PROVE StartupInv
  OBVIOUS
<1>1. Typed
  BY LaunchesAreCounted DEF StartupInit, Typed, Unborn, Pcs, BlankLaunch
<1>2. OneHolds /\ HolderListens
  BY DEF StartupInit, OneHolds, HolderListens, Unborn, Held
<1>3. \A l \in Launches : OpensInOrder(l) /\ TokenSettled(l)
  BY DEF StartupInit, OpensInOrder, TokenSettled, At, Unborn, Held
<1> QED
  BY <1>1, <1>2, <1>3 DEF StartupInv

-----------------------------------------------------------------------------
(* A step moves one launch, and what it changes for another is nothing     *)
(* that one can see.                                                       *)

LEMMA LaunchMoves ==
  ASSUME Typed, NEW l \in Launches, NEW p \in Pcs, GoesTo(l, p)
  PROVE  /\ launch' \in [Launches -> [pc : Pcs, tcp : BOOLEAN]]
         /\ launch'[l].pc = p /\ launch'[l].tcp = launch[l].tcp
         /\ \A k \in Launches : k # l => launch'[k] = launch[k]
BY DEF GoesTo, Typed

LEMMA OneLaunchMoves ==
  ASSUME StartupInv, NEW l \in Launches, Typed',
         \A k \in Launches : k # l => launch'[k] = launch[k] /\ listening'[k] = listening[k],
         l \in holder' <=> launch'[l].pc \in Held,
         \A k \in Launches : k # l => (k \in holder' <=> k \in holder),
         l \in holder' => l \in holder \/ holder = {},
         l \notin holder' => listening'[l] = {},
         \A d \in listening'[l] \cap Doors : socket'[d] = l,
         l \in holder \/ UNCHANGED << socket, token >>,
         OpensInOrder(l)', TokenSettled(l)'
  PROVE  StartupInv'
<1>1. \A k \in Launches : k # l => (launch'[k].pc \in Held <=> launch[k].pc \in Held)
  OBVIOUS
<1>2. OneHolds'
  BY <1>1 DEF StartupInv, Typed, OneHolds
<1>3. \A k \in Launches : k \notin holder' => listening'[k] = {}
  BY DEF StartupInv, HolderListens
<1>4. ASSUME NEW k \in Launches, k # l
      PROVE  /\ \A d \in listening'[k] \cap Doors : socket'[d] = k
             /\ OpensInOrder(k)' /\ TokenSettled(k)'
  <2>1. CASE l \in holder
    <3>1. k \notin holder
      BY <2>1, <1>4 DEF StartupInv, OneHolds
    <3>2. listening'[k] = {} /\ launch'[k].pc \notin Held
      BY <1>4, <3>1, <1>1 DEF StartupInv, OneHolds, HolderListens
    <3> QED
      BY <3>2 DEF OpensInOrder, TokenSettled, At, Held
  <2>2. CASE UNCHANGED << socket, token >>
    <3>1. OpensInOrder(k) /\ TokenSettled(k) /\ \A d \in listening[k] \cap Doors : socket[d] = k
      BY DEF StartupInv, HolderListens
    <3>2. launch'[k] = launch[k] /\ listening'[k] = listening[k] /\ socket' = socket /\ token' = token
      BY <1>4, <2>2
    <3> QED
      BY <3>1, <3>2 DEF OpensInOrder, TokenSettled, At
  <2> QED
    BY <2>1, <2>2
<1> QED
  BY <1>2, <1>3, <1>4 DEF StartupInv, HolderListens

LEMMA GoneKeeps ==
  ASSUME StartupInv, NEW l \in Launches, Gone(l)
  PROVE  StartupInv'
<1> "gone" \in Pcs /\ "gone" \notin Held
  BY DEF Pcs, Held
<1>1. /\ launch' \in [Launches -> [pc : Pcs, tcp : BOOLEAN]]
      /\ launch'[l].pc = "gone"
      /\ \A k \in Launches : k # l => launch'[k] = launch[k]
  BY LaunchMoves DEF Gone, StartupInv
<1>2. /\ listening'[l] = {} /\ l \notin holder'
      /\ \A k \in Launches : k # l => listening'[k] = listening[k] /\ (k \in holder' <=> k \in holder)
      /\ UNCHANGED << socket, token >>
  BY DEF Gone, StartupInv, Typed
<1>3. Typed'
  BY <1>1 DEF Gone, StartupInv, Typed
<1>4. OpensInOrder(l)' /\ TokenSettled(l)'
  BY <1>1 DEF OpensInOrder, TokenSettled, At, Held
<1> QED
  BY <1>1, <1>2, <1>3, <1>4, OneLaunchMoves

\* A step of a launch that keeps the lock, the files and what is open: only how far it
\* is changes.
LEMMA QuietStepKeeps ==
  ASSUME StartupInv, NEW l \in Launches, NEW p \in Held, GoesTo(l, p), l \in holder,
         UNCHANGED << holder, socket, listening, token >>,
         OpensInOrder(l)', TokenSettled(l)'
  PROVE  StartupInv'
<1> p \in Pcs
  BY DEF Pcs
<1>1. /\ launch' \in [Launches -> [pc : Pcs, tcp : BOOLEAN]]
      /\ launch'[l].pc = p
      /\ \A k \in Launches : k # l => launch'[k] = launch[k]
  BY LaunchMoves DEF StartupInv
<1>2. Typed'
  BY <1>1 DEF StartupInv, Typed
<1>3. \A d \in listening'[l] \cap Doors : socket'[d] = l
  BY DEF StartupInv, HolderListens
<1> QED
  BY <1>1, <1>2, <1>3, OneLaunchMoves

LEMMA PcTells ==
  ASSUME StartupInv, NEW l \in Launches, launch[l].pc \in Held
  PROVE  l \in holder
BY DEF StartupInv, OneHolds

LEMMA BeginsKeeps ==
  ASSUME StartupInv, NEW l \in Launches, Begins(l)
  PROVE  StartupInv'
<1>1. PICK tcp \in BOOLEAN : launch' = [launch EXCEPT ![l] = [pc |-> "lock", tcp |-> tcp]]
  BY DEF Begins
<1>2. /\ launch' \in [Launches -> [pc : Pcs, tcp : BOOLEAN]]
      /\ launch'[l].pc = "lock"
      /\ \A k \in Launches : k # l => launch'[k] = launch[k]
  BY <1>1 DEF StartupInv, Typed, Pcs
<1>3. l \notin holder /\ listening[l] = {}
  BY DEF Begins, At, StartupInv, OneHolds, HolderListens, Held
<1>4. UNCHANGED << holder, socket, listening, token >>
  BY DEF Begins
<1>5. Typed'
  BY <1>2, <1>4 DEF StartupInv, Typed
<1>6. OpensInOrder(l)' /\ TokenSettled(l)' /\ launch'[l].pc \notin Held
  BY <1>2 DEF OpensInOrder, TokenSettled, At, Held
<1> QED
  BY <1>2, <1>3, <1>4, <1>5, <1>6, OneLaunchMoves

LEMMA LocksKeeps ==
  ASSUME StartupInv, NEW l \in Launches, Locks(l)
  PROVE  StartupInv'
<1>1. CASE Gone(l)
  BY <1>1, GoneKeeps
<1>2. CASE ~Gone(l)
  <2> /\ At(l, "lock") /\ LockIsFree(l) /\ holder' = holder \cup {l} /\ GoesTo(l, "probe")
      /\ UNCHANGED << socket, listening, token >>
    BY <1>2 DEF Locks
  <2> "probe" \in Pcs /\ "probe" \in Held
    BY DEF Pcs, Held
  <2>1. /\ launch' \in [Launches -> [pc : Pcs, tcp : BOOLEAN]]
        /\ launch'[l].pc = "probe"
        /\ \A k \in Launches : k # l => launch'[k] = launch[k]
    BY LaunchMoves DEF StartupInv
  <2>2. holder = {} /\ listening[l] = {}
    BY DEF LockIsFree, StartupInv, HolderListens
  <2>3. Typed'
    BY <2>1 DEF StartupInv, Typed
  <2>4. OpensInOrder(l)' /\ TokenSettled(l)'
    BY <2>1, <2>2 DEF OpensInOrder, TokenSettled, At, Held
  <2> QED
    BY <2>1, <2>2, <2>3, <2>4, OneLaunchMoves
<1> QED
  BY <1>1, <1>2

LEMMA ProbesKeeps ==
  ASSUME StartupInv, NEW l \in Launches, Probes(l)
  PROVE  StartupInv'
<1>1. CASE Gone(l)
  BY <1>1, GoneKeeps
<1>2. CASE ~Gone(l)
  <2> DEFINE p == IF launch[l].tcp THEN "port" ELSE "replace companion"
  <2>1. At(l, "probe") /\ GoesTo(l, p) /\ UNCHANGED << holder, socket, listening, token >>
    BY <1>2 DEF Probes
  <2>2. p \in Held /\ launch[l].pc \in Held /\ listening[l] = {} /\ l \in Launches
    BY <2>1 DEF Held, At, StartupInv, OpensInOrder
  <2>3. p \in Pcs
    BY <2>2 DEF Pcs
  <2>4. launch'[l].pc = p /\ launch'[l].tcp = launch[l].tcp
    BY <2>1, <2>3, LaunchMoves DEF StartupInv
  <2>5. listening'[l] = {}
    BY <2>1, <2>2
  <2>6. OpensInOrder(l)'
    BY <2>4, <2>5 DEF OpensInOrder, Held, Doors
  <2>7. TokenSettled(l)'
    BY <2>4 DEF TokenSettled, At
  <2> QED
    BY <2>1, <2>2, <2>6, <2>7, PcTells, QuietStepKeeps
<1> QED
  BY <1>1, <1>2

LEMMA BindsPortKeeps ==
  ASSUME StartupInv, NEW l \in Launches, BindsPort(l)
  PROVE  StartupInv'
<1>1. CASE Gone(l)
  BY <1>1, GoneKeeps
<1>2. CASE ~Gone(l)
  <2>1. /\ At(l, "port") /\ listening' = [listening EXCEPT ![l] = @ \cup {"port"}]
        /\ GoesTo(l, "replace companion") /\ UNCHANGED << holder, socket, token >>
    BY <1>2 DEF BindsPort
  <2> "replace companion" \in Pcs /\ "replace companion" \in Held /\ "port" \in Held
      /\ "port" \notin Doors
    BY DEF Pcs, Held, Doors
  <2>2. l \in holder
    BY <2>1, PcTells DEF At
  <2>3. /\ launch' \in [Launches -> [pc : Pcs, tcp : BOOLEAN]]
        /\ launch'[l].pc = "replace companion" /\ launch'[l].tcp = launch[l].tcp
        /\ \A k \in Launches : k # l => launch'[k] = launch[k]
    BY <2>1, LaunchMoves DEF StartupInv
  <2>4. listening[l] = {} /\ launch[l].tcp
    BY <2>1 DEF At, StartupInv, OpensInOrder, TokenSettled
  <2>5. listening'[l] = {"port"} /\ \A k \in Launches : k # l => listening'[k] = listening[k]
    BY <2>1, <2>4 DEF StartupInv, Typed
  <2>6. Typed'
    BY <2>1, <2>3 DEF StartupInv, Typed
  <2>7. OpensInOrder(l)'
    BY <2>3, <2>4, <2>5 DEF OpensInOrder, Held, Doors
  <2>8. TokenSettled(l)'
    BY <2>3 DEF TokenSettled, At
  <2> QED
    BY <2>1, <2>2, <2>3, <2>5, <2>6, <2>7, <2>8, OneLaunchMoves
<1> QED
  BY <1>1, <1>2

\* The three steps of bind_named are steps of serve.
LEMMA DoorSteps ==
  ASSUME NEW d \in Doors
  PROVE  /\ Replacing[d] \in Held /\ Removing[d] \in Held /\ Binding[d] \in Held /\ After[d] \in Held
         /\ d = "companion" => /\ Replacing[d] = "replace companion" /\ Removing[d] = "remove companion"
                               /\ Binding[d] = "bind companion" /\ After[d] = "replace control"
         /\ d = "control" => /\ Replacing[d] = "replace control" /\ Removing[d] = "remove control"
                             /\ Binding[d] = "bind control" /\ After[d] = "token"
<1>1. d = "companion" \/ d = "control"
  BY DEF Doors
<1>2. CASE d = "companion"
  BY <1>2 DEF Replacing, Removing, Binding, After, Held
<1>3. CASE d = "control"
  BY <1>3 DEF Replacing, Removing, Binding, After, Held
<1> QED
  BY <1>1, <1>2, <1>3

LEMMA DoorIsOne == \A d \in Doors : d = "companion" \/ d = "control"
BY DEF Doors

LEMMA ReplacesKeeps ==
  ASSUME StartupInv, NEW l \in Launches, NEW d \in Doors, Replaces(l, d)
  PROVE  StartupInv'
<1>1. CASE Gone(l)
  BY <1>1, GoneKeeps
<1>2. CASE ~Gone(l)
  <2>1. At(l, Replacing[d]) /\ GoesTo(l, Removing[d]) /\ UNCHANGED << holder, socket, listening, token >>
    BY <1>2 DEF Replaces
  <2>2. Removing[d] \in Pcs /\ l \in holder
    BY <2>1, DoorSteps, PcTells DEF Pcs, At
  <2>3. launch'[l].pc = Removing[d] /\ launch'[l].tcp = launch[l].tcp /\ listening'[l] = listening[l]
    BY <2>1, <2>2, LaunchMoves DEF StartupInv
  <2>4. OpensInOrder(l)' /\ TokenSettled(l)'
    <3>1. OpensInOrder(l)
      BY DEF StartupInv
    <3>2. CASE d = "companion"
      BY <2>1, <2>3, <3>1, <3>2, DoorSteps DEF OpensInOrder, TokenSettled, At, Held
    <3>3. CASE d = "control"
      <4>1. launch[l].pc = "replace control" /\ launch'[l].pc = "remove control"
        BY <2>1, <2>3, <3>3, DoorSteps DEF At
      <4> QED
        BY <2>3, <3>1, <4>1 DEF OpensInOrder, TokenSettled, At, Held
    <3> QED
      BY <3>2, <3>3, DoorIsOne
  <2> QED
    BY <2>1, <2>2, <2>4, DoorSteps, QuietStepKeeps
<1> QED
  BY <1>1, <1>2

LEMMA UnlinksKeeps ==
  ASSUME StartupInv, NEW l \in Launches, NEW d \in Doors, Unlinks(l, d)
  PROVE  StartupInv'
<1>1. /\ At(l, Removing[d]) /\ GoesTo(l, Binding[d])
      /\ socket' = [socket EXCEPT ![d] = 0] /\ UNCHANGED << holder, listening, token >>
  BY DEF Unlinks
<1>2. Binding[d] \in Pcs /\ l \in holder
  BY <1>1, DoorSteps, PcTells DEF Pcs, At
<1>3. /\ launch' \in [Launches -> [pc : Pcs, tcp : BOOLEAN]]
      /\ launch'[l].pc = Binding[d] /\ launch'[l].tcp = launch[l].tcp
      /\ \A k \in Launches : k # l => launch'[k] = launch[k]
  BY <1>1, <1>2, LaunchMoves DEF StartupInv
<1>4. Typed'
  BY <1>1, <1>3, LaunchesAreCounted DEF StartupInv, Typed
<1>5. OpensInOrder(l) /\ listening'[l] = listening[l]
  BY <1>1 DEF StartupInv
<1>6. OpensInOrder(l)' /\ TokenSettled(l)' /\ d \notin listening[l]
  <2>1. CASE d = "companion"
    <3>1. launch[l].pc = "remove companion" /\ launch'[l].pc = "bind companion"
      BY <1>1, <1>3, <2>1, DoorSteps DEF At
    <3> QED
      BY <1>3, <1>5, <2>1, <3>1 DEF OpensInOrder, TokenSettled, At, Held
  <2>2. CASE d = "control"
    <3>1. launch[l].pc = "remove control" /\ launch'[l].pc = "bind control"
      BY <1>1, <1>3, <2>2, DoorSteps DEF At
    <3>2. listening[l] \cap Doors = {"companion"}
      BY <1>5, <3>1 DEF OpensInOrder
    <3>3. d \notin listening[l]
      BY <2>2, <3>2
    <3>4. OpensInOrder(l)'
      BY <1>3, <1>5, <3>1, <3>2 DEF OpensInOrder, Held
    <3> QED
      BY <3>1, <3>3, <3>4 DEF TokenSettled, At
  <2> QED
    BY <2>1, <2>2, DoorIsOne
<1>7. \A e \in listening'[l] \cap Doors : socket'[e] = l
  BY <1>1, <1>5, <1>6 DEF StartupInv, Typed, HolderListens
<1> QED
  BY <1>1, <1>2, <1>3, <1>4, <1>6, <1>7, DoorSteps, OneLaunchMoves

LEMMA BindsKeeps ==
  ASSUME StartupInv, NEW l \in Launches, NEW d \in Doors, Binds(l, d)
  PROVE  StartupInv'
<1>1. CASE Gone(l)
  BY <1>1, GoneKeeps
<1>2. CASE ~Gone(l)
  <2>1. /\ At(l, Binding[d]) /\ socket' = [socket EXCEPT ![d] = l]
        /\ listening' = [listening EXCEPT ![l] = @ \cup {d}]
        /\ GoesTo(l, After[d]) /\ UNCHANGED << holder, token >>
    BY <1>2 DEF Binds
  <2>2. After[d] \in Pcs /\ l \in holder
    BY <2>1, DoorSteps, PcTells DEF Pcs, At
  <2>3. /\ launch' \in [Launches -> [pc : Pcs, tcp : BOOLEAN]]
        /\ launch'[l].pc = After[d] /\ launch'[l].tcp = launch[l].tcp
        /\ \A k \in Launches : k # l => launch'[k] = launch[k]
    BY <2>1, <2>2, LaunchMoves DEF StartupInv
  <2>4. /\ listening'[l] = listening[l] \cup {d}
        /\ \A k \in Launches : k # l => listening'[k] = listening[k]
    BY <2>1 DEF StartupInv, Typed
  <2>5. Typed'
    BY <2>1, <2>3, LaunchesAreCounted DEF StartupInv, Typed, Launches
  <2>6. OpensInOrder(l)
    BY DEF StartupInv
  <2>7. OpensInOrder(l)' /\ TokenSettled(l)'
    <3>1. CASE d = "companion"
      BY <2>1, <2>3, <2>4, <2>6, <3>1, DoorSteps DEF OpensInOrder, TokenSettled, At, Held, Doors
    <3>2. CASE d = "control"
      BY <2>1, <2>3, <2>4, <2>6, <3>2, DoorSteps DEF OpensInOrder, TokenSettled, At, Held, Doors
    <3> QED
      BY <3>1, <3>2, DoorIsOne
  <2>8. \A e \in listening'[l] \cap Doors : socket'[e] = l
    BY <2>1, <2>4 DEF StartupInv, Typed, HolderListens
  <2> QED
    BY <2>1, <2>2, <2>3, <2>4, <2>5, <2>7, <2>8, DoorSteps, OneLaunchMoves
<1> QED
  BY <1>1, <1>2

\* A step of the holder that writes the token file.
LEMMA TokenStepKeeps ==
  ASSUME StartupInv, NEW l \in Launches, NEW p \in {"write token", "serving"}, GoesTo(l, p),
         launch[l].pc \in {"token", "write token"},
         token' \in 0..BlankLaunch, UNCHANGED << holder, socket, listening >>,
         p = "write token" => launch[l].tcp,
         p = "serving" => token' = IF launch[l].tcp THEN l ELSE 0
  PROVE  StartupInv'
<1> p \in Pcs /\ p \in Held /\ launch[l].pc \in Held
  BY DEF Pcs, Held
<1>1. /\ launch' \in [Launches -> [pc : Pcs, tcp : BOOLEAN]]
      /\ launch'[l].pc = p /\ launch'[l].tcp = launch[l].tcp
      /\ \A k \in Launches : k # l => launch'[k] = launch[k]
  BY LaunchMoves DEF StartupInv
<1>2. Typed'
  BY <1>1 DEF StartupInv, Typed
<1>3. OpensInOrder(l) /\ l \in holder /\ listening'[l] = listening[l]
  BY PcTells DEF StartupInv
<1>4. OpensInOrder(l)' /\ TokenSettled(l)'
  BY <1>1, <1>3 DEF OpensInOrder, TokenSettled, At, Held
<1>5. \A d \in listening'[l] \cap Doors : socket'[d] = l
  BY DEF StartupInv, HolderListens
<1> QED
  BY <1>1, <1>2, <1>3, <1>4, <1>5, OneLaunchMoves

LEMMA TokensThereAre ==
  /\ 0 \in 0..BlankLaunch /\ BlankLaunch \in 0..BlankLaunch
  /\ \A l \in Launches : l \in 0..BlankLaunch
BY LaunchesAreCounted DEF Launches, BlankLaunch

LEMMA SettlesTokenKeeps ==
  ASSUME StartupInv, NEW l \in Launches, SettlesToken(l)
  PROVE  StartupInv'
<1>1. CASE launch[l].tcp
  <2> token' \in 0..BlankLaunch
    BY <1>1, TokensThereAre DEF SettlesToken
  <2> QED
    BY <1>1, TokenStepKeeps DEF SettlesToken, At
<1>2. CASE ~launch[l].tcp
  <2> token' \in 0..BlankLaunch
    BY <1>2, TokensThereAre DEF SettlesToken
  <2> QED
    BY <1>2, TokenStepKeeps DEF SettlesToken, At
<1> QED
  BY <1>1, <1>2

LEMMA WritesTokenKeeps ==
  ASSUME StartupInv, NEW l \in Launches, WritesToken(l)
  PROVE  StartupInv'
<1>1. token' = l /\ launch[l].pc = "write token" /\ launch[l].tcp
  BY DEF WritesToken, At, StartupInv, TokenSettled
<1>2. token' \in 0..BlankLaunch
  BY <1>1, TokensThereAre
<1> QED
  BY <1>1, <1>2, TokenStepKeeps DEF WritesToken

\* A launch that stops only closes what it has open.
LEMMA StopStepKeeps ==
  ASSUME StartupInv, NEW l \in Launches, l \in holder, l \in holder',
         launch' \in [Launches -> [pc : Pcs, tcp : BOOLEAN]], launch'[l].pc = "stopping",
         \A k \in Launches : k # l => launch'[k] = launch[k],
         NEW d, listening' = [listening EXCEPT ![l] = @ \ d],
         UNCHANGED << holder, socket, token >>
  PROVE  StartupInv'
<1>1. /\ listening'[l] \subseteq listening[l]
      /\ \A k \in Launches : k # l => listening'[k] = listening[k]
  BY DEF StartupInv, Typed
<1>2. Typed'
  BY DEF StartupInv, Typed
<1>3. OpensInOrder(l)' /\ TokenSettled(l)' /\ launch'[l].pc \in Held
  BY DEF OpensInOrder, TokenSettled, At, Held
<1>4. \A e \in listening'[l] \cap Doors : socket'[e] = l
  BY <1>1 DEF StartupInv, HolderListens
<1> QED
  BY <1>1, <1>2, <1>3, <1>4, OneLaunchMoves

LEMMA StopsServingKeeps ==
  ASSUME StartupInv, NEW l \in Launches, StopsServing(l)
  PROVE  StartupInv'
<1>1. "stopping" \in Pcs /\ launch[l].pc \in Held
  BY DEF StopsServing, At, Pcs, Held
<1>2. /\ launch' \in [Launches -> [pc : Pcs, tcp : BOOLEAN]] /\ launch'[l].pc = "stopping"
      /\ \A k \in Launches : k # l => launch'[k] = launch[k]
  BY <1>1, LaunchMoves DEF StopsServing, StartupInv
<1>3. PICK d : listening' = [listening EXCEPT ![l] = @ \ d]
  BY DEF StopsServing
<1>4. l \in holder /\ UNCHANGED << holder, socket, token >>
  BY <1>1, PcTells DEF StopsServing
<1> QED
  BY <1>2, <1>3, <1>4, StopStepKeeps

LEMMA ListenerReturnsKeeps ==
  ASSUME StartupInv, NEW l \in Launches, ListenerReturns(l)
  PROVE  StartupInv'
<1>1. launch[l].pc = "stopping" /\ launch[l].pc \in Held
  BY DEF ListenerReturns, At, Held
<1>2. PICK d : listening' = [listening EXCEPT ![l] = @ \ {d}]
  BY DEF ListenerReturns
<1>3. l \in holder /\ UNCHANGED << launch, holder, socket, token >>
  BY <1>1, PcTells DEF ListenerReturns
<1>4. launch' \in [Launches -> [pc : Pcs, tcp : BOOLEAN]] /\ launch'[l].pc = "stopping"
  BY <1>1, <1>3 DEF StartupInv, Typed
<1> QED
  BY <1>2, <1>3, <1>4, StopStepKeeps

LEMMA ReturnsKeeps ==
  ASSUME StartupInv, NEW l \in Launches, Returns(l)
  PROVE  StartupInv'
<1>1. "draining" \in Pcs /\ "draining" \notin Held
  BY DEF Pcs, Held
<1>2. /\ launch' \in [Launches -> [pc : Pcs, tcp : BOOLEAN]] /\ launch'[l].pc = "draining"
      /\ \A k \in Launches : k # l => launch'[k] = launch[k]
  BY <1>1, LaunchMoves DEF Returns, StartupInv
<1>3. /\ listening[l] = {} /\ holder' = holder \ {l} /\ UNCHANGED << socket, listening, token >>
  BY DEF Returns
<1>4. Typed'
  BY <1>2, <1>3 DEF StartupInv, Typed
<1>5. OpensInOrder(l)' /\ TokenSettled(l)'
  BY <1>2 DEF OpensInOrder, TokenSettled, At, Held
<1> QED
  BY <1>1, <1>2, <1>3, <1>4, <1>5, OneLaunchMoves

-----------------------------------------------------------------------------
LEMMA StartupStep ==
  ASSUME StartupInv, [StartupNext]_startupVars
  PROVE  StartupInv'
<1>1. CASE UNCHANGED startupVars
  BY <1>1 DEF startupVars, StartupInv, Typed, OneHolds, HolderListens, OpensInOrder, TokenSettled, At
<1>2. ASSUME NEW l \in Launches, Begins(l) PROVE StartupInv'
  BY <1>2, BeginsKeeps
<1>3. ASSUME NEW l \in Launches, Locks(l) PROVE StartupInv'
  BY <1>3, LocksKeeps
<1>4. ASSUME NEW l \in Launches, Probes(l) PROVE StartupInv'
  BY <1>4, ProbesKeeps
<1>5. ASSUME NEW l \in Launches, BindsPort(l) PROVE StartupInv'
  BY <1>5, BindsPortKeeps
<1>6. ASSUME NEW l \in Launches, NEW d \in Doors, Replaces(l, d) \/ Unlinks(l, d) \/ Binds(l, d)
      PROVE  StartupInv'
  BY <1>6, ReplacesKeeps, UnlinksKeeps, BindsKeeps
<1>7. ASSUME NEW l \in Launches, SettlesToken(l) \/ WritesToken(l) PROVE StartupInv'
  BY <1>7, SettlesTokenKeeps, WritesTokenKeeps
<1>8. ASSUME NEW l \in Launches, StopsServing(l) \/ ListenerReturns(l) \/ Returns(l)
      PROVE  StartupInv'
  BY <1>8, StopsServingKeeps, ListenerReturnsKeeps, ReturnsKeeps
<1>9. ASSUME NEW l \in Launches, Exits(l) \/ Dies(l) PROVE StartupInv'
  BY <1>9, GoneKeeps DEF Exits, Dies
<1> QED
  BY <1>1, <1>2, <1>3, <1>4, <1>5, <1>6, <1>7, <1>8, <1>9 DEF StartupNext

LEMMA StartupInvariant == StartupSpec => []StartupInv
<1>1. StartupInit => StartupInv
  BY StartupInitially
<1>2. StartupInv /\ [StartupNext]_startupVars => StartupInv'
  BY StartupStep
<1> QED
  BY <1>1, <1>2, PTL DEF StartupSpec

\* Every variable of module Startup keeps its type, and companion.lock has one holder at
\* most, for any number of launches (lock_runtime).
THEOREM StartupIsTyped == StartupSpec => []StartupTypeOK
<1>1. StartupInv => StartupTypeOK
  <2> SUFFICES ASSUME StartupInv PROVE StartupTypeOK
    OBVIOUS
  <2>1. Cardinality(holder) <= 1
    <3>1. CASE holder = {}
      BY <3>1, FS_EmptySet
    <3>2. CASE holder # {}
      <4>1. PICK l \in holder : TRUE
        BY <3>2
      <4>2. holder = {l}
        BY <4>1 DEF StartupInv, OneHolds
      <4> QED
        BY <4>2, FS_Singleton
    <3> QED
      BY <3>1, <3>2
  <2>2. Pcs \subseteq {"unborn", "lock", "probe", "port", "token", "write token", "serving", "stopping",
                       "draining", "gone"} \cup UNION {{Replacing[d], Removing[d], Binding[d]} : d \in Doors}
    <3>1. {"replace companion", "remove companion", "bind companion"}
            \subseteq {Replacing["companion"], Removing["companion"], Binding["companion"]}
      BY DEF Replacing, Removing, Binding
    <3>2. {"replace control", "remove control", "bind control"}
            \subseteq {Replacing["control"], Removing["control"], Binding["control"]}
      BY DEF Replacing, Removing, Binding
    <3> QED
      BY <3>1, <3>2 DEF Pcs, Held, Doors
  <2> QED
    BY <2>1, <2>2 DEF StartupInv, Typed, StartupTypeOK
<1> QED
  BY <1>1, StartupInvariant, PTL

\* However many launches begin, overlap, stop and die, a socket that is listened on is the
\* file at its path, a visor that serves is alone and reachable on both sockets, and the
\* token file is its own or is not there (serve, lock_runtime, bind_named).
THEOREM OneVisorAnswersAlways == StartupSpec => []OneVisorAnswers
<1>1. StartupInv => OneVisorAnswers
  <2> SUFFICES ASSUME StartupInv, NEW l \in Launches
               PROVE  /\ \A d \in listening[l] \cap Doors : socket[d] = l
                      /\ At(l, "serving") =>
                           /\ \A k \in Launches : At(k, "serving") => k = l
                           /\ Doors \subseteq listening[l]
                           /\ token = IF "port" \in listening[l] THEN l ELSE 0
    BY DEF OneVisorAnswers
  <2>1. \A d \in listening[l] \cap Doors : socket[d] = l
    BY DEF StartupInv, HolderListens
  <2>2. ASSUME At(l, "serving"), NEW k \in Launches, At(k, "serving") PROVE k = l
    BY <2>2 DEF At, StartupInv, OneHolds, Held
  <2>3. ASSUME At(l, "serving")
        PROVE  Doors \subseteq listening[l] /\ token = IF "port" \in listening[l] THEN l ELSE 0
    BY <2>3 DEF At, StartupInv, OpensInOrder, TokenSettled, Held
  <2> QED
    BY <2>1, <2>2, <2>3
<1> QED
  BY <1>1, StartupInvariant, PTL

------------------------------------------------------------------------------
(***************************************************************************)
(* Feed: what the feed holds is what the watch that stored it sent.        *)
(***************************************************************************)

Shots == Images \cup {FirstImage, NoImage}
ReaderSteps == {"idle", "capturing", "captured", "storing", "sleeping", "gone"}

\* A request that stored last and goes on is a watch, and sent what it stored.
FeedInv ==
  /\ reader \in [Readers -> [at : ReaderSteps, got : Shots, last : Shots]]
  /\ screen \in Shots
  /\ renting # "closed" /\ storedBy \in Readers /\ reader[storedBy].at # "gone"
       => feed.image = reader[storedBy].last

LEMMA FeedInitially == FeedInit => FeedInv
BY DEF FeedInit, FeedInv, Shots, ReaderSteps, NoFrame

\* A step that only moves a request on, and ends none that stored.
LEMMA FeedMoves ==
  ASSUME FeedInv, UNCHANGED << renting, screen, feed, storedBy >>, NEW r \in Readers,
         NEW to \in ReaderSteps, reader[r].at # "gone", reader' = [reader EXCEPT ![r].at = to]
  PROVE  FeedInv'
BY DEF FeedInv

LEMMA FeedStep == FeedInv /\ [FeedNext]_feedVars => FeedInv'
<1> SUFFICES ASSUME FeedInv, [FeedNext]_feedVars PROVE FeedInv'
  OBVIOUS
<1>1. CASE Rents \/ Changes \/ Removes \/ RemovesFrame \/ UNCHANGED feedVars
  BY <1>1 DEF FeedInv, Rents, Changes, Removes, RemovesFrame, feedVars, Shots
<1>2. ASSUME NEW r \in Readers, Looks(r) \/ LooksAgain(r) \/ Leaves(r)
      PROVE  FeedInv'
  <2>1. PICK to \in ReaderSteps : /\ reader[r].at # "gone"
                                  /\ reader' = [reader EXCEPT ![r].at = to]
    BY <1>2 DEF Looks, LooksAgain, Leaves, FeedGoes, ReaderSteps
  <2>2. UNCHANGED << renting, screen, feed, storedBy >>
    BY <1>2 DEF Looks, LooksAgain, Leaves
  <2>3. QED
    BY <2>1, <2>2, FeedMoves
<1>3. ASSUME NEW r \in Readers, Captures(r) PROVE FeedInv'
  BY <1>3 DEF FeedInv, Captures, ReaderSteps
<1>4. ASSUME NEW r \in Readers, ViewStores(r) PROVE FeedInv'
  BY <1>4 DEF FeedInv, ViewStores, FeedGoes, ReaderSteps
<1>5. ASSUME NEW r \in Readers, WatchStores(r) PROVE FeedInv'
  <2>1. CASE reader[r].last = reader[r].got
    BY <1>5, <2>1, FeedMoves DEF WatchStores, ReaderSteps
  <2>2. CASE reader[r].last # reader[r].got
    <3>1. feed'.image = reader[r].got /\ storedBy' = r
      BY <1>5, <2>2 DEF WatchStores, Remember
    <3>2. QED
      BY <1>5, <2>2, <3>1 DEF FeedInv, WatchStores, ReaderSteps
  <2>3. QED
    BY <2>1, <2>2
<1>6. QED
  BY <1>1, <1>2, <1>3, <1>4, <1>5 DEF FeedNext

\* However captures overtake each other, once every watch has sent the screen as
\* it is, the feed shows it, for any numbers of views and watches (remember_frame,
\* watch_loop).
THEOREM WatchedFeedStaysCurrent == FeedSpec => []WatchedFeedIsCurrent
<1>1. FeedInv => WatchedFeedIsCurrent
  BY DEF FeedInv, WatchedFeedIsCurrent
<1>2. QED
  BY <1>1, FeedInitially, FeedStep, PTL DEF FeedSpec

------------------------------------------------------------------------------
(***************************************************************************)
(* Cursor: the companion knows what it changed on the display.             *)
(***************************************************************************)

Cursors == [shown : Pictures \cup {NoPicture}, hidden : BOOLEAN, rootSet : BOOLEAN,
            overlay : BOOLEAN, overlayOff : BOOLEAN, off : BOOLEAN]
CursorPairs == [c : Cursors, d : Displays]

\* Whatever is changed the companion knows of, unless a request to take it back failed.
Knows(x, failed) ==
  /\ x.d.overlay = "mapped" => x.c.overlay
  /\ ~failed /\ ~x.c.hidden => x.d.sprite
  /\ ~failed /\ ~x.c.rootSet => x.d.root # "bug"

\* What DisplayIsGivenBack asks for.
GivenBack(d) == d.sprite /\ d.overlay # "mapped" /\ d.root # "bug"

CursorInv ==
  /\ Both \in CursorPairs /\ {wanted, lost} \subseteq BOOLEAN
  /\ running = "yes" => Knows(Both, lost)
  /\ DisplayIsGivenBack

LEMMA RevealedKnows ==
  ASSUME NEW x \in CursorPairs, NEW works \in BOOLEAN, NEW f \in BOOLEAN, Knows(x, f)
  PROVE  /\ Revealed(x, works) \in CursorPairs
         /\ Knows(Revealed(x, works), f \/ ~works)
         /\ Knows(Revealed(x, works), f \/ (x.c.hidden /\ ~works))
         /\ ~Revealed(x, works).c.hidden
         /\ Revealed(x, works).c.rootSet = x.c.rootSet
<1>1. CASE ~x.c.hidden
  BY <1>1 DEF Revealed, Knows
<1>2. CASE x.c.hidden
  BY <1>2 DEF Revealed, Knows, CursorPairs, Cursors, Displays
<1>3. QED
  BY <1>1, <1>2

LEMMA UnmappedKnows ==
  ASSUME NEW x \in CursorPairs, NEW f \in BOOLEAN, Knows(x, f)
  PROVE  /\ Unmapped(x) \in CursorPairs /\ Knows(Unmapped(x), f)
         /\ Unmapped(x).d.overlay # "mapped"
         /\ Unmapped(x).c = x.c
BY DEF Unmapped, Knows, CursorPairs, Cursors, Displays

LEMMA RootRestoredKnows ==
  ASSUME NEW x \in CursorPairs, NEW works \in BOOLEAN, NEW f \in BOOLEAN, Knows(x, f)
  PROVE  /\ RootRestored(x, works) \in CursorPairs
         /\ Knows(RootRestored(x, works), f \/ (x.c.rootSet /\ ~works))
         /\ ~RootRestored(x, works).c.rootSet
         /\ RootRestored(x, works).c.hidden = x.c.hidden
         /\ RootRestored(x, works).d.overlay = x.d.overlay
<1>1. CASE ~x.c.rootSet
  BY <1>1 DEF RootRestored, Knows, CursorPairs, Cursors
<1>2. CASE x.c.rootSet
  BY <1>2 DEF RootRestored, Knows, CursorPairs, Cursors, Displays
<1>3. QED
  BY <1>1, <1>2

\* restore takes everything back, if its requests work.
LEMMA RestoredKnows ==
  ASSUME NEW x \in CursorPairs, NEW s \in BOOLEAN, NEW r \in BOOLEAN, NEW f \in BOOLEAN,
         Knows(x, f), NEW g \in BOOLEAN,
         g = (f \/ (x.c.hidden /\ ~s) \/ (x.c.rootSet /\ ~r))
  PROVE  /\ Restored(x, s, r) \in CursorPairs
         /\ Knows(Restored(x, s, r), g)
         /\ Restored(x, s, r).d.overlay # "mapped"
         /\ ~g => GivenBack(Restored(x, s, r).d)
<1> DEFINE f1 == f \/ (x.c.hidden /\ ~s)
<1>1. PICK y : y = Revealed(x, s)
  OBVIOUS
<1>2. f1 \in BOOLEAN
  OBVIOUS
<1>3. /\ y \in CursorPairs /\ Knows(y, f1) /\ ~y.c.hidden /\ y.c.rootSet = x.c.rootSet
  BY <1>1, RevealedKnows
<1> HIDE DEF f1
<1>4. PICK z : z = Unmapped(y)
  OBVIOUS
<1>5. z \in CursorPairs /\ Knows(z, f1) /\ z.d.overlay # "mapped" /\ z.c = y.c
  BY <1>2, <1>3, <1>4, UnmappedKnows
<1>6. PICK w : w = RootRestored(z, r)
  OBVIOUS
<1>7. f1 \/ (z.c.rootSet /\ ~r) <=> g
  BY <1>3, <1>5 DEF f1
<1>8. /\ w \in CursorPairs /\ Knows(w, g) /\ ~w.c.rootSet /\ ~w.c.hidden
      /\ w.d.overlay # "mapped"
  <2>1. Knows(w, f1 \/ (z.c.rootSet /\ ~r))
    BY <1>2, <1>5, <1>6, RootRestoredKnows
  <2>2. Knows(w, g)
    BY <1>7, <2>1 DEF Knows
  <2>3. QED
    BY <1>2, <1>3, <1>5, <1>6, <2>2, RootRestoredKnows
<1>9. Restored(x, s, r) = [w EXCEPT !.c.shown = NoPicture]
  BY <1>1, <1>4, <1>6 DEF Restored
<1>10. PICK v : v = [w EXCEPT !.c.shown = NoPicture]
  OBVIOUS
<1>11. /\ v \in CursorPairs /\ v.d = w.d /\ v.c.overlay = w.c.overlay
       /\ v.c.hidden = w.c.hidden /\ v.c.rootSet = w.c.rootSet
  BY <1>8, <1>10 DEF CursorPairs, Cursors
<1>12. QED
  BY <1>8, <1>9, <1>10, <1>11 DEF Knows, GivenBack

\* cover_pointer: a failed request that shows the sprite again is the only loss.
LEMMA CoveredKnows ==
  ASSUME NEW x \in CursorPairs, NEW p \in {"works", "fails", "unsupported"},
         NEW conceals \in BOOLEAN, NEW reveals \in BOOLEAN, NEW f \in BOOLEAN, Knows(x, f),
         NEW g \in BOOLEAN, g = (f \/ ~reveals)
  PROVE  /\ Covered(x, p, conceals, reveals) \in CursorPairs
         /\ Knows(Covered(x, p, conceals, reveals), g)
<1>1. CASE x.c.overlayOff
  BY <1>1 DEF Covered, Knows
<1>2. CASE ~x.c.overlayOff /\ p = "fails"
  <2>1. Revealed(x, reveals) \in CursorPairs /\ Knows(Revealed(x, reveals), f \/ ~reveals)
    BY RevealedKnows
  <2>2. QED
    BY <1>2, <2>1 DEF Covered, Knows
<1>3. CASE ~x.c.overlayOff /\ p = "unsupported"
  <2>1. PICK y : y = [x EXCEPT !.c.overlayOff = TRUE]
    OBVIOUS
  <2>2. y \in CursorPairs /\ Knows(y, f)
    BY <2>1 DEF Knows, CursorPairs, Cursors
  <2>3. Revealed(y, reveals) \in CursorPairs /\ Knows(Revealed(y, reveals), f \/ ~reveals)
    BY <2>2, RevealedKnows
  <2>4. QED
    BY <1>3, <2>1, <2>3 DEF Covered, Knows
<1>4. CASE ~x.c.overlayOff /\ p = "works"
  <2>1. PICK y : y = Presented(x)
    OBVIOUS
  <2>2. y \in CursorPairs /\ Knows(y, f)
    BY <2>1 DEF Presented, Knows, CursorPairs, Cursors, Displays
  <2>3. Concealed(y) \in CursorPairs /\ Knows(Concealed(y), f \/ ~reveals)
    BY <2>2 DEF Concealed, Knows, CursorPairs, Cursors, Displays
  <2>4. Unmapped(y) \in CursorPairs /\ Knows(Unmapped(y), f \/ ~reveals)
    <3>1. Unmapped(y) \in CursorPairs /\ Knows(Unmapped(y), f)
      BY <2>2, UnmappedKnows
    <3>2. QED
      BY <3>1 DEF Knows
  <2>5. QED
    BY <1>4, <2>1, <2>3, <2>4 DEF Covered, Knows
<1>5. QED
  BY <1>1, <1>2, <1>3, <1>4

\* A restore of the cursor as it is, before and after the server drops the rest.
LEMMA RestoresKnows ==
  ASSUME CursorInv, running = "yes", NEW drops \in BOOLEAN, Restores(drops)
  PROVE  /\ Both' \in CursorPairs /\ lost' \in BOOLEAN
         /\ Knows(Both', lost')
         /\ ~lost' => GivenBack(display')
<1>1. PICK s \in BOOLEAN, r \in BOOLEAN :
        LET x == Restored(Both, s, r)
        IN  /\ cursor' = x.c
            /\ display' = IF drops THEN [x.d EXCEPT !.overlay = "none", !.sprite = TRUE] ELSE x.d
            /\ lost' = (lost \/ (cursor.hidden /\ ~s) \/ (cursor.rootSet /\ ~r))
  BY DEF Restores
<1>2. Both.c = cursor /\ lost \in BOOLEAN
  BY DEF Both, CursorInv
<1>3. lost' = (lost \/ (Both.c.hidden /\ ~s) \/ (Both.c.rootSet /\ ~r)) /\ lost' \in BOOLEAN
  BY <1>1, <1>2
<1>4. PICK x : x = Restored(Both, s, r)
  OBVIOUS
<1>5. /\ x \in CursorPairs /\ Knows(x, lost')
      /\ x.d.overlay # "mapped"
      /\ ~lost' => GivenBack(x.d)
  BY <1>2, <1>3, <1>4, RestoredKnows DEF CursorInv
<1>6. /\ cursor' = x.c
      /\ display' = IF drops THEN [x.d EXCEPT !.overlay = "none", !.sprite = TRUE] ELSE x.d
  BY <1>1, <1>4
<1>7. PICK e : e = [x.d EXCEPT !.overlay = "none", !.sprite = TRUE]
  OBVIOUS
<1>8. x.c \in Cursors /\ x.d \in Displays /\ e \in Displays
      /\ e.overlay = "none" /\ e.sprite = TRUE /\ e.root = x.d.root
  BY <1>5, <1>7 DEF CursorPairs, Displays
<1>9. display' \in {x.d, e}
  BY <1>6, <1>7
<1>10. Both' = [c |-> cursor', d |-> display']
  BY DEF Both
<1>11. PICK z : z = Both'
  OBVIOUS
<1>12. z.c = x.c /\ z.d = display' /\ z = [c |-> x.c, d |-> display']
  BY <1>6, <1>10, <1>11
<1>13. /\ z.d \in Displays /\ z.d.overlay # "mapped"
       /\ (x.d.sprite => z.d.sprite)
       /\ z.d.root = x.d.root
  <2>1. CASE display' = x.d
    <3>1. z.d = x.d
      BY <1>12, <2>1
    <3>2. QED
      BY <1>5, <1>8, <3>1
  <2>2. CASE display' = e
    <3>1. z.d = e
      BY <1>12, <2>2
    <3>2. z.d.sprite = TRUE /\ z.d.overlay = "none" /\ z.d.root = x.d.root
      BY <1>8, <3>1
    <3>3. z.d \in Displays
      BY <1>8, <3>1
    <3>4. QED
      BY <3>2, <3>3
  <2>3. QED
    BY <1>9, <2>1, <2>2
<1>14. z \in CursorPairs
  BY <1>8, <1>12, <1>13 DEF CursorPairs
<1>15. Knows(z, lost')
  BY <1>5, <1>12, <1>13 DEF Knows
<1>16. ~lost' => GivenBack(display')
  <2>1. ~lost' => GivenBack(z.d)
    BY <1>5, <1>13 DEF GivenBack
  <2>2. z.d = display'
    BY <1>12
  <2>3. QED
    BY <2>1, <2>2
<1>17. QED
  BY <1>3, <1>11, <1>14, <1>15, <1>16

LEMMA CursorInitially == CursorInit => CursorInv
<1> SUFFICES ASSUME CursorInit PROVE CursorInv
  OBVIOUS
<1>1. /\ display = [root |-> "user", sprite |-> TRUE, overlay |-> "none"]
      /\ cursor = [shown |-> NoPicture, hidden |-> FALSE, rootSet |-> FALSE,
                   overlay |-> FALSE, overlayOff |-> FALSE, off |-> FALSE]
      /\ wanted = FALSE /\ lost = FALSE
  BY DEF CursorInit
<1>2. display \in Displays /\ cursor \in Cursors
  BY <1>1 DEF Displays, Cursors
<1>3. QED
  BY <1>1, <1>2 DEF CursorInv, Both, CursorPairs, Knows, DisplayIsGivenBack

LEMMA DrawsCases ==
  ASSUME NEW picture \in Pictures, Draws(picture)
  PROVE  \/ cursor' = [cursor EXCEPT !.off = TRUE] /\ UNCHANGED << display, lost >>
         \/ Restores(FALSE)
         \/ \E presents \in {"works", "fails", "unsupported"}, conceals \in BOOLEAN,
               reveals \in BOOLEAN, defines \in BOOLEAN :
              DrawsOver(picture, presents, conceals, reveals, defines)
BY DEF Draws

\* A frame draws: it may leave what it covers, but knows of it.
LEMMA DrawsKnows ==
  ASSUME CursorInv, running = "yes", NEW picture \in Pictures, Draws(picture)
  PROVE  Both' \in CursorPairs /\ lost' \in BOOLEAN /\ Knows(Both', lost')
<1>0. Both \in CursorPairs /\ Knows(Both, lost) /\ lost \in BOOLEAN
  BY DEF CursorInv
<1>1. CASE cursor' = [cursor EXCEPT !.off = TRUE] /\ UNCHANGED << display, lost >>
  <2>1. Both = [c |-> cursor, d |-> display] /\ Both' = [c |-> cursor', d |-> display']
    BY DEF Both
  <2>2. cursor \in Cursors /\ display \in Displays
    BY <1>0, <2>1 DEF CursorPairs
  <2>3. /\ cursor' \in Cursors /\ cursor'.hidden = cursor.hidden
        /\ cursor'.rootSet = cursor.rootSet /\ cursor'.overlay = cursor.overlay
    BY <1>1, <2>2 DEF Cursors
  <2>4. QED
    BY <1>0, <1>1, <2>1, <2>2, <2>3 DEF Knows, CursorPairs
<1>2. CASE Restores(FALSE)
  BY <1>2, RestoresKnows
<1>3. ASSUME NEW presents \in {"works", "fails", "unsupported"}, NEW conceals \in BOOLEAN,
             NEW reveals \in BOOLEAN, NEW defines \in BOOLEAN,
             DrawsOver(picture, presents, conceals, reveals, defines)
      PROVE  Both' \in CursorPairs /\ lost' \in BOOLEAN /\ Knows(Both', lost')
  <2>1. PICK x : x = Covered(Both, presents, conceals, reveals)
    OBVIOUS
  <2>2. lost' = (lost \/ ~reveals) /\ lost' \in BOOLEAN
    BY <1>0, <1>3 DEF DrawsOver
  <2>3. x \in CursorPairs /\ Knows(x, lost')
    <3>0. PICK b : b = Both
      OBVIOUS
    <3>1. b \in CursorPairs /\ Knows(b, lost) /\ lost \in BOOLEAN
      BY <1>0, <3>0
    <3>2. x = Covered(b, presents, conceals, reveals)
      BY <2>1, <3>0
    <3>3. presents \in {"works", "fails", "unsupported"} /\ conceals \in BOOLEAN
          /\ reveals \in BOOLEAN
      OBVIOUS
    <3>4. PICK g : g = lost'
      OBVIOUS
    <3>5. g \in BOOLEAN /\ g = (lost \/ ~reveals)
      BY <2>2, <3>4
    <3>6. Covered(b, presents, conceals, reveals) \in CursorPairs
          /\ Knows(Covered(b, presents, conceals, reveals), g)
      BY <3>1, <3>3, <3>5, CoveredKnows
    <3>7. QED
      BY <3>2, <3>4, <3>6
  <2>4. PICK a : a = [x EXCEPT !.c.shown = picture]
    OBVIOUS
  <2>5. a \in CursorPairs /\ Knows(a, lost')
    BY <2>3, <2>4 DEF CursorPairs, Cursors, Knows
  <2>6. PICK b : b = [c |-> [x.c EXCEPT !.rootSet = TRUE, !.shown = picture],
                      d |-> [x.d EXCEPT !.root = "bug"]]
    OBVIOUS
  <2>7. b \in CursorPairs /\ Knows(b, lost')
    BY <2>3, <2>6 DEF CursorPairs, Cursors, Displays, Knows
  <2>8. PICK e : e = Restored(x, TRUE, TRUE)
    OBVIOUS
  <2>9. e \in CursorPairs /\ Knows(e, lost')
    <3>1. lost' = (lost' \/ (x.c.hidden /\ ~TRUE) \/ (x.c.rootSet /\ ~TRUE))
      BY <2>2
    <3>2. QED
      BY <2>2, <2>3, <2>8, <3>1, RestoredKnows
  <2>10. \E y \in {a, b, e} : cursor' = y.c /\ display' = y.d
    BY <1>3, <2>1, <2>4, <2>6, <2>8 DEF DrawsOver
  <2>11. PICK y \in {a, b, e} : cursor' = y.c /\ display' = y.d
    BY <2>10
  <2>12. y \in CursorPairs /\ Knows(y, lost')
    BY <2>5, <2>7, <2>9
  <2>13. Both' = [c |-> y.c, d |-> y.d]
    BY <2>11 DEF Both
  <2>14. QED
    BY <2>2, <2>12, <2>13 DEF CursorPairs, Knows
<1>4. QED
  BY <1>1, <1>2, <1>3, DrawsCases

LEMMA CursorStep == CursorInv /\ [CursorNext]_CursorVars => CursorInv'
<1> SUFFICES ASSUME CursorInv, [CursorNext]_CursorVars PROVE CursorInv'
  OBVIOUS
<1>1. CASE FrameWithoutBug
  <2>1. running = "yes" /\ running' = "yes" /\ wanted' = FALSE /\ Restores(FALSE)
    BY <1>1 DEF FrameWithoutBug
  <2>2. QED
    BY <2>1, RestoresKnows DEF CursorInv, DisplayIsGivenBack, GivenBack
<1>2. CASE GoesOut
  <2>1. running = "yes" /\ running' = "out" /\ wanted' = FALSE /\ Restores(TRUE)
    BY <1>2 DEF GoesOut
  <2>2. QED
    BY <2>1, RestoresKnows DEF CursorInv, DisplayIsGivenBack, GivenBack
<1>3. CASE IsKilled
  <2>1. /\ running' = "killed" /\ wanted' = FALSE /\ lost' = lost /\ cursor' = cursor
        /\ display' = [display EXCEPT !.overlay = "none", !.sprite = TRUE]
    BY <1>3 DEF IsKilled
  <2>2. Both = [c |-> cursor, d |-> display] /\ Both' = [c |-> cursor', d |-> display']
    BY DEF Both
  <2>3. cursor \in Cursors /\ display \in Displays /\ lost \in BOOLEAN
    BY <2>2 DEF CursorInv, CursorPairs
  <2>4. display' \in Displays /\ display'.overlay = "none" /\ display'.sprite
    BY <2>1, <2>3 DEF Displays
  <2>5. QED
    BY <2>1, <2>2, <2>3, <2>4 DEF CursorInv, CursorPairs, DisplayIsGivenBack
<1>4. ASSUME NEW picture \in Pictures, FrameWithBug(picture) PROVE CursorInv'
  <2>1. running = "yes" /\ running' = running /\ wanted' = TRUE
    BY <1>4 DEF FrameWithBug
  <2>2. CASE UNCHANGED << cursor, display, failures, lost >>
    BY <2>1, <2>2 DEF CursorInv, Both, Knows, DisplayIsGivenBack
  <2>3. CASE Draws(picture)
    BY <2>1, <2>3, DrawsKnows DEF CursorInv, DisplayIsGivenBack
  <2>4. QED
    BY <1>4, <2>2, <2>3 DEF FrameWithBug
<1>5. CASE UNCHANGED CursorVars
  BY <1>5 DEF CursorVars, CursorInv, Both, Knows, DisplayIsGivenBack
<1>6. QED
  BY <1>1, <1>2, <1>3, <1>4, <1>5 DEF CursorNext

\* Whatever failed while the bug was drawn, the user has the display back when it is
\* not wanted, unless taking it back failed (restore, CursorGuard).
THEOREM DisplayAlwaysGivenBack == CursorSpec => []DisplayIsGivenBack
<1>1. CursorInv => DisplayIsGivenBack
  BY DEF CursorInv
<1>2. QED
  BY <1>1, CursorInitially, CursorStep, PTL DEF CursorSpec

------------------------------------------------------------------------------
(***************************************************************************)
(* Settings: what a click has read is what was accepted, but for the keys  *)
(* an overlapping save has set.                                            *)
(***************************************************************************)

SettingFiles == [Keys -> {"unset", "menu", "editor", "torn"}]
SettingBudgets == [clicks : Nat, saves : Nat, notices : Nat, kills : Nat]


\* A file says of every key not in out what was set last.
Says(file, out) == \A k \in Keys \ out : file[k] = accepted[k]

\* The file and the click under way, and the notice with its cache, are apart.
TomlInv ==
  /\ {toml, accepted} \subseteq SettingFiles
  /\ click \in [at : {"none", "read", "emptied"}, key : {click.key}, was : SettingFiles,
               missed : SUBSET Keys]
  /\ click.at \in {"none", "read"} => Says(toml, doubt)
  /\ click.at = "read" => toml # Torn /\ Says(click.was, doubt \cup click.missed)
  /\ click.at = "emptied" /\ toml = NoSettings => Says(click.was, doubt \cup click.missed)

NoticeInv ==
  /\ budget \in SettingBudgets
  /\ notice \in [upgrading : BOOLEAN, mtime : Nat] /\ notice.mtime <= budget.notices
  /\ cache \in [filled : BOOLEAN, mtime : Nat, upgrading : BOOLEAN]
  /\ cache.mtime <= budget.notices
  /\ look \in Nat \cup {NoLook} /\ look <= budget.notices
  /\ notice.mtime # 0 /\ cache.filled /\ cache.mtime = notice.mtime =>
       cache.upgrading = notice.upgrading

LEMMA SettingsInitially == SettingsInit => TomlInv /\ NoticeInv
<1> SUFFICES ASSUME SettingsInit PROVE TomlInv /\ NoticeInv
  OBVIOUS
<1>1. NoSettings \in SettingFiles
  BY DEF NoSettings, SettingFiles
<1>2. TomlInv
  BY <1>1 DEF SettingsInit, TomlInv, NoClick, Says
<1>3. NoticeInv
  BY DEF SettingsInit, NoticeInv, SettingBudgets, NoLook
<1>4. QED
  BY <1>2, <1>3

\* A budget only grows.
LEMMA Spending ==
  ASSUME budget \in SettingBudgets, NEW what \in {"clicks", "saves", "notices", "kills"},
         NEW most, Spends(what, most)
  PROVE  /\ budget' \in SettingBudgets
         /\ budget'.notices = IF what = "notices" THEN budget.notices + 1 ELSE budget.notices
BY DEF SettingBudgets, Spends

LEMMA TomlFrame ==
  ASSUME TomlInv, UNCHANGED << toml, click, accepted, doubt >> PROVE TomlInv'
BY DEF TomlInv, Says

LEMMA NoticeFrame ==
  ASSUME NoticeInv, UNCHANGED << notice, cache, look >>,
         budget' = budget \/ \E what \in {"clicks", "saves", "kills"}, most \in {MaxClicks, MaxSaves, MaxKills} :
                               Spends(what, most)
  PROVE  NoticeInv'
<1>1. budget' \in SettingBudgets /\ budget'.notices = budget.notices
  BY Spending DEF NoticeInv
<1>2. QED
  BY <1>1 DEF NoticeInv

LEMMA SettingsStep == TomlInv /\ NoticeInv /\ [SettingsNext]_SettingsVars => TomlInv' /\ NoticeInv'
<1> SUFFICES ASSUME TomlInv, NoticeInv, [SettingsNext]_SettingsVars PROVE TomlInv' /\ NoticeInv'
  OBVIOUS
<1>0. NoSettings \in SettingFiles /\ Torn \in SettingFiles
  BY DEF NoSettings, Torn, SettingFiles
<1>1. CASE Clicks
  <2>1. CASE UNCHANGED click
    BY <1>1, <2>1, TomlFrame, NoticeFrame DEF Clicks
  <2>2. ASSUME NEW k \in MenuKeys,
               click' = [at |-> "read", key |-> k, was |-> toml, missed |-> {}]
        PROVE  TomlInv'
    BY <1>1, <2>2 DEF Clicks, TomlInv, Says
  <2>3. QED
    BY <1>1, <2>1, <2>2, NoticeFrame DEF Clicks
<1>2. CASE Truncates
  <2>1. TomlInv'
    BY <1>0, <1>2 DEF Truncates, TomlInv, Says
  <2>2. QED
    BY <1>2, <2>1, NoticeFrame DEF Truncates
<1>3. CASE Fills
  <2>1. /\ accepted' = [accepted EXCEPT ![click.key] = "menu"] /\ click' = NoClick
        /\ Written \in SettingFiles /\ accepted' \in SettingFiles
    BY <1>3 DEF Fills, Written, TomlInv, SettingFiles
  <2>2. toml' \in SettingFiles
    BY <1>0, <1>3, <2>1 DEF Fills, Mixed, SettingFiles
  <2>3. Says(toml, doubt)'
    <3>1. CASE toml # NoSettings
      BY <1>3, <3>1 DEF Fills, Says
    <3>2. CASE toml = NoSettings
      <4>1. toml' = Written /\ doubt' = (doubt \cup click.missed) \ {click.key}
        BY <1>3, <3>2 DEF Fills
      <4>2. Says(click.was, doubt \cup click.missed)
        BY <1>3, <3>2 DEF Fills, TomlInv
      <4>3. \A k \in Keys \ doubt' : toml'[k] = accepted'[k]
        BY <2>1, <4>1, <4>2 DEF Written, Says, TomlInv, SettingFiles
      <4>4. QED
        BY <4>3 DEF Says
    <3>3. QED
      BY <3>1, <3>2
  <2>4. TomlInv'
    BY <1>0, <2>1, <2>2, <2>3 DEF TomlInv, NoClick
  <2>5. QED
    BY <1>3, <2>4, NoticeFrame DEF Fills
<1>4. CASE CompanionIsKilled
  <2>1. TomlInv'
    <3>1. CASE click.at # "emptied"
      BY <1>0, <1>4, <3>1 DEF CompanionIsKilled, TomlInv, NoClick, Says
    <3>2. CASE click.at = "emptied"
      <4>1. toml' \in SettingFiles /\ accepted' = toml' /\ click' = NoClick
        BY <1>0, <1>4, <3>2 DEF CompanionIsKilled, Mixed, SettingFiles
      <4>2. QED
        BY <1>0, <4>1 DEF TomlInv, NoClick, Says
    <3>3. QED
      BY <3>1, <3>2
  <2>2. budget' \in SettingBudgets /\ budget'.notices = budget.notices
    BY <1>4, Spending DEF CompanionIsKilled, NoticeInv
  <2>3. NoticeInv'
    BY <1>4, <2>2 DEF CompanionIsKilled, NoticeInv, NoLook, SettingBudgets
  <2>4. QED
    BY <2>1, <2>3
<1>5. CASE Saves
  <2>1. PICK k \in Keys, seen \in {toml, click.was} :
          /\ seen = toml \/ click.at = "emptied"
          /\ toml' = [IF seen = Torn THEN NoSettings ELSE seen EXCEPT ![k] = "editor"]
          /\ accepted' = toml'
          /\ IF click.at = "none" THEN doubt' = {} /\ UNCHANGED click
             ELSE click' = [click EXCEPT !.missed = @ \cup {k}] /\ UNCHANGED doubt
    BY <1>5 DEF Saves
  <2>2. PICK was \in SettingFiles : toml' = [was EXCEPT ![k] = "editor"]
    BY <1>0, <2>1 DEF TomlInv
  <2>3. toml' \in SettingFiles /\ toml'[k] = "editor" /\ toml' # NoSettings /\ toml' # Torn
    BY <2>2 DEF SettingFiles, NoSettings, Torn
  <2>4. Says(toml, doubt)'
    BY <2>1 DEF Says
  <2>5. TomlInv'
    <3>1. CASE click.at = "none"
      BY <2>1, <2>3, <2>4, <3>1 DEF TomlInv
    <3>2. CASE click.at # "none"
      <4>1. /\ click' = [at |-> click.at, key |-> click.key, was |-> click.was,
                         missed |-> click.missed \cup {k}]
            /\ doubt' = doubt
        BY <2>1, <3>2 DEF TomlInv
      <4>2. click.at = "read" => Says(click.was, doubt \cup click.missed)'
        BY <2>1, <4>1 DEF TomlInv, Says
      <4>3. QED
        BY <2>1, <2>3, <2>4, <4>1, <4>2 DEF TomlInv
    <3>3. QED
      BY <3>1, <3>2
  <2>6. QED
    BY <1>5, <2>5, NoticeFrame DEF Saves
<1>6. CASE Publishes
  <2>1. budget' \in SettingBudgets /\ budget'.notices = budget.notices + 1
    BY <1>6, Spending DEF Publishes, NoticeInv
  <2>2. notice' \in [upgrading : BOOLEAN, mtime : Nat] /\ notice'.mtime \in {0, budget.notices + 1}
    <3>1. budget.notices \in Nat
      BY DEF NoticeInv, SettingBudgets
    <3>2. PICK was \in {0, budget.notices + 1}, up \in BOOLEAN :
            notice' = [upgrading |-> up, mtime |-> was]
      BY <1>6 DEF Publishes
    <3>3. QED
      BY <3>1, <3>2
  <2>3. UNCHANGED << toml, click, accepted, doubt, cache, look >>
    BY <1>6 DEF Publishes
  <2>4. NoticeInv'
    BY <2>1, <2>2, <2>3 DEF NoticeInv, SettingBudgets, NoLook
  <2>5. QED
    BY <2>3, <2>4, TomlFrame
<1>7. CASE Stats
  <2>1. NoticeInv'
    BY <1>7 DEF Stats, NoticeInv
  <2>2. QED
    BY <1>7, <2>1, TomlFrame DEF Stats
<1>8. CASE RefreshesCache
  <2>1. NoticeInv'
    BY <1>8 DEF RefreshesCache, NoticeInv, Filled, NoLook, SettingBudgets
  <2>2. QED
    BY <1>8, <2>1, TomlFrame DEF RefreshesCache
<1>9. CASE UNCHANGED SettingsVars
  BY <1>9, TomlFrame, NoticeFrame DEF SettingsVars
<1>10. QED
  BY <1>1, <1>2, <1>3, <1>4, <1>5, <1>6, <1>7, <1>8, <1>9 DEF SettingsNext

\* No setting is lost but one an overlapping save set or a kill cut, and no notice is
\* missed, for any keys and any numbers of clicks, saves, notices and kills (write_value,
\* refresh_cached_notice).
THEOREM SettingsStayCurrent == SettingsSpec => []SettingsAreCurrent
<1>1. TomlInv /\ NoticeInv => SettingsAreCurrent
  BY DEF TomlInv, NoticeInv, SettingsAreCurrent, Says
<1>2. QED
  BY <1>1, SettingsInitially, SettingsStep, PTL DEF SettingsSpec

------------------------------------------------------------------------------
(***************************************************************************)
(* Configuration: one edit is past the lock, and made of the file as it    *)
(* was shown; a review and a session take the same entry of every name.    *)
(***************************************************************************)

\* The functions from a part of A to B.
LEMMA PartOf ==
  ASSUME NEW A, NEW B
  PROVE  /\ \A f \in UNION {[S -> B] : S \in SUBSET A} : DOMAIN f \subseteq A /\ f \in [DOMAIN f -> B]
         /\ \A S \in SUBSET A : \A f \in [S -> B] : f \in UNION {[T -> B] : T \in SUBSET A}
OBVIOUS

LEMMA ProfilesAre ==
  ASSUME NEW doc \in ProfileFiles
  PROVE  /\ doc.active \in ProfileNames /\ DOMAIN doc.profiles \subseteq ProfileNames
         /\ doc.profiles \in [DOMAIN doc.profiles -> Profiles]
<1>1. doc.active \in ProfileNames /\ doc.profiles \in UNION {[S -> Profiles] : S \in SUBSET ProfileNames}
  BY DEF ProfileFiles
<1>2. QED
  BY <1>1, PartOf

LEMMA ServersAre ==
  ASSUME NEW file \in ServerFiles
  PROVE  DOMAIN file \subseteq ServerNames \cup {Gateway} /\ file \in [DOMAIN file -> Specs]
<1>1. file \in UNION {[S -> Specs] : S \in SUBSET (ServerNames \cup {Gateway})}
  BY DEF ServerFiles
<1>2. QED
  BY <1>1, PartOf

\* The active profile exists, as long as there is one.
HasActive(doc) == DOMAIN doc.profiles = {} \/ doc.active \in DOMAIN doc.profiles

LEMMA EditsOfProfiles ==
  ASSUME NEW doc \in ProfileFiles, NEW next \in ProfileEdits(doc)
  PROVE  next \in ProfileFiles /\ (HasActive(doc) => HasActive(next))
<1> DEFINE Maps == UNION {[S -> Profiles] : S \in SUBSET ProfileNames}
<1>0. /\ doc.active \in ProfileNames /\ DOMAIN doc.profiles \subseteq ProfileNames
      /\ doc.profiles \in [DOMAIN doc.profiles -> Profiles] /\ doc.profiles \in Maps
      /\ doc = [active |-> doc.active, profiles |-> doc.profiles]
  BY ProfilesAre DEF ProfileFiles
<1>1. PICK n \in ProfileNames :
        next \in Deleted(doc, n) \cup Activated(doc, n)
                   \cup UNION {Saved(doc, n, S, gateway, create) :
                                 S \in SUBSET ServerNames, gateway \in BOOLEAN, create \in BOOLEAN}
  BY DEF ProfileEdits
<1>2. CASE next \in Deleted(doc, n)
  <2>1. n # doc.active /\ next = [doc EXCEPT !.profiles = Without(doc.profiles, n)]
    BY <1>2 DEF Deleted
  <2>2. PICK f : f = Without(doc.profiles, n)
    OBVIOUS
  <2>3. DOMAIN f = DOMAIN doc.profiles \ {n} /\ f \in [DOMAIN f -> Profiles]
    BY <1>0, <2>2 DEF Without
  <2>4. f \in Maps
    BY <1>0, <2>3, PartOf
  <2>5. next = [active |-> doc.active, profiles |-> f]
    BY <1>0, <2>1, <2>2
  <2>6. next \in ProfileFiles
    BY <1>0, <2>4, <2>5 DEF ProfileFiles
  <2>7. next.active = doc.active /\ next.profiles = f /\ n # doc.active
    BY <2>1, <2>5
  <2>8. HasActive(doc) => HasActive(next)
    BY <2>3, <2>7 DEF HasActive
  <2>9. QED
    BY <2>6, <2>8
<1>3. CASE next \in Activated(doc, n)
  <2>1. n \in DOMAIN doc.profiles /\ next = [active |-> n, profiles |-> doc.profiles]
    BY <1>0, <1>3 DEF Activated
  <2>2. next.active = n /\ next.profiles = doc.profiles
    BY <2>1
  <2>3. next \in ProfileFiles
    BY <1>0, <2>1 DEF ProfileFiles
  <2>4. QED
    BY <2>1, <2>2, <2>3 DEF HasActive
<1>4. ASSUME NEW S \in SUBSET ServerNames, NEW gateway \in BOOLEAN, NEW create \in BOOLEAN,
             next \in Saved(doc, n, S, gateway, create)
      PROVE  next \in ProfileFiles /\ (HasActive(doc) => HasActive(next))
  <2>1. PICK own : own = IF n \in DOMAIN doc.profiles THEN doc.profiles[n].own ELSE {}
    OBVIOUS
  <2>2. own \in SUBSET ServerNames
    BY <1>0, <2>1 DEF Profiles
  <2>3. PICK v : v = [servers |-> S, gateway |-> gateway, own |-> own]
    OBVIOUS
  <2>4. v \in Profiles
    BY <2>2, <2>3 DEF Profiles
  <2>5. PICK f : f = With(doc.profiles, n, v)
    OBVIOUS
  <2>6. DOMAIN f = DOMAIN doc.profiles \cup {n} /\ f \in [DOMAIN f -> Profiles]
    BY <1>0, <2>4, <2>5 DEF With
  <2>7. f \in Maps
    BY <1>0, <2>6, PartOf
  <2>8. next = [active |-> IF DOMAIN f = {n} THEN n ELSE doc.active, profiles |-> f]
    BY <1>4, <2>1, <2>3, <2>5 DEF Saved
  <2>9. next \in ProfileFiles
    BY <1>0, <2>7, <2>8 DEF ProfileFiles
  <2>10. QED
    BY <2>6, <2>8, <2>9 DEF HasActive
<1>5. QED
  BY <1>1, <1>2, <1>3, <1>4

LEMMA EditsOfServers ==
  ASSUME NEW file \in ServerFiles, NEW next \in ServerEdits(file)
  PROVE  next \in ServerFiles
<1> DEFINE Names == ServerNames \cup {Gateway}
<1>0. DOMAIN file \subseteq Names /\ file \in [DOMAIN file -> Specs]
  BY ServersAre
<1>1. DOMAIN next \subseteq Names /\ next \in [DOMAIN next -> Specs]
  <2>1. ASSUME NEW n \in ServerNames, NEW spec \in [run : Commands, on : BOOLEAN],
               next = With(file, n, spec)
        PROVE  DOMAIN next \subseteq Names /\ next \in [DOMAIN next -> Specs]
    <3>1. spec \in Specs
      BY DEF Specs
    <3>2. QED
      BY <1>0, <2>1, <3>1 DEF With
  <2>2. ASSUME NEW n, next = Without(file, n)
        PROVE  DOMAIN next \subseteq Names /\ next \in [DOMAIN next -> Specs]
    BY <1>0, <2>2 DEF Without
  <2>3. QED
    BY <2>1, <2>2 DEF ServerEdits
<1>2. QED
  BY <1>1, PartOf DEF ServerFiles

-----------------------------------------------------------------------------
(* What a review shows.                                                    *)

\* The entry that counts for a name, and the candidate that stands for it.
Counting(n) == IF n \in Known THEN Winner(n) ELSE GatewaySpec
Chosen(n) == [name |-> n, spec |-> Counting(n), shadowed |-> FALSE]

LEMMA ReviewShows ==
  ASSUME NEW p, Resolves(p)
  PROVE  Resolved(p) = {[name |-> c.name, spec |-> ReviewedSpec(p, c)] :
                          c \in {d \in Candidates(p) : Status(p, d) = "selected"}}
<1> DEFINE Spec(n) == Overridden(p, n, Counting(n))
           Selected == {d \in Candidates(p) : Status(p, d) = "selected"}
<1>1. Resolved(p) = {[name |-> n, spec |-> Spec(n)] : n \in {m \in Members(p) : Spec(m).on}}
  BY DEF Resolved, Counting
<1>2. ASSUME NEW n \in Members(p), Spec(n).on
      PROVE  Chosen(n) \in Selected /\ ReviewedSpec(p, Chosen(n)) = Spec(n)
  <2>1. ~Chosen(n).shadowed /\ Chosen(n).name = n /\ Chosen(n).spec = Counting(n)
    BY DEF Chosen
  <2>2. Chosen(n) \in Candidates(p)
    <3>1. CASE n \in DOMAIN servers
      BY <3>1 DEF Candidates, Chosen, Counting, Known, Winner
    <3>2. CASE n \notin DOMAIN servers /\ n \in DOMAIN Project
      <4>1. Chosen(n) = [name |-> n, spec |-> Project[n], shadowed |-> n \in DOMAIN servers]
        <5>1. Counting(n) = Project[n]
          BY <3>2 DEF Counting, Known, Winner
        <5>2. (n \in DOMAIN servers) = FALSE
          BY <3>2
        <5>3. QED
          BY <5>1, <5>2 DEF Chosen
      <4>2. QED
        BY <3>2, <4>1 DEF Candidates
    <3>3. CASE n \notin Known
      <4>1. p.gateway /\ n = Gateway
        BY <3>3 DEF Resolves, Members
      <4>2. QED
        BY <3>3, <4>1 DEF Candidates, Chosen, Counting
    <3>4. QED
      BY <3>1, <3>2, <3>3 DEF Known
  <2>3. ReviewedSpec(p, Chosen(n)) = Spec(n)
    BY <2>1 DEF ReviewedSpec
  <2>4. Status(p, Chosen(n)) = "selected"
    BY <1>2, <2>1, <2>3 DEF Status
  <2>5. QED
    BY <2>2, <2>3, <2>4
<1>3. ASSUME NEW c \in Selected
      PROVE  c.name \in Members(p) /\ ReviewedSpec(p, c) = Spec(c.name) /\ Spec(c.name).on
  <2>1. c.name \in Members(p) /\ ~c.shadowed /\ ReviewedSpec(p, c).on
    BY DEF Status
  <2>2. c.spec = Counting(c.name)
    <3>1. ASSUME NEW n \in DOMAIN servers,
                 c = [name |-> n, spec |-> servers[n], shadowed |-> FALSE]
          PROVE  c.spec = Counting(c.name)
      BY <3>1 DEF Counting, Known, Winner
    <3>2. ASSUME NEW n \in DOMAIN Project,
                 c = [name |-> n, spec |-> Project[n], shadowed |-> n \in DOMAIN servers]
          PROVE  c.spec = Counting(c.name)
      <4>1. n \notin DOMAIN servers /\ c.name = n /\ c.spec = Project[n]
        BY <2>1, <3>2
      <4>2. QED
        BY <3>2, <4>1 DEF Counting, Known, Winner
    <3>3. ASSUME NEW n \in IF p.gateway THEN {Gateway} \ Known ELSE {},
                 c = [name |-> n, spec |-> GatewaySpec, shadowed |-> FALSE]
          PROVE  c.spec = Counting(c.name)
      BY <3>3 DEF Counting
    <3>4. QED
      BY <3>1, <3>2, <3>3 DEF Candidates
  <2>3. ReviewedSpec(p, c) = Spec(c.name)
    BY <2>1, <2>2 DEF ReviewedSpec
  <2>4. QED
    BY <2>1, <2>3
<1> HIDE DEF Spec, Selected
<1>4. ASSUME NEW n \in Members(p), Spec(n).on
      PROVE  [name |-> n, spec |-> Spec(n)] \in {[name |-> c.name, spec |-> ReviewedSpec(p, c)] : c \in Selected}
  <2>1. Chosen(n).name = n
    BY DEF Chosen
  <2>2. QED
    BY <1>2, <1>4, <2>1
<1>5. QED
  BY <1>1, <1>3, <1>4 DEF Selected

-----------------------------------------------------------------------------
(* The editors.                                                            *)

Contents == ProfileFiles \cup ServerFiles
DialogRecords ==
  [pc : {"closed", "asks", "blocks", "writes"}, file : {"profiles", "servers"},
   shown : SUBSET Contents, read : SUBSET Contents, others : SUBSET Contents,
   next : SUBSET Contents, raced : BOOLEAN]

Editing(q) == q.pc \in {"blocks", "writes"}

\* An edit was made of what the dialog was shown.
MadeOfShown(q, byText) ==
  /\ q.shown = q.read
  /\ q.file = "profiles" =>
       /\ q.next \subseteq ProfileFiles
       /\ byText \/ \A next \in q.next : HasActive(next)
  /\ q.file = "servers" => q.next \subseteq ServerFiles

ConfigurationInv ==
  /\ profiles \in ProfileFiles /\ servers \in ServerFiles /\ stray \in BOOLEAN
  /\ dialog \in [Dialogs -> DialogRecords]
  /\ \A d \in Dialogs : Editing(dialog[d]) <=> d \in locked
  /\ locked \subseteq Dialogs /\ \A d, e \in locked : d = e
  /\ \A d \in Dialogs : Editing(dialog[d]) => MadeOfShown(dialog[d], stray)
  /\ NoEditIsLost
  /\ stray \/ HasActive(profiles)

LEMMA ConfigurationInitially == ConfigurationInit => ConfigurationInv
<1> SUFFICES ASSUME ConfigurationInit PROVE ConfigurationInv
  OBVIOUS
<1>1. dialog = [d \in Dialogs |-> NoDialog] /\ locked = {} /\ stray = FALSE
  BY DEF ConfigurationInit
<1>2. NoDialog \in DialogRecords /\ NoDialog.pc = "closed"
  BY DEF NoDialog, DialogRecords
<1>3. \A d \in Dialogs : dialog[d].pc = "closed"
  BY <1>1, <1>2
<1>4. profiles \in ProfileFiles /\ servers \in ServerFiles /\ HasActive(profiles)
  <2>1. PICK p \in ProfileNames, s \in ServerNames, c \in Commands :
          \/ /\ profiles = [active |-> p, profiles |-> NoProfiles]
             /\ servers = [n \in {} |-> {}]
          \/ /\ profiles = [active |-> p, profiles |->
                              [n \in {p} |-> [servers |-> {s}, gateway |-> FALSE, own |-> {s}]]]
             /\ servers = [n \in {s} |-> [run |-> c, on |-> TRUE]]
    BY DEF ConfigurationInit
  <2>2. CASE /\ profiles = [active |-> p, profiles |-> NoProfiles]
             /\ servers = [n \in {} |-> {}]
    <3>1. NoProfiles \in [{} -> Profiles] /\ servers \in [{} -> Specs] /\ DOMAIN NoProfiles = {}
      BY <2>2 DEF NoProfiles
    <3>2. NoProfiles \in UNION {[S -> Profiles] : S \in SUBSET ProfileNames}
      BY <3>1, PartOf
    <3>3. profiles \in ProfileFiles
      BY <2>2, <3>2 DEF ProfileFiles
    <3>4. servers \in ServerFiles
      <4>1. {} \in SUBSET (ServerNames \cup {Gateway})
        OBVIOUS
      <4>2. QED
        BY <3>1, <4>1, PartOf DEF ServerFiles
    <3>5. HasActive(profiles)
      BY <2>2, <3>1 DEF HasActive
    <3>6. QED
      BY <3>3, <3>4, <3>5
  <2>3. CASE /\ profiles = [active |-> p, profiles |->
                              [n \in {p} |-> [servers |-> {s}, gateway |-> FALSE, own |-> {s}]]]
             /\ servers = [n \in {s} |-> [run |-> c, on |-> TRUE]]
    <3>1. PICK v : v = [servers |-> {s}, gateway |-> FALSE, own |-> {s}]
      OBVIOUS
    <3>2. v \in Profiles
      BY <3>1 DEF Profiles
    <3>3. PICK f : f = [n \in {p} |-> v]
      OBVIOUS
    <3>4. f \in [{p} -> Profiles] /\ DOMAIN f = {p}
      BY <3>2, <3>3
    <3>5. f \in UNION {[S -> Profiles] : S \in SUBSET ProfileNames}
      BY <3>4, PartOf
    <3>6. profiles = [active |-> p, profiles |-> f]
      BY <2>3, <3>1, <3>3
    <3>7. PICK w : w = [run |-> c, on |-> TRUE]
      OBVIOUS
    <3>8. w \in Specs
      BY <3>7 DEF Specs
    <3>9. servers \in [{s} -> Specs]
      BY <2>3, <3>7, <3>8
    <3>10. servers \in ServerFiles
      BY <3>9, PartOf DEF ServerFiles
    <3>11. QED
      BY <3>4, <3>5, <3>6, <3>10 DEF ProfileFiles, HasActive
  <2>4. QED
    BY <2>1, <2>2, <2>3
<1>5. QED
  <2>1. dialog \in [Dialogs -> DialogRecords]
    BY <1>1, <1>2
  <2>2. \A d \in Dialogs : ~Editing(dialog[d]) /\ dialog[d].pc # "writes"
    BY <1>3 DEF Editing
  <2>3. QED
    BY <1>1, <1>4, <2>1, <2>2 DEF ConfigurationInv, NoEditIsLost

\* What a dialog must satisfy in a step that leaves the files.
DialogFits(q) ==
  /\ q \in DialogRecords
  /\ Editing(q) => MadeOfShown(q, stray)
  /\ q.pc = "writes" /\ ~q.raced =>
       /\ q.shown = Content(q.file)
       /\ q.file = "servers" => q.others = {profiles}

\* One dialog moves on, the files stay.
LEMMA DialogMoves ==
  ASSUME ConfigurationInv, UNCHANGED << profiles, servers, stray >>,
         NEW d \in Dialogs, NEW q, DialogFits(q), dialog' = [dialog EXCEPT ![d] = q],
         locked' = IF Editing(q) THEN {d} ELSE locked \ {d},
         Editing(q) => locked \subseteq {d}
  PROVE  ConfigurationInv'
<1>1. dialog' \in [Dialogs -> DialogRecords]
  BY DEF ConfigurationInv, DialogFits
<1>2. \A e \in Dialogs : dialog'[e] = IF e = d THEN q ELSE dialog[e]
  BY DEF ConfigurationInv
<1>3. \A e \in Dialogs : Editing(dialog'[e]) <=> e \in locked'
  BY <1>2 DEF ConfigurationInv
<1>4. locked' \subseteq Dialogs /\ \A e, f \in locked' : e = f
  BY DEF ConfigurationInv
<1>5. \A e \in Dialogs : Editing(dialog'[e]) => MadeOfShown(dialog'[e], stray')
  BY <1>2 DEF ConfigurationInv, DialogFits, MadeOfShown
<1>6. NoEditIsLost'
  BY <1>2 DEF ConfigurationInv, DialogFits, NoEditIsLost, Content
<1>7. QED
  BY <1>1, <1>3, <1>4, <1>5, <1>6 DEF ConfigurationInv

LEMMA NoDialogFits == DialogFits(NoDialog) /\ ~Editing(NoDialog)
BY DEF DialogFits, NoDialog, DialogRecords, Editing

LEMMA ConfigurationStep ==
  ConfigurationInv /\ [ConfigurationNext]_ConfigurationVars => ConfigurationInv'
<1> SUFFICES ASSUME ConfigurationInv, [ConfigurationNext]_ConfigurationVars
             PROVE  ConfigurationInv'
  OBVIOUS
<1>0. \A file : Content(file) \subseteq Contents
  BY DEF ConfigurationInv, Content, Contents
<1>1. ASSUME NEW d \in Dialogs, NEW file \in {"profiles", "servers"}, Opens(d, file)
      PROVE  ConfigurationInv'
  <2>1. PICK q : q = [NoDialog EXCEPT !.pc = "asks", !.file = file, !.shown = Content(file)]
    OBVIOUS
  <2>2. DialogFits(q) /\ ~Editing(q)
    BY <1>0, <2>1 DEF DialogFits, NoDialog, DialogRecords, Editing
  <2>3. d \notin locked
    BY <1>1 DEF Opens, ConfigurationInv, Editing
  <2>4. QED
    BY <1>1, <2>1, <2>2, <2>3, DialogMoves DEF Opens
<1>2. ASSUME NEW d \in Dialogs, Gives(d) PROVE ConfigurationInv'
  <2>1. d \notin locked
    BY <1>2 DEF Gives, ConfigurationInv, Editing
  <2>2. QED
    BY <1>2, <2>1, NoDialogFits, DialogMoves DEF Gives
<1>3. ASSUME NEW d \in Dialogs, Edits(d) PROVE ConfigurationInv'
  <2>1. PICK next \in IF dialog[d].file = "profiles" THEN ProfileEdits(profiles)
                      ELSE ServerEdits(servers) :
          dialog' = [dialog EXCEPT ![d].pc = "blocks", ![d].next = {next},
                                   ![d].read = Content(dialog[d].file), ![d].others = {profiles}]
    BY <1>3 DEF Edits
  <2>2. PICK q : q = [dialog[d] EXCEPT !.pc = "blocks", !.next = {next},
                        !.read = Content(dialog[d].file), !.others = {profiles}]
    OBVIOUS
  <2>3. dialog' = [dialog EXCEPT ![d] = q]
    BY <2>1, <2>2 DEF ConfigurationInv
  <2>4. /\ dialog[d] \in DialogRecords /\ dialog[d].shown = Content(dialog[d].file)
        /\ profiles \in Contents
    BY <1>3 DEF Edits, IsCurrent, ConfigurationInv, Contents
  <2>5. CASE dialog[d].file = "profiles"
    <3>1. next \in ProfileFiles /\ (stray \/ HasActive(next))
      BY <2>1, <2>5, EditsOfProfiles DEF ConfigurationInv
    <3>2. q \in DialogRecords /\ q.pc = "blocks" /\ q.file = "profiles" /\ q.next = {next}
          /\ q.shown = q.read
      BY <1>0, <2>2, <2>4, <2>5, <3>1 DEF DialogRecords, Contents
    <3>3. QED
      BY <1>3, <2>3, <3>1, <3>2, DialogMoves DEF Edits, DialogFits, Editing, MadeOfShown
  <2>6. CASE dialog[d].file # "profiles"
    <3>1. next \in ServerFiles /\ dialog[d].file = "servers"
      BY <2>1, <2>4, <2>6, EditsOfServers DEF ConfigurationInv, DialogRecords
    <3>2. q \in DialogRecords /\ q.pc = "blocks" /\ q.file = "servers" /\ q.next = {next}
          /\ q.shown = q.read
      BY <1>0, <2>2, <2>4, <3>1 DEF DialogRecords, Contents
    <3>3. QED
      BY <1>3, <2>3, <3>1, <3>2, DialogMoves DEF Edits, DialogFits, Editing, MadeOfShown
  <2>7. QED
    BY <2>5, <2>6
<1>4. ASSUME NEW d \in Dialogs, Rechecks(d) PROVE ConfigurationInv'
  <2>1. PICK q : q = [dialog[d] EXCEPT !.pc = "writes"]
    OBVIOUS
  <2>2. /\ dialog[d] \in DialogRecords /\ MadeOfShown(dialog[d], stray) /\ Editing(dialog[d])
        /\ dialog' = [dialog EXCEPT ![d] = q]
    BY <1>4, <2>1 DEF Rechecks, ConfigurationInv, Editing
  <2>3. /\ q \in DialogRecords /\ q.pc = "writes" /\ q.file = dialog[d].file
        /\ q.shown = dialog[d].shown /\ q.read = dialog[d].read /\ q.others = dialog[d].others
        /\ q.next = dialog[d].next
    BY <2>1, <2>2 DEF DialogRecords
  <2>4. DialogFits(q) /\ Editing(q)
    BY <1>4, <2>2, <2>3 DEF Rechecks, IsUnchanged, DialogFits, Editing, MadeOfShown
  <2>5. locked = {d}
    BY <2>2 DEF ConfigurationInv
  <2>6. QED
    BY <1>4, <2>2, <2>4, <2>5, DialogMoves DEF Rechecks
<1>5. ASSUME NEW d \in Dialogs, EditFails(d) PROVE ConfigurationInv'
  <2>1. locked = {d}
    BY <1>5 DEF EditFails, ConfigurationInv, Editing
  <2>2. QED
    BY <1>5, <2>1, NoDialogFits, DialogMoves DEF EditFails
<1>6. ASSUME NEW d \in Dialogs, Writes(d) PROVE ConfigurationInv'
  <2>1. locked = {d} /\ MadeOfShown(dialog[d], stray)
    BY <1>6 DEF Writes, ConfigurationInv, Editing
  <2>2. PICK next \in dialog[d].next :
          IF dialog[d].file = "profiles"
          THEN profiles' = next /\ UNCHANGED servers
          ELSE servers' = next /\ UNCHANGED profiles
    BY <1>6 DEF Writes
  <2>3. /\ dialog' = [dialog EXCEPT ![d] = NoDialog] /\ locked' = {} /\ stray' = stray
    BY <1>6 DEF Writes
  <2>4. \A e \in Dialogs : ~Editing(dialog'[e])
    BY <2>1, <2>3, NoDialogFits DEF ConfigurationInv
  <2>5. \A e \in Dialogs : dialog'[e].pc # "writes"
    BY <2>4 DEF Editing
  <2>6. dialog' \in [Dialogs -> DialogRecords]
    BY <2>3, NoDialogFits DEF ConfigurationInv, DialogFits
  <2>7. profiles' \in ProfileFiles /\ servers' \in ServerFiles /\ (stray' \/ HasActive(profiles'))
    <3>1. dialog[d].file \in {"profiles", "servers"}
      BY DEF ConfigurationInv, DialogRecords
    <3>2. QED
      BY <2>1, <2>2, <2>3, <3>1 DEF ConfigurationInv, MadeOfShown
  <2>8. QED
    BY <2>3, <2>4, <2>5, <2>6, <2>7 DEF ConfigurationInv, NoEditIsLost
<1>7. CASE WritesOutside
  <2>1. /\ profiles' \in ProfileFiles /\ servers' \in ServerFiles /\ stray' \in BOOLEAN
        /\ (stray => stray') /\ (stray' \/ HasActive(profiles'))
    <3>1. CASE (\E next \in ProfileEdits(profiles) : profiles' = next)
               /\ stray' = TRUE /\ UNCHANGED servers
      BY <3>1, EditsOfProfiles DEF ConfigurationInv
    <3>2. CASE (\E next \in ServerEdits(servers) : servers' = next)
               /\ UNCHANGED << profiles, stray >>
      BY <3>2, EditsOfServers DEF ConfigurationInv
    <3>3. QED
      BY <1>7, <3>1, <3>2 DEF WritesOutside
  <2>2. /\ dialog' = [d \in Dialogs |-> [dialog[d] EXCEPT !.raced = @ \/ dialog[d].pc = "writes"]]
        /\ locked' = locked
    BY <1>7 DEF WritesOutside
  <2>3. ASSUME NEW d \in Dialogs
        PROVE  /\ dialog'[d] \in DialogRecords /\ dialog'[d].pc = dialog[d].pc
               /\ dialog'[d].shown = dialog[d].shown /\ dialog'[d].read = dialog[d].read
               /\ dialog'[d].next = dialog[d].next /\ dialog'[d].file = dialog[d].file
               /\ dialog[d].pc = "writes" => dialog'[d].raced
    BY <2>2 DEF ConfigurationInv, DialogRecords
  <2>4. dialog' \in [Dialogs -> DialogRecords]
    BY <2>2, <2>3
  <2>5. \A d \in Dialogs : Editing(dialog'[d]) <=> Editing(dialog[d])
    BY <2>3 DEF Editing
  <2>6. \A d \in Dialogs : Editing(dialog'[d]) => MadeOfShown(dialog'[d], stray')
    BY <2>1, <2>3, <2>5 DEF ConfigurationInv, MadeOfShown
  <2>7. NoEditIsLost'
    BY <2>3 DEF NoEditIsLost
  <2>8. QED
    BY <2>1, <2>2, <2>4, <2>5, <2>6, <2>7 DEF ConfigurationInv
<1>8. CASE UNCHANGED ConfigurationVars
  BY <1>8 DEF ConfigurationVars, ConfigurationInv, MadeOfShown, NoEditIsLost, Content
<1>9. QED
  BY <1>1, <1>2, <1>3, <1>4, <1>5, <1>6, <1>7, <1>8 DEF ConfigurationNext

\* However many dialogs and text editors race, no edit is lost, the active profile exists
\* and a review of any profile shows what a session of it attaches (edit, resolve).
THEOREM ConfigurationStaysSound == ConfigurationSpec => []ConfigurationIsSound
<1>1. ReviewShowsWhatRuns
  BY ReviewShows DEF ReviewShowsWhatRuns
<1>2. ConfigurationInv => ConfigurationIsSound
  BY <1>1 DEF ConfigurationInv, ConfigurationIsSound, EditsAreSound, ActiveProfileExists, HasActive
<1>3. QED
  BY <1>2, ConfigurationInitially, ConfigurationStep, PTL DEF ConfigurationSpec

------------------------------------------------------------------------------
(***************************************************************************)
(* Routing: how old what a poll uses can be.                               *)
(***************************************************************************)

LEMMA MinIsMember ==
  ASSUME NEW S \in SUBSET Nat, S # {}
  PROVE  Min(S) \in S
<1>1. PICK R : R = OpToRel(<, Nat)
  OBVIOUS
<1>2. IsWellFoundedOn(R, Nat)
  BY <1>1, NatLessThanWellFounded
<1>3. PICK x \in S : \A y \in S : ~(<< y, x >> \in R)
  BY <1>2, WFMin
<1>4. \A y \in S : x =< y
  <2>1. ASSUME NEW y \in S PROVE x =< y
    <3>1. ~(<< y, x >> \in R)
      BY <1>3
    <3>2. ~(y < x)
      <4>1. y \in Nat /\ x \in Nat
        OBVIOUS
      <4>2. QED
        BY <1>1, <3>1, <4>1 DEF OpToRel
    <3>3. QED
      BY <3>2
  <2>2. QED
    BY <2>1
<1>5. \E z \in S : \A y \in S : z =< y
  BY <1>4
<1>6. QED
  BY <1>5 DEF Min

Worlds == [focus : Identities, file : BindingFiles,
           ready : [RentedSessions -> SUBSET RoutedServers], latest : RentedSessions,
           driving : RentedSessions \cup {Nobody}]
Samples == [identity : Identities, age : 0..FocusTicks]
ReadFiles == [file : BindingFiles, age : 0..RefreshTicks]
ProbeRecords == [pc : {"none", "reads", "stores"}, age : 0..ProbeTicks, saw : SUBSET Identities]
Pasts == [focus : [Identities -> Nat], file : [BindingFiles -> Nat],
          ready : [RentedSessions -> SUBSET RoutedServers]]

RoutingTyped ==
  /\ world \in Worlds /\ refreshing \in BOOLEAN /\ poll \in Polls
  /\ focus \in SUBSET Samples /\ bindings \in SUBSET ReadFiles
  /\ probe \in ProbeRecords /\ recent \in Pasts

\* What is so now was so a moment ago.
RecentIsNow ==
  /\ recent.focus[world.focus] = 0 /\ recent.file[world.file] = 0
  /\ \A r \in RentedSessions : world.ready[r] \subseteq recent.ready[r]

\* A sample, and a file that was read, are of their age; the compositor was asked before.
SampleIsOfItsAge(s) == s.age < FocusTicks => recent.focus[s.identity] <= s.age + ProbeTicks
FileIsOfItsAge(b) == b.age < RefreshTicks => recent.file[b.file] <= b.age
AgesAreTrue ==
  /\ \A s \in focus : SampleIsOfItsAge(s)
  /\ \A b \in bindings : FileIsOfItsAge(b)
  /\ \A a, b \in bindings : a = b
  /\ \A i \in probe.saw : recent.focus[i] <= probe.age
  /\ probe.pc = "none" => probe.saw = {}

\* What a poll has taken was so a moment ago.
PollIsRecent ==
  /\ poll.pc # "none" => \A i \in poll.saw : recent.focus[i] < Window
  /\ poll.pc \in {"looks", "matches", "answers"} =>
       poll.id \in RentedSessions /\ poll.healthy \subseteq recent.ready[poll.id]

RoutingInv ==
  RoutingTyped /\ RecentIsNow /\ AgesAreTrue /\ PollIsRecent /\ RoutesOnRecentFacts
    /\ FocusCanBeRefreshed

LEMMA TicksAreNat ==
  /\ FocusTicks \in Nat /\ FocusTicks > 0 /\ RefreshTicks \in Nat /\ RefreshTicks > 0
  /\ ProbeTicks \in Nat /\ Window \in Nat /\ Window = FocusTicks + ProbeTicks
BY RoutingAssumption DEF Window

\* The server a poll prefers is bound, by a binding of the file, to the identity, and healthy.
LEMMA PreferredIsBound ==
  ASSUME NEW i, NEW f \in BindingFiles, NEW healthy, NEW s \in Preferred(i, f, healthy)
  PROVE  s \in healthy /\ \E n \in DOMAIN f : Matches(i, f[n]) /\ f[n].server = s
<1>1. PICK U : U = Usable(i, f, healthy)
  OBVIOUS
<1>2. U # {} /\ s = f[Min(U)].server
  BY <1>1 DEF Preferred
<1>3. U \in SUBSET Nat
  <2>1. f \in Seq([server : RoutedServers, class : STRING, exe : STRING])
    BY RoutingAssumption
  <2>2. DOMAIN f \subseteq Nat
    BY <2>1
  <2>3. QED
    BY <1>1, <2>2 DEF Usable
<1>4. Min(U) \in U
  BY <1>2, <1>3, MinIsMember
<1>5. QED
  BY <1>1, <1>2, <1>4 DEF Usable

\* What was recent stays recent, if no time passes and the poll goes on.
LEMMA RecentStays ==
  ASSUME RoutesOnRecentFacts, RoutingTyped, poll' = poll, recent' \in Pasts,
         \A i \in Identities : recent'.focus[i] <= recent.focus[i],
         \A f \in BindingFiles : recent'.file[f] <= recent.file[f],
         \A r \in RentedSessions : recent.ready[r] \subseteq recent'.ready[r],
         poll.pc = "answers" => poll.id \in RentedSessions
  PROVE  RoutesOnRecentFacts'
<1> SUFFICES ASSUME poll.pc = "answers", NEW s \in poll.preferred
             PROVE  /\ s \in recent'.ready[poll.id]
                    /\ \E i \in Identities, f \in BindingFiles :
                         /\ recent'.focus[i] < Window /\ recent'.file[f] < RefreshTicks
                         /\ \E n \in DOMAIN f : Matches(i, f[n]) /\ f[n].server = s
  BY DEF RoutesOnRecentFacts
<1>1. PICK i \in Identities, f \in BindingFiles :
        /\ recent.focus[i] < Window /\ recent.file[f] < RefreshTicks
        /\ \E n \in DOMAIN f : Matches(i, f[n]) /\ f[n].server = s
  BY DEF RoutesOnRecentFacts
<1>2. /\ recent.focus[i] \in Nat /\ recent.file[f] \in Nat
      /\ recent'.focus[i] \in Nat /\ recent'.file[f] \in Nat
  BY DEF RoutingTyped, Pasts
<1>3. recent'.focus[i] < Window /\ recent'.file[f] < RefreshTicks
  BY <1>1, <1>2, TicksAreNat
<1>4. s \in recent'.ready[poll.id]
  BY DEF RoutesOnRecentFacts
<1>5. QED
  BY <1>1, <1>3, <1>4

LEMMA NoPollIs ==
  /\ NoPoll \in Polls /\ NoPoll.pc = "none" /\ NoPoll.saw = {} /\ NoProbe \in ProbeRecords
  /\ NoProbe.pc = "none" /\ NoProbe.saw = {} /\ NoProbe.age = 0
<1>1. 0 \in 0..ProbeTicks
  BY TicksAreNat
<1>2. QED
  BY <1>1 DEF NoPoll, Polls, NoProbe, ProbeRecords

LEMMA RoutingInitially == RoutingInit => RoutingInv
<1> SUFFICES ASSUME RoutingInit PROVE RoutingInv
  OBVIOUS
<1>1. /\ focus = {} /\ bindings = {} /\ refreshing = FALSE /\ probe = NoProbe /\ poll = NoPoll
  BY DEF RoutingInit
<1>2. PICK f \in BindingFiles, i \in Identities, s \in RentedSessions :
        /\ world = [focus |-> i, file |-> f, ready |-> [r \in RentedSessions |-> {}],
                    latest |-> s, driving |-> Nobody]
        /\ recent = [focus |-> [j \in Identities |-> IF j = i THEN 0 ELSE Window],
                     file |-> [g \in BindingFiles |-> IF g = f THEN 0 ELSE RefreshTicks],
                     ready |-> [r \in RentedSessions |-> {}]]
  BY DEF RoutingInit
<1>3. PICK none : none = [r \in RentedSessions |-> {}]
  OBVIOUS
<1>4. none \in [RentedSessions -> SUBSET RoutedServers]
  BY <1>3
<1>5. PICK a, b : /\ a = [j \in Identities |-> IF j = i THEN 0 ELSE Window]
                  /\ b = [g \in BindingFiles |-> IF g = f THEN 0 ELSE RefreshTicks]
  OBVIOUS
<1>6. a \in [Identities -> Nat] /\ b \in [BindingFiles -> Nat] /\ a[i] = 0 /\ b[f] = 0
  BY <1>5, TicksAreNat
<1>7. world = [focus |-> i, file |-> f, ready |-> none, latest |-> s, driving |-> Nobody]
  BY <1>2, <1>3
<1>8. recent = [focus |-> a, file |-> b, ready |-> none]
  BY <1>2, <1>3, <1>5
<1>9. world \in Worlds /\ recent \in Pasts
  BY <1>4, <1>6, <1>7, <1>8 DEF Worlds, Pasts
<1>10. RoutingTyped
  BY <1>1, <1>9, NoPollIs DEF RoutingTyped
<1>11. RecentIsNow
  BY <1>6, <1>7, <1>8 DEF RecentIsNow
<1>12. AgesAreTrue
  BY <1>1, NoPollIs DEF AgesAreTrue
<1>13. PollIsRecent /\ RoutesOnRecentFacts /\ FocusCanBeRefreshed
  BY <1>1, NoPollIs DEF PollIsRecent, RoutesOnRecentFacts, FocusCanBeRefreshed
<1>14. QED
  BY <1>10, <1>11, <1>12, <1>13 DEF RoutingInv

\* The world changes: what is new was so just now, and the rest as it was.
LEMMA WorldIsStep ==
  ASSUME RoutingInv, NEW w \in Worlds, WorldIs(w) PROVE RoutingInv'
<1>0. /\ RoutingTyped /\ RecentIsNow /\ AgesAreTrue /\ PollIsRecent /\ RoutesOnRecentFacts
      /\ FocusCanBeRefreshed
  BY DEF RoutingInv
<1>1. /\ world' = w /\ UNCHANGED << focus, bindings, probe, refreshing, poll >>
      /\ recent' = [focus |-> [recent.focus EXCEPT ![w.focus] = 0],
                    file |-> [recent.file EXCEPT ![w.file] = 0],
                    ready |-> [r \in RentedSessions |-> recent.ready[r] \cup w.ready[r]]]
  BY DEF WorldIs
<1>2. PICK a, b, c : /\ a = [recent.focus EXCEPT ![w.focus] = 0]
                     /\ b = [recent.file EXCEPT ![w.file] = 0]
                     /\ c = [r \in RentedSessions |-> recent.ready[r] \cup w.ready[r]]
  OBVIOUS
<1>3. /\ recent.focus \in [Identities -> Nat] /\ recent.file \in [BindingFiles -> Nat]
      /\ recent.ready \in [RentedSessions -> SUBSET RoutedServers]
      /\ w.focus \in Identities /\ w.file \in BindingFiles
      /\ w.ready \in [RentedSessions -> SUBSET RoutedServers]
  BY <1>0 DEF RoutingTyped, Pasts, Worlds
<1>4. /\ a \in [Identities -> Nat] /\ b \in [BindingFiles -> Nat]
      /\ c \in [RentedSessions -> SUBSET RoutedServers]
      /\ a[w.focus] = 0 /\ b[w.file] = 0
      /\ \A i \in Identities : a[i] <= recent.focus[i]
      /\ \A f \in BindingFiles : b[f] <= recent.file[f]
      /\ \A r \in RentedSessions : recent.ready[r] \subseteq c[r] /\ w.ready[r] \subseteq c[r]
  BY <1>2, <1>3
<1>5. recent' = [focus |-> a, file |-> b, ready |-> c]
  BY <1>1, <1>2
<1>6. recent' \in Pasts /\ recent'.focus = a /\ recent'.file = b /\ recent'.ready = c
  BY <1>4, <1>5 DEF Pasts
<1>7. RoutingTyped'
  BY <1>0, <1>1, <1>6 DEF RoutingTyped
<1>8. RecentIsNow'
  BY <1>1, <1>4, <1>6 DEF RecentIsNow
<1>9. AgesAreTrue'
  <2>1. ASSUME NEW s \in focus PROVE SampleIsOfItsAge(s)'
    <3>1. s.identity \in Identities /\ s.age \in Nat /\ SampleIsOfItsAge(s)
      BY <1>0, TicksAreNat DEF RoutingTyped, Samples, AgesAreTrue
    <3>2. /\ a[s.identity] \in Nat /\ recent.focus[s.identity] \in Nat
          /\ a[s.identity] <= recent.focus[s.identity]
      BY <1>3, <1>4, <3>1
    <3>3. QED
      BY <1>6, <3>1, <3>2, TicksAreNat DEF SampleIsOfItsAge
  <2>2. ASSUME NEW q \in bindings PROVE FileIsOfItsAge(q)'
    <3>1. q.file \in BindingFiles /\ q.age \in Nat /\ FileIsOfItsAge(q)
      BY <1>0, TicksAreNat DEF RoutingTyped, ReadFiles, AgesAreTrue
    <3>2. b[q.file] \in Nat /\ recent.file[q.file] \in Nat /\ b[q.file] <= recent.file[q.file]
      BY <1>3, <1>4, <3>1
    <3>3. QED
      BY <1>6, <3>1, <3>2 DEF FileIsOfItsAge
  <2>3. ASSUME NEW i \in probe.saw PROVE a[i] <= probe.age
    <3>1. i \in Identities /\ probe.age \in Nat /\ recent.focus[i] <= probe.age
      BY <1>0, TicksAreNat DEF RoutingTyped, ProbeRecords, AgesAreTrue
    <3>2. a[i] \in Nat /\ recent.focus[i] \in Nat /\ a[i] <= recent.focus[i]
      BY <1>3, <1>4, <3>1
    <3>3. QED
      BY <3>1, <3>2
  <2>4. QED
    BY <1>0, <1>1, <1>6, <2>1, <2>2, <2>3 DEF AgesAreTrue
<1>10. PollIsRecent'
  <2>1. ASSUME poll.pc # "none", NEW i \in poll.saw PROVE a[i] < Window
    <3>1. i \in Identities /\ recent.focus[i] < Window
      BY <1>0, <2>1 DEF RoutingTyped, Polls, PollIsRecent
    <3>2. a[i] \in Nat /\ recent.focus[i] \in Nat /\ a[i] <= recent.focus[i]
      BY <1>3, <1>4, <3>1
    <3>3. QED
      BY <3>1, <3>2, TicksAreNat
  <2>2. ASSUME poll.pc \in {"looks", "matches", "answers"}
        PROVE  poll.id \in RentedSessions /\ poll.healthy \subseteq c[poll.id]
    BY <1>0, <1>4, <2>2 DEF PollIsRecent
  <2>3. QED
    BY <1>1, <1>6, <2>1, <2>2 DEF PollIsRecent
<1>11. RoutesOnRecentFacts'
  BY <1>0, <1>1, <1>4, <1>6, RecentStays DEF PollIsRecent
<1>12. FocusCanBeRefreshed'
  BY <1>0, <1>1 DEF FocusCanBeRefreshed
<1>13. QED
  BY <1>7, <1>8, <1>9, <1>10, <1>11, <1>12 DEF RoutingInv

LEMMA WorldChangesStep == ASSUME RoutingInv, WorldChanges PROVE RoutingInv'
<1>0. world \in Worlds
  BY DEF RoutingInv, RoutingTyped
<1>1. ASSUME NEW i \in Identities, WorldIs([world EXCEPT !.focus = i]) PROVE RoutingInv'
  <2>1. PICK w : w = [world EXCEPT !.focus = i]
    OBVIOUS
  <2>2. w \in Worlds
    BY <1>0, <2>1 DEF Worlds
  <2>3. QED
    BY <1>1, <2>1, <2>2, WorldIsStep
<1>2. ASSUME NEW f \in BindingFiles, WorldIs([world EXCEPT !.file = f]) PROVE RoutingInv'
  <2>1. PICK w : w = [world EXCEPT !.file = f]
    OBVIOUS
  <2>2. w \in Worlds
    BY <1>0, <2>1 DEF Worlds
  <2>3. QED
    BY <1>2, <2>1, <2>2, WorldIsStep
<1>3. ASSUME NEW r \in RentedSessions, NEW S \in SUBSET RoutedServers,
             WorldIs([world EXCEPT !.ready[r] = S, !.latest = r])
      PROVE  RoutingInv'
  <2>1. PICK w : w = [world EXCEPT !.ready[r] = S, !.latest = r]
    OBVIOUS
  <2>2. PICK v : v = [world.ready EXCEPT ![r] = S]
    OBVIOUS
  <2>3. v \in [RentedSessions -> SUBSET RoutedServers]
    BY <1>0, <2>2 DEF Worlds
  <2>4. w = [world EXCEPT !.ready = v, !.latest = r]
    BY <1>0, <2>1, <2>2 DEF Worlds
  <2>5. w \in Worlds
    BY <1>0, <2>3, <2>4 DEF Worlds
  <2>6. QED
    BY <1>3, <2>1, <2>5, WorldIsStep
<1>4. ASSUME NEW r \in RentedSessions \cup {Nobody}, WorldIs([world EXCEPT !.driving = r])
      PROVE  RoutingInv'
  <2>1. PICK w : w = [world EXCEPT !.driving = r]
    OBVIOUS
  <2>2. w \in Worlds
    BY <1>0, <2>1 DEF Worlds
  <2>3. QED
    BY <1>4, <2>1, <2>2, WorldIsStep
<1>5. QED
  BY <1>1, <1>2, <1>3, <1>4 DEF WorldChanges

\* A step of the poll alone.
LEMMA PollGoes ==
  ASSUME RoutingInv, UNCHANGED << world, focus, bindings, recent >>, poll' \in Polls,
         UNCHANGED << probe, refreshing >>,
         PollIsRecent', RoutesOnRecentFacts', FocusCanBeRefreshed'
  PROVE  RoutingInv'
<1>1. RoutingTyped'
  BY DEF RoutingInv, RoutingTyped
<1>2. RecentIsNow'
  BY DEF RoutingInv, RecentIsNow
<1>3. AgesAreTrue'
  BY DEF RoutingInv, AgesAreTrue, SampleIsOfItsAge, FileIsOfItsAge
<1>4. QED
  BY <1>1, <1>2, <1>3 DEF RoutingInv

LEMMA PollBeginsStep == ASSUME RoutingInv, PollBegins PROVE RoutingInv'
<1>0. RoutingTyped /\ RecentIsNow /\ AgesAreTrue /\ FocusCanBeRefreshed
  BY DEF RoutingInv
<1>1. UNCHANGED << world, focus, bindings, probe, refreshing >>
  BY DEF PollBegins
<1>2. PICK d : d = world.driving
  OBVIOUS
<1>3. PICK q : q = [NoPoll EXCEPT !.pc = "chooses", !.driving = d]
  OBVIOUS
<1>4. q \in Polls /\ q.pc = "chooses" /\ q.saw = {}
  <2>1. d \in RentedSessions \cup {Nobody}
    BY <1>0, <1>2 DEF RoutingTyped, Worlds
  <2>2. QED
    BY <1>3, <2>1, NoPollIs DEF Polls
<1>5. poll' = q
  BY <1>2, <1>3 DEF PollBegins
<1>6. PICK v : v = world.ready
  OBVIOUS
<1>7. v \in [RentedSessions -> SUBSET RoutedServers] /\ recent' = [recent EXCEPT !.ready = v]
  BY <1>0, <1>6 DEF RoutingTyped, Worlds, PollBegins
<1>8. /\ recent' \in Pasts /\ recent'.focus = recent.focus /\ recent'.file = recent.file
      /\ recent'.ready = v
  BY <1>0, <1>7 DEF RoutingTyped, Pasts
<1>9. RoutingTyped'
  BY <1>0, <1>1, <1>4, <1>5, <1>8 DEF RoutingTyped
<1>10. RecentIsNow'
  BY <1>0, <1>1, <1>6, <1>8 DEF RecentIsNow
<1>11. AgesAreTrue'
  BY <1>0, <1>1, <1>8 DEF AgesAreTrue, SampleIsOfItsAge, FileIsOfItsAge
<1>12. PollIsRecent' /\ RoutesOnRecentFacts'
  BY <1>4, <1>5 DEF PollIsRecent, RoutesOnRecentFacts
<1>13. FocusCanBeRefreshed'
  BY <1>0, <1>1 DEF FocusCanBeRefreshed
<1>14. QED
  BY <1>9, <1>10, <1>11, <1>12, <1>13 DEF RoutingInv

LEMMA PollChoosesStep == ASSUME RoutingInv, PollChooses PROVE RoutingInv'
<1>0. /\ RoutingTyped /\ RecentIsNow /\ PollIsRecent /\ FocusCanBeRefreshed
      /\ poll \in Polls /\ poll.pc = "chooses" /\ world \in Worlds
  BY DEF RoutingInv, RoutingTyped, PollChooses
<1>1. UNCHANGED << world, focus, bindings, probe, refreshing, recent >>
  BY DEF PollChooses
<1>2. PICK id : id = IF poll.driving # Nobody THEN poll.driving ELSE world.latest
  OBVIOUS
<1>3. id \in RentedSessions
  BY <1>0, <1>2 DEF Polls, Worlds
<1>4. PICK h : h = world.ready[id]
  OBVIOUS
<1>5. h \in SUBSET RoutedServers /\ h \subseteq recent.ready[id]
  BY <1>0, <1>3, <1>4 DEF Worlds, RecentIsNow
<1>6. poll' = [poll EXCEPT !.pc = "looks", !.id = id, !.healthy = h]
  BY <1>2, <1>4 DEF PollChooses
<1>7. /\ poll' \in Polls /\ poll'.pc = "looks" /\ poll'.saw = poll.saw
      /\ poll'.id = id /\ poll'.healthy = h
  BY <1>0, <1>3, <1>5, <1>6 DEF Polls
<1>8. PollIsRecent'
  BY <1>0, <1>1, <1>3, <1>5, <1>7 DEF PollIsRecent
<1>9. RoutesOnRecentFacts' /\ FocusCanBeRefreshed'
  BY <1>0, <1>1, <1>7 DEF RoutesOnRecentFacts, FocusCanBeRefreshed
<1>10. QED
  BY <1>0, <1>1, <1>7, <1>8, <1>9, PollGoes DEF RoutingTyped

LEMMA PollLooksStep == ASSUME RoutingInv, PollLooks PROVE RoutingInv'
<1>0. /\ RoutingTyped /\ AgesAreTrue /\ PollIsRecent /\ FocusCanBeRefreshed
      /\ poll \in Polls /\ poll.pc = "looks"
  BY DEF RoutingInv, RoutingTyped, PollLooks
<1>1. UNCHANGED << world, focus, bindings, recent >>
  BY DEF PollLooks
<1>2. ASSUME NEW i \in SampleSeen PROVE i \in Identities /\ recent.focus[i] < Window
  <2>1. PICK s \in focus : s.age < FocusTicks /\ i = s.identity
    BY DEF SampleSeen, FreshSamples
  <2>2. s.identity \in Identities /\ s.age \in Nat /\ SampleIsOfItsAge(s)
    BY <1>0, TicksAreNat DEF RoutingTyped, Samples, AgesAreTrue
  <2>3. recent.focus[i] \in Nat
    BY <1>0, <2>1, <2>2 DEF RoutingTyped, Pasts
  <2>4. QED
    BY <2>1, <2>2, <2>3, TicksAreNat DEF SampleIsOfItsAge
<1>3. PICK S : S = SampleSeen
  OBVIOUS
<1>4. poll' = [poll EXCEPT !.pc = "matches", !.saw = S]
  BY <1>3 DEF PollLooks
<1>5. S \in SUBSET Identities
  BY <1>2, <1>3
<1>6. /\ poll' \in Polls /\ poll'.pc = "matches" /\ poll'.saw = S
      /\ poll'.id = poll.id /\ poll'.healthy = poll.healthy
  BY <1>0, <1>4, <1>5 DEF Polls
<1>7. PollIsRecent'
  BY <1>0, <1>1, <1>2, <1>3, <1>6 DEF PollIsRecent
<1>8. RoutesOnRecentFacts'
  BY <1>6 DEF RoutesOnRecentFacts
<1>9. CASE UNCHANGED << probe, refreshing >>
  BY <1>0, <1>1, <1>6, <1>7, <1>8, <1>9, PollGoes DEF RoutingTyped, FocusCanBeRefreshed
<1>10. CASE probe' = [NoProbe EXCEPT !.pc = "reads"] /\ refreshing' = TRUE /\ ~refreshing
  <2>1. PICK p : p = [NoProbe EXCEPT !.pc = "reads"]
    OBVIOUS
  <2>2. p \in ProbeRecords /\ p.pc = "reads" /\ p.saw = {} /\ p.age = 0
    BY <2>1, NoPollIs DEF ProbeRecords
  <2>3. probe' = p
    BY <1>10, <2>1
  <2>4. RoutingTyped'
    BY <1>0, <1>1, <1>6, <1>10, <2>2, <2>3 DEF RoutingTyped
  <2>5. RecentIsNow'
    BY <1>1 DEF RoutingInv, RecentIsNow
  <2>6. AgesAreTrue'
    BY <1>0, <1>1, <2>2, <2>3 DEF AgesAreTrue, SampleIsOfItsAge, FileIsOfItsAge
  <2>7. FocusCanBeRefreshed'
    BY <2>2, <2>3 DEF FocusCanBeRefreshed
  <2>8. QED
    BY <1>7, <1>8, <2>4, <2>5, <2>6, <2>7 DEF RoutingInv
<1>11. QED
  BY <1>9, <1>10 DEF PollLooks

LEMMA PollMatchesStep == ASSUME RoutingInv, PollMatches PROVE RoutingInv'
<1>0. /\ RoutingTyped /\ RecentIsNow /\ AgesAreTrue /\ PollIsRecent /\ FocusCanBeRefreshed
      /\ poll \in Polls /\ poll.pc = "matches" /\ world \in Worlds /\ recent \in Pasts
  BY DEF RoutingInv, RoutingTyped, PollMatches
<1>1. UNCHANGED << world, focus, probe, refreshing, recent >>
  BY DEF PollMatches
<1>2. /\ bindings' \in SUBSET ReadFiles /\ \A a, b \in bindings' : a = b
      /\ \A b \in bindings' : recent.file[b.file] <= b.age /\ b.age < RefreshTicks
  <2>1. CASE CurrentBindings # {}
    <3>1. bindings' = bindings
      BY <2>1 DEF PollMatches
    <3>2. \A b \in bindings : b.age < RefreshTicks
      BY <1>0, <2>1 DEF CurrentBindings, AgesAreTrue
    <3>3. QED
      BY <1>0, <3>1, <3>2 DEF RoutingTyped, AgesAreTrue, FileIsOfItsAge
  <2>2. CASE CurrentBindings = {}
    <3>1. PICK f : f = world.file
      OBVIOUS
    <3>2. PICK b : b = [file |-> f, age |-> 0]
      OBVIOUS
    <3>3. bindings' = {b}
      BY <2>2, <3>1, <3>2 DEF PollMatches
    <3>4. f \in BindingFiles /\ recent.file[f] = 0
      BY <1>0, <3>1 DEF Worlds, RecentIsNow
    <3>5. b \in ReadFiles /\ b.file = f /\ b.age = 0
      BY <3>2, <3>4, TicksAreNat DEF ReadFiles
    <3>6. QED
      BY <3>3, <3>4, <3>5, TicksAreNat
  <2>3. QED
    BY <2>1, <2>2
<1> DEFINE S == UNION {Preferred(i, b.file, poll.healthy) : i \in poll.saw, b \in bindings'}
<1>4. ASSUME NEW s \in S
      PROVE  /\ s \in poll.healthy
             /\ \E i \in Identities, f \in BindingFiles :
                  /\ recent.focus[i] < Window /\ recent.file[f] < RefreshTicks
                  /\ \E n \in DOMAIN f : Matches(i, f[n]) /\ f[n].server = s
  <2>1. PICK i \in poll.saw, b \in bindings' : s \in Preferred(i, b.file, poll.healthy)
    OBVIOUS
  <2>2. PICK f : f = b.file
    OBVIOUS
  <2>3. /\ i \in Identities /\ f \in BindingFiles /\ recent.focus[i] < Window
        /\ b.age \in Nat /\ recent.file[f] <= b.age /\ b.age < RefreshTicks
    BY <1>0, <1>2, <2>2, TicksAreNat DEF Polls, PollIsRecent, ReadFiles
  <2>4. recent.file[f] \in Nat
    BY <1>0, <2>3 DEF Pasts
  <2>5. recent.file[f] < RefreshTicks
    BY <2>3, <2>4, TicksAreNat
  <2>6. s \in poll.healthy /\ \E n \in DOMAIN f : Matches(i, f[n]) /\ f[n].server = s
    <3>1. PICK h : h = poll.healthy
      OBVIOUS
    <3>2. s \in Preferred(i, f, h)
      BY <2>1, <2>2, <3>1
    <3>3. s \in h /\ \E n \in DOMAIN f : Matches(i, f[n]) /\ f[n].server = s
      BY <2>3, <3>2, PreferredIsBound
    <3>4. QED
      BY <3>1, <3>3
  <2>7. QED
    BY <2>3, <2>5, <2>6
<1>5. S \in SUBSET RoutedServers
  BY <1>0, <1>4 DEF Polls
<1>6. poll' = [poll EXCEPT !.pc = "answers", !.preferred = S]
  BY DEF PollMatches
<1> HIDE DEF S
<1>7. /\ poll' \in Polls /\ poll'.pc = "answers" /\ poll'.saw = poll.saw
      /\ poll'.id = poll.id /\ poll'.healthy = poll.healthy /\ poll'.preferred = S
  BY <1>0, <1>5, <1>6 DEF Polls
<1>8. poll.id \in RentedSessions /\ poll.healthy \subseteq recent.ready[poll.id]
  BY <1>0 DEF PollIsRecent
<1>9. RoutingTyped'
  BY <1>0, <1>1, <1>2, <1>7 DEF RoutingTyped
<1>10. RecentIsNow'
  BY <1>0, <1>1 DEF RecentIsNow
<1>11. AgesAreTrue'
  BY <1>0, <1>1, <1>2 DEF AgesAreTrue, SampleIsOfItsAge, FileIsOfItsAge
<1>12. PollIsRecent'
  BY <1>0, <1>1, <1>7, <1>8 DEF PollIsRecent
<1>13. RoutesOnRecentFacts'
  BY <1>1, <1>4, <1>7, <1>8 DEF RoutesOnRecentFacts
<1>14. FocusCanBeRefreshed'
  BY <1>0, <1>1 DEF FocusCanBeRefreshed
<1>15. QED
  BY <1>9, <1>10, <1>11, <1>12, <1>13, <1>14 DEF RoutingInv

LEMMA PollAnswersStep == ASSUME RoutingInv, PollAnswers PROVE RoutingInv'
<1>1. poll' = NoPoll /\ UNCHANGED << world, focus, bindings, probe, refreshing, recent >>
  BY DEF PollAnswers
<1>2. PollIsRecent' /\ RoutesOnRecentFacts' /\ FocusCanBeRefreshed'
  BY <1>1, NoPollIs DEF RoutingInv, PollIsRecent, RoutesOnRecentFacts, FocusCanBeRefreshed
<1>3. QED
  BY <1>1, <1>2, NoPollIs, PollGoes DEF RoutingInv, RoutingTyped

LEMMA ProbeStep ==
  ASSUME RoutingInv, ProbeReads \/ \E panics \in BOOLEAN : ProbeEnds(panics)
  PROVE  RoutingInv'
<1>0. /\ RoutingTyped /\ RecentIsNow /\ AgesAreTrue /\ FocusCanBeRefreshed
      /\ probe \in ProbeRecords /\ world \in Worlds /\ recent \in Pasts
  BY DEF RoutingInv, RoutingTyped
<1>1. ASSUME UNCHANGED << world, poll, recent >> PROVE PollIsRecent' /\ RoutesOnRecentFacts'
                                                       /\ RecentIsNow'
  BY <1>1 DEF RoutingInv, PollIsRecent, RoutesOnRecentFacts, RecentIsNow
<1>2. CASE ProbeReads
  <2>1. /\ UNCHANGED << world, focus, bindings, refreshing, poll, recent >>
        /\ probe' = [probe EXCEPT !.pc = "stores", !.saw = {world.focus}]
    BY <1>2 DEF ProbeReads
  <2>2. PICK S : S = {world.focus}
    OBVIOUS
  <2>3. S \in SUBSET Identities /\ \A i \in S : recent.focus[i] = 0
    BY <1>0, <2>2 DEF Worlds, RecentIsNow
  <2>4. /\ probe' \in ProbeRecords /\ probe'.pc = "stores" /\ probe'.saw = S /\ probe'.age = probe.age
        /\ probe.age \in Nat
    <3>1. probe' = [probe EXCEPT !.pc = "stores", !.saw = S]
      BY <2>1, <2>2
    <3>2. /\ probe' \in ProbeRecords /\ probe'.pc = "stores" /\ probe'.saw = S
          /\ probe'.age = probe.age
      BY <1>0, <2>3, <3>1 DEF ProbeRecords
    <3>3. QED
      BY <1>0, <3>2, TicksAreNat DEF ProbeRecords
  <2>5. RoutingTyped'
    BY <1>0, <2>1, <2>4 DEF RoutingTyped
  <2>6. AgesAreTrue'
    BY <1>0, <2>1, <2>3, <2>4 DEF AgesAreTrue, SampleIsOfItsAge, FileIsOfItsAge
  <2>7. FocusCanBeRefreshed'
    BY <2>4 DEF FocusCanBeRefreshed
  <2>8. QED
    BY <1>1, <2>1, <2>5, <2>6, <2>7 DEF RoutingInv
<1>3. ASSUME NEW panics \in BOOLEAN, ProbeEnds(panics) PROVE RoutingInv'
  <2>1. /\ UNCHANGED << world, bindings, poll, recent >> /\ probe' = NoProbe
        /\ refreshing' = FALSE
        /\ focus' = IF panics THEN focus ELSE {[identity |-> i, age |-> 0] : i \in probe.saw}
    BY <1>3 DEF ProbeEnds, Cleared
  <2>2. \A s \in focus' : s \in Samples /\ SampleIsOfItsAge(s)
    <3>1. CASE focus' = focus
      BY <1>0, <3>1 DEF RoutingTyped, AgesAreTrue
    <3>2. ASSUME NEW i \in probe.saw, NEW s, s = [identity |-> i, age |-> 0]
          PROVE  s \in Samples /\ SampleIsOfItsAge(s)
      <4>1. i \in Identities /\ recent.focus[i] \in Nat /\ recent.focus[i] <= ProbeTicks
        <5>1. i \in Identities /\ probe.age \in 0..ProbeTicks /\ recent.focus[i] <= probe.age
          BY <1>0 DEF ProbeRecords, AgesAreTrue
        <5>2. recent.focus[i] \in Nat
          BY <1>0, <5>1 DEF Pasts
        <5>3. QED
          BY <5>1, <5>2, TicksAreNat
      <4>2. s.identity = i /\ s.age = 0 /\ s \in Samples
        BY <3>2, <4>1, TicksAreNat DEF Samples
      <4>3. QED
        BY <4>1, <4>2, TicksAreNat DEF SampleIsOfItsAge
    <3>3. QED
      BY <2>1, <3>1, <3>2
  <2>3. RoutingTyped'
    BY <1>0, <2>1, <2>2, NoPollIs DEF RoutingTyped
  <2>4. AgesAreTrue'
    BY <1>0, <2>1, <2>2, NoPollIs DEF AgesAreTrue, SampleIsOfItsAge, FileIsOfItsAge
  <2>5. FocusCanBeRefreshed'
    BY <2>1 DEF FocusCanBeRefreshed
  <2>6. QED
    BY <1>1, <2>1, <2>3, <2>4, <2>5 DEF RoutingInv
<1>4. QED
  BY <1>2, <1>3

LEMMA RoutingTickStep == ASSUME RoutingInv, RoutingTick PROVE RoutingInv'
<1>0. /\ RoutingTyped /\ RecentIsNow /\ AgesAreTrue /\ FocusCanBeRefreshed
      /\ probe \in ProbeRecords /\ world \in Worlds /\ recent \in Pasts /\ poll.pc = "none"
  BY DEF RoutingInv, RoutingTyped, RoutingTick
<1>1. UNCHANGED << world, refreshing, poll >>
  BY DEF RoutingTick
<1>2. PICK a, b :
        /\ a = [i \in Identities |-> IF i = world.focus THEN 0 ELSE Aged(recent.focus[i], Window)]
        /\ b = [f \in BindingFiles |-> IF f = world.file THEN 0
                                       ELSE Aged(recent.file[f], RefreshTicks)]
  OBVIOUS
<1>3. recent' = [recent EXCEPT !.focus = a, !.file = b]
  BY <1>0, <1>2 DEF RoutingTick, Pasts
<1>4. /\ recent.focus \in [Identities -> Nat] /\ recent.file \in [BindingFiles -> Nat]
      /\ world.focus \in Identities /\ world.file \in BindingFiles
  BY <1>0 DEF Pasts, Worlds
<1>5. /\ a \in [Identities -> Nat] /\ b \in [BindingFiles -> Nat]
      /\ a[world.focus] = 0 /\ b[world.file] = 0
      /\ \A i \in Identities : a[i] <= recent.focus[i] + 1
      /\ \A f \in BindingFiles : b[f] <= recent.file[f] + 1
  BY <1>2, <1>4, TicksAreNat DEF Aged
<1>6. /\ recent' \in Pasts /\ recent'.focus = a /\ recent'.file = b /\ recent'.ready = recent.ready
  BY <1>0, <1>3, <1>5 DEF Pasts
<1>7. /\ focus' = {[s EXCEPT !.age = Aged(@, FocusTicks)] : s \in focus}
      /\ bindings' = {[q EXCEPT !.age = Aged(@, RefreshTicks)] : q \in bindings}
      /\ probe' = IF probe.pc = "none" THEN probe ELSE [probe EXCEPT !.age = @ + 1]
      /\ probe.pc # "none" => probe.age < ProbeTicks
  BY DEF RoutingTick
<1>8. ASSUME NEW s \in focus, NEW t, t = [s EXCEPT !.age = Aged(@, FocusTicks)]
      PROVE  t \in Samples /\ SampleIsOfItsAge(t)'
  <2>1. PICK n : n = Aged(s.age, FocusTicks)
    OBVIOUS
  <2>2. s \in Samples /\ SampleIsOfItsAge(s) /\ s.age \in Nat /\ s.age <= FocusTicks
    BY <1>0, TicksAreNat DEF RoutingTyped, AgesAreTrue, Samples
  <2>3. n \in 0..FocusTicks /\ (n < FocusTicks => n = s.age + 1)
    BY <2>1, <2>2, TicksAreNat DEF Aged
  <2>4. t = [s EXCEPT !.age = n]
    BY <1>8, <2>1
  <2>5. t \in Samples /\ t.age = n /\ t.identity = s.identity /\ s.identity \in Identities
    BY <2>2, <2>3, <2>4 DEF Samples
  <2>6. a[s.identity] \in Nat /\ recent.focus[s.identity] \in Nat
        /\ a[s.identity] <= recent.focus[s.identity] + 1
    BY <1>4, <1>5, <2>5
  <2>7. n < FocusTicks => a[s.identity] <= n + ProbeTicks
    BY <2>2, <2>3, <2>6, TicksAreNat DEF SampleIsOfItsAge
  <2>8. QED
    BY <1>6, <2>5, <2>7 DEF SampleIsOfItsAge
<1>9. ASSUME NEW q \in bindings, NEW t, t = [q EXCEPT !.age = Aged(@, RefreshTicks)]
      PROVE  t \in ReadFiles /\ FileIsOfItsAge(t)'
  <2>1. PICK n : n = Aged(q.age, RefreshTicks)
    OBVIOUS
  <2>2. q \in ReadFiles /\ FileIsOfItsAge(q) /\ q.age \in Nat /\ q.age <= RefreshTicks
    BY <1>0, TicksAreNat DEF RoutingTyped, AgesAreTrue, ReadFiles
  <2>3. n \in 0..RefreshTicks /\ (n < RefreshTicks => n = q.age + 1)
    BY <2>1, <2>2, TicksAreNat DEF Aged
  <2>4. t = [q EXCEPT !.age = n]
    BY <1>9, <2>1
  <2>5. t \in ReadFiles /\ t.age = n /\ t.file = q.file /\ q.file \in BindingFiles
    BY <2>2, <2>3, <2>4 DEF ReadFiles
  <2>6. b[q.file] \in Nat /\ recent.file[q.file] \in Nat
        /\ b[q.file] <= recent.file[q.file] + 1
    BY <1>4, <1>5, <2>5
  <2>7. n < RefreshTicks => b[q.file] <= n
    BY <2>2, <2>3, <2>6, TicksAreNat DEF FileIsOfItsAge
  <2>8. QED
    BY <1>6, <2>5, <2>7 DEF FileIsOfItsAge
<1>10. /\ probe' \in ProbeRecords /\ probe'.pc = probe.pc
       /\ \A i \in probe'.saw : a[i] <= probe'.age
       /\ probe'.pc = "none" => probe'.saw = {}
  <2>1. CASE probe.pc = "none"
    <3>1. probe' = probe
      BY <1>7, <2>1
    <3>2. probe.saw = {}
      BY <1>0, <2>1 DEF AgesAreTrue
    <3>3. QED
      BY <1>0, <3>1, <3>2
  <2>2. CASE probe.pc # "none"
    <3>1. PICK n : n = probe.age + 1
      OBVIOUS
    <3>2. probe.age \in Nat /\ n \in 0..ProbeTicks /\ probe' = [probe EXCEPT !.age = n]
      BY <1>0, <1>7, <2>2, <3>1, TicksAreNat DEF ProbeRecords
    <3>3. probe' \in ProbeRecords /\ probe'.pc = probe.pc /\ probe'.saw = probe.saw /\ probe'.age = n
      BY <1>0, <3>2 DEF ProbeRecords
    <3>4. ASSUME NEW i \in probe.saw PROVE a[i] <= n
      <4>1. i \in Identities /\ recent.focus[i] <= probe.age
        BY <1>0 DEF ProbeRecords, AgesAreTrue
      <4>2. a[i] \in Nat /\ recent.focus[i] \in Nat /\ a[i] <= recent.focus[i] + 1
        BY <1>4, <1>5, <4>1
      <4>3. QED
        BY <3>1, <3>2, <4>1, <4>2
    <3>5. QED
      BY <2>2, <3>3, <3>4
  <2>3. QED
    BY <2>1, <2>2
<1>11. RoutingTyped'
  BY <1>0, <1>1, <1>6, <1>7, <1>8, <1>9, <1>10 DEF RoutingTyped
<1>12. RecentIsNow'
  BY <1>0, <1>1, <1>5, <1>6 DEF RecentIsNow
<1>13. AgesAreTrue'
  <2>1. \A s \in focus' : SampleIsOfItsAge(s)'
    BY <1>7, <1>8
  <2>2. \A q \in bindings' : FileIsOfItsAge(q)'
    BY <1>7, <1>9
  <2>3. \A p, q \in bindings' : p = q
    BY <1>0, <1>7 DEF AgesAreTrue
  <2>4. QED
    BY <1>6, <1>10, <2>1, <2>2, <2>3 DEF AgesAreTrue
<1>14. PollIsRecent' /\ RoutesOnRecentFacts'
  BY <1>0, <1>1 DEF PollIsRecent, RoutesOnRecentFacts
<1>15. FocusCanBeRefreshed'
  BY <1>0, <1>1, <1>10 DEF FocusCanBeRefreshed
<1>16. QED
  BY <1>11, <1>12, <1>13, <1>14, <1>15 DEF RoutingInv

LEMMA RoutingStep == RoutingInv /\ [RoutingNext]_RoutingVars => RoutingInv'
<1> SUFFICES ASSUME RoutingInv, [RoutingNext]_RoutingVars PROVE RoutingInv'
  OBVIOUS
<1>1. CASE UNCHANGED RoutingVars
  BY <1>1 DEF RoutingVars, RoutingInv, RoutingTyped, RecentIsNow, AgesAreTrue, SampleIsOfItsAge,
              FileIsOfItsAge, PollIsRecent, RoutesOnRecentFacts, FocusCanBeRefreshed
<1>2. QED
  BY <1>1, WorldChangesStep, RoutingTickStep, PollBeginsStep, PollChoosesStep, PollLooksStep,
     PollMatchesStep, PollAnswersStep, ProbeStep DEF RoutingNext

\* What a poll prefers was ready in its session during the poll, bound by the file of the
\* last second and focused no longer ago than a sample lives and a probe takes, and the
\* focus can always be read again (companion_session, cached_focus, explain_preferred).
THEOREM RoutingStaysCurrent == RoutingSpec => []RoutingIsCurrent
<1>1. RoutingInv => RoutingIsCurrent
  BY DEF RoutingInv, RoutingIsCurrent
<1>2. QED
  BY <1>1, RoutingInitially, RoutingStep, PTL DEF RoutingSpec

------------------------------------------------------------------------------
(***************************************************************************)
(* Login: what becomes of a token between the operations of one entry.     *)
(***************************************************************************)

Tokens == {NoToken} \cup [session : 0..MaxOps, gen : Nat]
OpKinds == {"none", "click", "sign_in", "refresh", "logout"}
OpSteps == {"idle", "binds", "device", "listens", "exchanges", "waits", "polls", "stores",
            "has access", "reads", "refresh", "logout", "puts", "deletes", "over"}
Outcomes == {"none", "denied", "mismatch", "timeout", "failed", "expired", "in", "out"}
OpRecords == [kind : OpKinds, pc : OpSteps, port : Ports \cup {0},
              user : {"none", "asked", "approved", "declined"}, outcome : Outcomes,
              token : Tokens, answer : {"none", "revoked", "refused", "failed"},
              left : Int, interval : Int, waited : Int, asked : Int]

\* The steps of a sign-in before the issuer grants anything.
Ungranted == {"idle", "binds", "device", "listens", "exchanges", "waits", "polls"}

\* A token of a session that was granted is no newer than the issuer's newest.
TokenFits(t) ==
  t # NoToken =>
    /\ granted[t.session] = -1 \/ t.gen <= granted[t.session]
    /\ t.session \in LoginOps => op[t.session].pc \notin Ungranted

OpFits(q) ==
  /\ q.interval = q.asked
  /\ q.pc = "polls" => q.waited >= q.asked /\ q.left > 0
  /\ q.outcome = "denied" => q.user = "declined"
  /\ q.pc \in {"exchanges", "stores", "has access"} => q.user = "approved"
  /\ q.pc \in {"idle", "binds", "device"} => q.user = "none"
  /\ q.outcome # "none" => q.pc = "over"
  /\ q.pc = "reads" => q.kind \in {"refresh", "logout"} /\ q.token = NoToken
  /\ q.pc \in {"refresh", "logout", "puts"} => q.token # NoToken

\* What is about to be deleted is dead, unless the issuer refused to end it.
DeletesRightly(q) ==
  q.pc = "deletes" => q.token = NoToken \/ ~Lives(q.token) \/ q.answer = "refused"

KeyIsSpent(o) == op[o].kind = "click" /\ op[o].outcome = "in"

LoginInv ==
  /\ op \in [LoginOps -> OpRecords] /\ granted \in [0..MaxOps -> Int] /\ entry \in Tokens
  /\ redirects \subseteq LoginOps /\ keyFile \in BOOLEAN
  /\ \A o \in LoginOps : OpFits(op[o]) /\ DeletesRightly(op[o]) /\ TokenFits(op[o].token)
  /\ TokenFits(entry)
  /\ \A o \in redirects : op[o].user \in {"approved", "declined"}
  /\ ~keyFile => \E o \in LoginOps : KeyIsSpent(o)

LEMMA LoginInitially == LoginInit => LoginInv
<1> SUFFICES ASSUME LoginInit PROVE LoginInv
  OBVIOUS
<1> USE LoginAssumption
<1>1. NoOp \in OpRecords /\ OpFits(NoOp) /\ NoOp.token = NoToken /\ NoOp.pc = "idle"
  BY DEF NoOp, OpRecords, OpKinds, OpSteps, Outcomes, Tokens, OpFits
<1>2. First \in Tokens /\ First.session = 0 /\ First.gen = 0 /\ First # NoToken
  BY DEF First, NoToken, Tokens
<1>3. op \in [LoginOps -> OpRecords] /\ \A o \in LoginOps : op[o] = NoOp
  BY <1>1 DEF LoginInit
<1>4. granted \in [0..MaxOps -> Int]
  BY DEF LoginInit
<1>5. TokenFits(entry)
  BY <1>2 DEF LoginInit, TokenFits, LoginOps
<1>6. \A o \in LoginOps : OpFits(op[o]) /\ DeletesRightly(op[o]) /\ TokenFits(op[o].token)
  BY <1>1, <1>3 DEF DeletesRightly, TokenFits
<1>7. entry \in Tokens /\ redirects = {} /\ keyFile = TRUE
  BY <1>2 DEF LoginInit, Tokens
<1>8. QED
  BY <1>3, <1>4, <1>5, <1>6, <1>7 DEF LoginInv

\* What may become of the issuer's sessions while operation o makes a step.
GrantsMove(o) ==
  /\ granted' \in [0..MaxOps -> Int]
  /\ \A s \in 0..MaxOps :
       \/ granted'[s] = granted[s] \/ granted'[s] = -1
       \/ granted[s] >= 0 /\ granted'[s] >= granted[s]
       \/ s = o /\ op[o].pc \in Ungranted

\* A token that fits still does, and one that died stays dead.
LEMMA TokensStay ==
  ASSUME NEW o, GrantsMove(o), LoginInv, NEW t \in Tokens, TokenFits(t),
         \A p \in LoginOps : op'[p].pc \in Ungranted => op[p].pc \in Ungranted,
         o \in LoginOps
  PROVE  TokenFits(t)' /\ (~Lives(t) => ~Lives(t)')
<1> USE LoginAssumption
<1>0. CASE t = NoToken
  BY <1>0 DEF TokenFits, Lives, NoToken
<1>1. CASE t # NoToken
  <2>1. t.session \in 0..MaxOps /\ t.gen \in Nat /\ t.gen # -1
    BY <1>1 DEF Tokens
  <2>2. PICK s \in 0..MaxOps : s = t.session
    BY <2>1
  <2>3. PICK a \in Int, b \in Int : a = granted[s] /\ b = granted'[s]
    BY DEF LoginInv, GrantsMove
  <2>4. (a = -1 \/ t.gen <= a) /\ (s \in LoginOps => op[s].pc \notin Ungranted)
    BY <1>1, <2>2, <2>3 DEF TokenFits
  <2>5. b = a \/ b = -1 \/ (a >= 0 /\ b >= a)
    BY <2>2, <2>3, <2>4 DEF GrantsMove
  <2>6. (b = -1 \/ t.gen <= b) /\ (t.gen # a => t.gen # b)
    BY <2>1, <2>3, <2>4, <2>5
  <2>7. QED
    BY <2>1, <2>2, <2>3, <2>4, <2>6 DEF TokenFits, Lives
<1>2. QED
  BY <1>0, <1>1

\* Operation o makes a step and becomes q.
LEMMA LoginGoes ==
  ASSUME LoginInv, NEW o \in LoginOps, NEW q \in OpRecords,
         op' = [op EXCEPT ![o] = q], OpFits(q), GrantsMove(o),
         q.pc \in Ungranted => op[o].pc \in Ungranted,
         entry' \in {entry, NoToken, op[o].token},
         q.token \in {NoToken, op[o].token, entry} \/ TokenFits(q.token)',
         q.pc = "deletes" => \/ q.token = NoToken \/ ~Lives(q.token)' \/ q.answer = "refused",
         op[o].user \in {"approved", "declined"} => q.user = op[o].user,
         op[o].outcome # "none" => q.outcome = op[o].outcome /\ q.kind = op[o].kind,
         redirects' \subseteq LoginOps,
         \A r \in redirects' : r \in redirects \/ (r = o /\ q.user \in {"approved", "declined"}),
         keyFile' \in BOOLEAN,
         ~keyFile' => ~keyFile \/ (q.kind = "click" /\ q.outcome = "in")
  PROVE  LoginInv'
<1>1. op' \in [LoginOps -> OpRecords] /\ op'[o] = q /\ \A p \in LoginOps : p # o => op'[p] = op[p]
  BY DEF LoginInv
<1>2. \A p \in LoginOps : op'[p].pc \in Ungranted => op[p].pc \in Ungranted
  BY <1>1
<1>3. \A t \in Tokens : TokenFits(t) => TokenFits(t)' /\ (~Lives(t) => ~Lives(t)')
  BY <1>2, TokensStay
<1>4. NoToken \in Tokens /\ TokenFits(NoToken)
  BY DEF Tokens, TokenFits
<1>5. \A p \in LoginOps : op[p] \in OpRecords /\ op[p].token \in Tokens /\ TokenFits(op[p].token)
  BY DEF LoginInv, OpRecords
<1>6. entry' \in Tokens
  BY <1>4, <1>5 DEF LoginInv
<1>7. \A t \in {entry, NoToken, op[o].token} : TokenFits(t)'
  BY <1>3, <1>4, <1>5 DEF LoginInv
<1>8. TokenFits(entry)'
  BY <1>7 DEF TokenFits
<1>9. ASSUME NEW p \in LoginOps
      PROVE  OpFits(op'[p]) /\ DeletesRightly(op[p])' /\ TokenFits(op[p].token)'
  <2>1. CASE p = o
    <3>1. TokenFits(q.token)'
      BY <1>7
    <3>2. QED
      BY <1>1, <2>1, <3>1 DEF DeletesRightly, TokenFits, Lives
  <2>2. CASE p # o
    <3>1. PICK x : x = op[p]
      OBVIOUS
    <3>2. x \in OpRecords /\ OpFits(x) /\ DeletesRightly(x) /\ TokenFits(x.token) /\ x.token \in Tokens
      BY <3>1, <1>5 DEF LoginInv
    <3>3. op'[p] = x
      BY <1>1, <2>2, <3>1
    <3>4. TokenFits(x.token)' /\ (~Lives(x.token) => ~Lives(x.token)')
      BY <1>3, <3>2
    <3>5. QED
      BY <3>2, <3>3, <3>4 DEF DeletesRightly, TokenFits, Lives
  <2>3. QED
    BY <2>1, <2>2
<1>10. \A r \in redirects' : op'[r].user \in {"approved", "declined"}
  BY <1>1 DEF LoginInv
<1>11. ASSUME ~keyFile' PROVE \E p \in LoginOps : KeyIsSpent(p)'
  <2>1. CASE q.kind = "click" /\ q.outcome = "in"
    BY <1>1, <2>1 DEF KeyIsSpent
  <2>2. CASE ~keyFile
    <3>1. PICK p \in LoginOps : KeyIsSpent(p)
      BY <2>2 DEF LoginInv
    <3>2. KeyIsSpent(p)'
      BY <1>1, <3>1 DEF KeyIsSpent
    <3>3. QED
      BY <3>2
  <2>3. QED
    BY <1>11, <2>1, <2>2
<1>12. \A p \in LoginOps : OpFits(op[p])'
  BY <1>9 DEF OpFits
<1>13. QED
  BY <1>1, <1>6, <1>8, <1>9, <1>10, <1>11, <1>12 DEF LoginInv, GrantsMove

\* An operation under way returns.
LEMMA LoginReturns ==
  ASSUME LoginInv, NEW o \in LoginOps, NEW outcome \in Outcomes, OpReturns(o, outcome),
         op[o].pc # "over", outcome = "denied" => op[o].user = "declined",
         GrantsMove(o), entry' \in {entry, NoToken, op[o].token}, redirects' \subseteq redirects,
         keyFile' \in BOOLEAN,
         ~keyFile' => ~keyFile \/ (op[o].kind = "click" /\ outcome = "in")
  PROVE  LoginInv'
<1>1. PICK q : q = [NoOp EXCEPT !.kind = op[o].kind, !.pc = "over", !.port = op[o].port,
                                !.user = op[o].user, !.outcome = outcome]
  OBVIOUS
<1>2. op[o] \in OpRecords /\ OpFits(op[o])
  BY DEF LoginInv
<1>3. /\ q \in OpRecords /\ q.pc = "over" /\ q.kind = op[o].kind /\ q.user = op[o].user
      /\ q.outcome = outcome /\ q.token = NoToken /\ q.interval = q.asked
  <2>1. PICK k, p, u : k = op[o].kind /\ p = op[o].port /\ u = op[o].user
    OBVIOUS
  <2>2. q = [kind |-> k, pc |-> "over", port |-> p, user |-> u, outcome |-> outcome,
             token |-> NoToken, answer |-> "none", left |-> 0, interval |-> 0, waited |-> 0,
             asked |-> 0]
    BY <1>1, <2>1 DEF NoOp
  <2>3. k \in OpKinds /\ p \in Ports \cup {0} /\ u \in {"none", "asked", "approved", "declined"}
    BY <1>2, <2>1 DEF OpRecords
  <2>4. NoToken \in Tokens /\ "over" \in OpSteps
    BY DEF Tokens, OpSteps
  <2>5. QED
    BY <2>1, <2>2, <2>3, <2>4 DEF OpRecords
<1>4. OpFits(q)
  BY <1>3 DEF OpFits
<1>5. op' = [op EXCEPT ![o] = q]
  BY <1>1 DEF OpReturns
<1>6. op[o].outcome = "none" /\ q.pc \notin Ungranted
  BY <1>2, <1>3 DEF OpFits, Ungranted
<1>7. redirects' \subseteq LoginOps
  BY DEF LoginInv
<1>8. q.pc # "deletes"
  BY <1>3
<1>9. QED
  BY <1>3, <1>4, <1>5, <1>6, <1>7, <1>8, LoginGoes

\* Where the issuer does nothing.
LEMMA NothingGranted ==
  ASSUME LoginInv, NEW o, UNCHANGED granted
  PROVE  GrantsMove(o)
BY DEF LoginInv, GrantsMove

LEMMA OpIs ==
  ASSUME LoginInv, NEW o \in LoginOps
  PROVE  op[o] \in OpRecords /\ OpFits(op[o]) /\ DeletesRightly(op[o]) /\ TokenFits(op[o].token)
BY DEF LoginInv

\* Operation o moves on, and holds the token it had; nothing is granted or stored.
LEMMA LoginMoves ==
  ASSUME LoginInv, NEW o \in LoginOps, NEW q \in OpRecords,
         op' = [op EXCEPT ![o] = q], OpFits(q), UNCHANGED << entry, granted, keyFile >>,
         q.pc \in Ungranted => op[o].pc \in Ungranted, q.token \in {NoToken, op[o].token},
         q.pc = "deletes" => \/ q.token = NoToken \/ ~Lives(q.token) \/ q.answer = "refused",
         op[o].user \in {"approved", "declined"} => q.user = op[o].user,
         op[o].outcome # "none" => q.outcome = op[o].outcome /\ q.kind = op[o].kind,
         redirects' \subseteq LoginOps,
         \A r \in redirects' : r \in redirects \/ (r = o /\ q.user \in {"approved", "declined"})
  PROVE  LoginInv'
<1>1. GrantsMove(o) /\ keyFile' \in BOOLEAN
  BY NothingGranted DEF LoginInv
<1>2. Lives(q.token)' <=> Lives(q.token)
  BY DEF Lives
<1>3. QED
  BY <1>1, <1>2, LoginGoes

LEMMA BeginsOpStep == ASSUME LoginInv, NEW o \in LoginOps, BeginsOp(o) PROVE LoginInv'
<1>1. PICK k \in {"click", "sign_in", "refresh", "logout"},
           pc \in {"binds", "device", "reads"} :
        /\ op' = [op EXCEPT ![o] = [NoOp EXCEPT !.kind = k, !.pc = pc]]
        /\ pc = "reads" => k \in {"refresh", "logout"}
  BY DEF BeginsOp
<1>2. PICK q : q = [NoOp EXCEPT !.kind = k, !.pc = pc]
  OBVIOUS
<1>3. /\ q \in OpRecords /\ q.pc = pc /\ q.kind = k /\ q.user = "none" /\ q.outcome = "none"
      /\ q.token = NoToken /\ q.interval = q.asked
  <2>1. q = [kind |-> k, pc |-> pc, port |-> 0, user |-> "none", outcome |-> "none",
             token |-> NoToken, answer |-> "none", left |-> 0, interval |-> 0, waited |-> 0,
             asked |-> 0]
    BY <1>2 DEF NoOp
  <2>2. k \in OpKinds /\ pc \in OpSteps /\ NoToken \in Tokens /\ "none" \in Outcomes
    BY DEF OpKinds, OpSteps, Outcomes, Tokens
  <2>3. QED
    BY <2>1, <2>2 DEF OpRecords
<1>4. OpFits(q)
  BY <1>1, <1>3 DEF OpFits
<1>5. op[o].pc = "idle" /\ op[o].user = "none" /\ op[o].outcome = "none"
  BY OpIs DEF BeginsOp, Doing, OpFits
<1>6. op' = [op EXCEPT ![o] = q] /\ UNCHANGED << entry, granted, keyFile, redirects >>
  BY <1>1, <1>2 DEF BeginsOp
<1>7. q.pc # "deletes" /\ op[o].pc \in Ungranted
  BY <1>3, <1>5 DEF Ungranted
<1>8. redirects' \subseteq LoginOps
  BY <1>6 DEF LoginInv
<1>9. QED
  BY <1>3, <1>4, <1>5, <1>6, <1>7, <1>8, LoginMoves

LEMMA OpensTabStep == ASSUME LoginInv, NEW o \in LoginOps, OpensTab(o) PROVE LoginInv'
<1>1. PICK x : x = op[o]
  OBVIOUS
<1>2. x \in OpRecords /\ OpFits(x) /\ x.pc = "binds" /\ x.user = "none" /\ x.outcome = "none"
  BY <1>1, OpIs DEF OpensTab, Doing, OpFits
<1>3. redirects' = redirects /\ redirects \subseteq LoginOps
  BY DEF OpensTab, LoginInv
<1>4. ASSUME NEW q \in OpRecords, op' = [op EXCEPT ![o] = q], q.pc \in {"listens", "device"},
             q.user \in {"none", "asked"}, q.pc = "device" => q.user = "none",
             q.token = x.token, q.outcome = x.outcome, q.kind = x.kind, q.interval = q.asked
      PROVE  LoginInv'
  <2>1. OpFits(q)
    BY <1>2, <1>4 DEF OpFits
  <2>2. op[o].pc \in Ungranted /\ q.pc # "deletes"
    BY <1>1, <1>2, <1>4 DEF Ungranted
  <2>3. UNCHANGED << entry, granted, keyFile >>
    BY DEF OpensTab
  <2>4. QED
    BY <1>1, <1>2, <1>3, <1>4, <2>1, <2>2, <2>3, LoginMoves
<1>5. ASSUME NEW port \in Ports,
             op' = [op EXCEPT ![o].pc = "listens", ![o].port = port, ![o].user = "asked"]
      PROVE  LoginInv'
  <2>1. PICK q : q = [x EXCEPT !.pc = "listens", !.port = port, !.user = "asked"]
    OBVIOUS
  <2>2. op' = [op EXCEPT ![o] = q]
    BY <1>1, <1>5, <2>1
  <2>3. /\ q \in OpRecords /\ q.pc = "listens" /\ q.user = "asked" /\ q.token = x.token
        /\ q.outcome = x.outcome /\ q.kind = x.kind /\ q.interval = x.interval /\ q.asked = x.asked
    BY <1>2, <2>1 DEF OpRecords, OpSteps
  <2>4. QED
    BY <1>2, <1>4, <2>2, <2>3 DEF OpFits
<1>6. ASSUME op' = [op EXCEPT ![o].pc = "device"] PROVE LoginInv'
  <2>1. PICK q : q = [x EXCEPT !.pc = "device"]
    OBVIOUS
  <2>2. op' = [op EXCEPT ![o] = q]
    BY <1>1, <1>6, <2>1
  <2>3. /\ q \in OpRecords /\ q.pc = "device" /\ q.user = "none" /\ q.token = x.token
        /\ q.outcome = x.outcome /\ q.kind = x.kind /\ q.interval = x.interval /\ q.asked = x.asked
    BY <1>2, <2>1 DEF OpRecords, OpSteps
  <2>4. QED
    BY <1>2, <1>4, <2>2, <2>3 DEF OpFits
<1>7. QED
  BY <1>5, <1>6 DEF OpensTab, Proceeds

\* Operation o goes on as q, which differs from it in its step alone.
GoesOnAs(q, o, pc) ==
  /\ op' = [op EXCEPT ![o] = q] /\ q.pc = pc
  /\ q.kind = op[o].kind /\ q.user = op[o].user /\ q.outcome = op[o].outcome
  /\ q.token = op[o].token /\ q.answer = op[o].answer
  /\ q.interval = op[o].interval /\ q.asked = op[o].asked

LEMMA OpProceeds ==
  ASSUME LoginInv, NEW o \in LoginOps, NEW pc \in OpSteps, Proceeds(o, pc)
  PROVE  \E q \in OpRecords : GoesOnAs(q, o, pc)
<1>1. PICK x : x = op[o]
  OBVIOUS
<1>2. PICK q : q = [x EXCEPT !.pc = pc]
  OBVIOUS
<1>3. x \in OpRecords
  BY <1>1, OpIs
<1>4. q \in OpRecords
  BY <1>2, <1>3 DEF OpRecords
<1>5. op' = [op EXCEPT ![o] = q]
  BY <1>1, <1>2 DEF Proceeds
<1>6. QED
  BY <1>1, <1>2, <1>3, <1>4, <1>5 DEF OpRecords, GoesOnAs

LEMMA AnswersStep ==
  ASSUME LoginInv, NEW o \in LoginOps, AnswersInTab(o) \/ AnswersOnDevice(o)
  PROVE  LoginInv'
<1>1. PICK word \in {"approved", "declined"} : op' = [op EXCEPT ![o].user = word]
  BY DEF AnswersInTab, AnswersOnDevice
<1>2. PICK x : x = op[o]
  OBVIOUS
<1>3. PICK q : q = [x EXCEPT !.user = word]
  OBVIOUS
<1>4. x \in OpRecords /\ OpFits(x) /\ DeletesRightly(x) /\ x.user = "asked"
  BY <1>2, OpIs DEF AnswersInTab, AnswersOnDevice
<1>5. /\ q \in OpRecords /\ q.pc = x.pc /\ q.kind = x.kind /\ q.user = word
      /\ q.outcome = x.outcome /\ q.token = x.token /\ q.answer = x.answer
      /\ q.left = x.left /\ q.interval = x.interval /\ q.waited = x.waited /\ q.asked = x.asked
  BY <1>3, <1>4 DEF OpRecords
<1>6. op' = [op EXCEPT ![o] = q]
  BY <1>1, <1>2, <1>3
<1>7. OpFits(q)
  BY <1>4, <1>5 DEF OpFits
<1>8. /\ UNCHANGED << entry, granted, keyFile >> /\ redirects' \subseteq LoginOps
      /\ \A r \in redirects' : r \in redirects \/ r = o
  BY DEF AnswersInTab, AnswersOnDevice, LoginInv
<1>9. q.pc = "deletes" => q.token = NoToken \/ ~Lives(q.token) \/ q.answer = "refused"
  BY <1>4, <1>5 DEF DeletesRightly
<1>10. QED
  BY <1>2, <1>4, <1>5, <1>6, <1>7, <1>8, <1>9, LoginMoves

LEMMA TakesCallbackStep == ASSUME LoginInv, NEW o \in LoginOps, TakesCallback(o) PROVE LoginInv'
<1>1. PICK r \in redirects :
        /\ redirects' = redirects \ {r}
        /\ IF Callback(o, r) = "code" THEN Proceeds(o, "exchanges")
           ELSE OpReturns(o, Callback(o, r))
  BY DEF TakesCallback
<1>2. /\ op[o].pc = "listens" /\ UNCHANGED << entry, granted, keyFile >>
      /\ redirects' \subseteq redirects /\ redirects' \subseteq LoginOps
  BY <1>1 DEF TakesCallback, Doing, LoginInv
<1>3. op[r].user \in {"approved", "declined"}
  BY DEF LoginInv
<1>4. CASE Callback(o, r) = "code"
  <2>1. op[o].user = "approved"
    BY <1>3, <1>4 DEF Callback
  <2>2. PICK q \in OpRecords : GoesOnAs(q, o, "exchanges")
    BY <1>1, <1>4, OpProceeds DEF OpSteps
  <2>3. op[o].pc \in Ungranted /\ q.pc # "deletes"
    BY <1>2, <2>2 DEF Ungranted, GoesOnAs
  <2>4. OpFits(q)
    BY <1>2, <2>1, <2>2, OpIs DEF OpFits, GoesOnAs
  <2>5. QED
    BY <1>2, <2>2, <2>3, <2>4, LoginMoves DEF GoesOnAs
<1>5. CASE Callback(o, r) # "code"
  <2>1. PICK said \in {"mismatch", "denied"} : said = Callback(o, r)
    BY <1>5 DEF Callback
  <2>2. Callback(o, r) = "denied" => r = o /\ op[r].user = "declined"
    <3>1. CASE r # o
      BY <3>1 DEF Callback
    <3>2. CASE r = o /\ op[r].user # "declined"
      BY <3>2 DEF Callback
    <3>3. QED
      BY <3>1, <3>2
  <2>3. OpReturns(o, said) /\ said \in Outcomes
    BY <1>1, <1>5, <2>1 DEF Outcomes
  <2>4. keyFile' \in BOOLEAN /\ GrantsMove(o)
    BY <1>2, NothingGranted DEF LoginInv
  <2>5. said = "denied" => op[o].user = "declined"
    BY <2>1, <2>2
  <2>6. QED
    BY <1>2, <2>3, <2>4, <2>5, LoginReturns
<1>6. QED
  BY <1>4, <1>5

LEMMA FailsStep ==
  ASSUME LoginInv, NEW o \in LoginOps, NEW outcome \in {"timeout", "failed", "expired", "out"},
         OpReturns(o, outcome), op[o].pc # "over", UNCHANGED << granted, redirects, keyFile >>,
         entry' \in {entry, NoToken, op[o].token}
  PROVE  LoginInv'
<1>1. GrantsMove(o) /\ keyFile' \in BOOLEAN /\ outcome \in Outcomes
  BY NothingGranted DEF LoginInv, Outcomes
<1>2. QED
  BY <1>1, LoginReturns

LEMMA IsRefusedStep == ASSUME LoginInv, NEW o, IsRefused(o) PROVE LoginInv'
BY DEF IsRefused, LoginInv, DeletesRightly, Lives, TokenFits, KeyIsSpent

LEMMA TimesOutStep == ASSUME LoginInv, NEW o \in LoginOps, TimesOut(o) PROVE LoginInv'
BY FailsStep DEF TimesOut, Doing

\* The issuer grants operation o a session.
LEMMA GrantsStep ==
  ASSUME LoginInv, NEW o \in LoginOps, Grants(o), op[o].pc \in {"exchanges", "polls"},
         op[o].user = "approved", UNCHANGED << entry, redirects, keyFile >>
  PROVE  LoginInv'
<1> USE LoginAssumption
<1>1. PICK t \in {NoToken, [session |-> o, gen |-> 0]} :
        op' = [op EXCEPT ![o].pc = "stores", ![o].token = t]
  BY DEF Grants
<1>2. PICK x : x = op[o]
  OBVIOUS
<1>3. PICK q : q = [x EXCEPT !.pc = "stores", !.token = t]
  OBVIOUS
<1>4. x \in OpRecords /\ OpFits(x) /\ x.pc \in Ungranted /\ x.user = "approved"
  BY <1>2, OpIs DEF Ungranted
<1>5. t \in Tokens
  BY DEF Tokens, LoginOps
<1>6. /\ q \in OpRecords /\ q.pc = "stores" /\ q.kind = x.kind /\ q.user = x.user
      /\ q.outcome = x.outcome /\ q.token = t /\ q.interval = x.interval /\ q.asked = x.asked
  BY <1>3, <1>4, <1>5 DEF OpRecords, OpSteps
<1>7. op' = [op EXCEPT ![o] = q]
  BY <1>1, <1>2, <1>3
<1>8. OpFits(q)
  BY <1>4, <1>6 DEF OpFits, Ungranted
<1>9. GrantsMove(o) /\ granted'[o] = 0
  BY <1>2, <1>4 DEF Grants, GrantsMove, LoginInv, LoginOps
<1>10. op'[o].pc \notin Ungranted
  BY <1>6, <1>7 DEF LoginInv, Ungranted
<1>11. TokenFits(t)'
  BY <1>9, <1>10 DEF TokenFits
<1>12. q.pc # "deletes" /\ q.pc \notin Ungranted
  BY <1>6 DEF Ungranted
<1>13. redirects' \subseteq LoginOps /\ keyFile' \in BOOLEAN
  BY DEF LoginInv
<1>14. QED
  BY <1>2, <1>6, <1>7, <1>8, <1>9, <1>11, <1>12, <1>13, LoginGoes

LEMMA ExchangesStep == ASSUME LoginInv, NEW o \in LoginOps, Exchanges(o) PROVE LoginInv'
<1>1. op[o].pc = "exchanges" /\ op[o].user = "approved" /\ UNCHANGED << entry, redirects, keyFile >>
  BY OpIs DEF Exchanges, Doing, OpFits
<1>2. CASE Grants(o)
  BY <1>1, <1>2, GrantsStep
<1>3. CASE OpReturns(o, "failed") /\ UNCHANGED granted
  BY <1>1, <1>3, FailsStep
<1>4. QED
  BY <1>2, <1>3 DEF Exchanges

LEMMA StartsDeviceStep == ASSUME LoginInv, NEW o \in LoginOps, StartsDevice(o) PROVE LoginInv'
<1> USE LoginAssumption
<1>1. PICK x : x = op[o]
  OBVIOUS
<1>2. /\ x \in OpRecords /\ OpFits(x) /\ x.pc = "device" /\ x.user = "none" /\ x.outcome = "none"
      /\ UNCHANGED << entry, granted, redirects, keyFile >> /\ redirects \subseteq LoginOps
  BY <1>1, OpIs DEF StartsDevice, Doing, OpFits, LoginInv
<1>3. CASE op' = [op EXCEPT ![o].pc = "waits", ![o].user = "asked", ![o].left = Expiry,
                            ![o].interval = Interval, ![o].asked = Interval]
  <2>1. PICK q : q = [x EXCEPT !.pc = "waits", !.user = "asked", !.left = Expiry,
                               !.interval = Interval, !.asked = Interval]
    OBVIOUS
  <2>2. op' = [op EXCEPT ![o] = q]
    BY <1>1, <1>3, <2>1
  <2>3. Expiry \in Int /\ Interval \in Int
    OBVIOUS
  <2>4. /\ q \in OpRecords /\ q.pc = "waits" /\ q.user = "asked" /\ q.token = x.token
        /\ q.outcome = x.outcome /\ q.kind = x.kind /\ q.interval = Interval /\ q.asked = Interval
    BY <1>2, <2>1, <2>3 DEF OpRecords, OpSteps
  <2>5. OpFits(q) /\ op[o].pc \in Ungranted
    BY <1>1, <1>2, <2>4 DEF OpFits, Ungranted
  <2>6. q.pc # "deletes" /\ redirects' \subseteq LoginOps
    BY <1>2, <2>4
  <2>7. QED
    BY <1>1, <1>2, <2>2, <2>4, <2>5, <2>6, LoginMoves
<1>4. CASE OpReturns(o, "failed")
  BY <1>1, <1>2, <1>4, FailsStep
<1>5. QED
  BY <1>3, <1>4 DEF StartsDevice

\* A poll comes after the whole interval, since less was left only if the time was over.
LEMMA SleepsFor ==
  ASSUME NEW a \in Int, NEW b \in Int, NEW late \in 0..1, Min({a, b}) + late < b
  PROVE  Min({a, b}) + late \in Int /\ Min({a, b}) + late >= a
<1>1. \E m \in {a, b} : \A y \in {a, b} : m <= y
  OBVIOUS
<1>2. Min({a, b}) \in {a, b} /\ \A y \in {a, b} : Min({a, b}) <= y
  BY <1>1 DEF Min
<1>3. QED
  BY <1>2

LEMMA SleepsStep == ASSUME LoginInv, NEW o \in LoginOps, Sleeps(o) PROVE LoginInv'
<1>1. PICK x : x = op[o]
  OBVIOUS
<1>2. /\ x \in OpRecords /\ OpFits(x) /\ x.pc = "waits" /\ x.outcome = "none"
      /\ UNCHANGED << entry, granted, redirects, keyFile >> /\ redirects \subseteq LoginOps
  BY <1>1, OpIs DEF Sleeps, Doing, OpFits, LoginInv
<1>0. PICK late \in 0..1 : \E waited :
        /\ waited = Min({x.interval, x.left}) + late
        /\ IF waited >= x.left THEN OpReturns(o, "expired")
           ELSE op' = [op EXCEPT ![o].pc = "polls", ![o].left = @ - waited, ![o].waited = waited]
  BY <1>1 DEF Sleeps
<1>3. PICK waited :
        /\ waited = Min({x.interval, x.left}) + late
        /\ IF waited >= x.left THEN OpReturns(o, "expired")
           ELSE op' = [op EXCEPT ![o].pc = "polls", ![o].left = @ - waited, ![o].waited = waited]
  BY <1>0
<1>4. CASE waited >= x.left
  BY <1>1, <1>2, <1>3, <1>4, FailsStep
<1>5. CASE ~(waited >= x.left)
  <2>1. PICK a \in Int, b \in Int : a = x.interval /\ b = x.left
    BY <1>2 DEF OpRecords
  <2>2. waited \in Int /\ waited >= a /\ b - waited > 0
    <3>1. Min({a, b}) \in Int
      <4>1. \E m \in {a, b} : \A y \in {a, b} : m <= y
        OBVIOUS
      <4>2. QED
        BY <4>1 DEF Min
    <3>2. waited \in Int /\ Min({a, b}) + late < b
      BY <1>3, <1>5, <2>1, <3>1
    <3>3. QED
      BY <1>3, <2>1, <3>2, SleepsFor
  <2>3. PICK left \in Int : left = b - waited
    BY <2>2
  <2>4. PICK q : q = [x EXCEPT !.pc = "polls", !.left = left, !.waited = waited]
    OBVIOUS
  <2>5. op' = [op EXCEPT ![o] = q]
    BY <1>1, <1>3, <1>5, <2>1, <2>3, <2>4
  <2>6. /\ q \in OpRecords /\ q.pc = "polls" /\ q.user = x.user /\ q.token = x.token
        /\ q.outcome = x.outcome /\ q.kind = x.kind /\ q.interval = a /\ q.asked = x.asked
        /\ q.left = left /\ q.waited = waited
    BY <1>2, <2>1, <2>2, <2>4 DEF OpRecords, OpSteps
  <2>7. OpFits(q) /\ op[o].pc \in Ungranted
    BY <1>1, <1>2, <2>1, <2>2, <2>3, <2>6 DEF OpFits, Ungranted
  <2>8. q.pc # "deletes" /\ redirects' \subseteq LoginOps
    BY <1>2, <2>6
  <2>9. QED
    BY <1>1, <1>2, <2>5, <2>6, <2>7, <2>8, LoginMoves
<1>6. QED
  BY <1>4, <1>5

LEMMA PollsIssuerStep == ASSUME LoginInv, NEW o \in LoginOps, PollsIssuer(o) PROVE LoginInv'
<1> USE LoginAssumption
<1>1. PICK x : x = op[o]
  OBVIOUS
<1>2. /\ x \in OpRecords /\ OpFits(x) /\ x.pc = "polls" /\ x.outcome = "none"
      /\ UNCHANGED << entry, redirects, keyFile >> /\ redirects \subseteq LoginOps
  BY <1>1, OpIs DEF PollsIssuer, Doing, OpFits, LoginInv
<1>3. CASE op[o].user = "approved" /\ Grants(o)
  BY <1>1, <1>2, <1>3, GrantsStep
<1>4. CASE op[o].user = "declined" /\ OpReturns(o, "denied") /\ UNCHANGED granted
  <2>1. GrantsMove(o) /\ keyFile' \in BOOLEAN /\ "denied" \in Outcomes
    BY <1>2, <1>4, NothingGranted DEF LoginInv, Outcomes
  <2>2. QED
    BY <1>1, <1>2, <1>4, <2>1, LoginReturns
<1>5. CASE OpReturns(o, "failed") /\ UNCHANGED granted
  BY <1>1, <1>2, <1>5, FailsStep
<1>6. ASSUME NEW took \in 0..1, NEW slow \in BOOLEAN, op[o].user = "asked", UNCHANGED granted,
             op' = [op EXCEPT ![o].pc = "waits", ![o].left = op[o].left - took, ![o].waited = 0,
                              ![o].interval = IF slow THEN SlowedDown(o) ELSE @,
                              ![o].asked = IF slow THEN @ + Interval ELSE @]
      PROVE  LoginInv'
  <2>1. PICK a \in Int, left \in Int : a = (IF slow THEN x.asked + Interval ELSE x.asked)
                                       /\ left = x.left - took
    BY <1>2 DEF OpRecords
  <2>2. a = (IF slow THEN SlowedDown(o) ELSE x.interval)
    BY <1>1, <1>2, <2>1 DEF SlowedDown, OpFits
  <2>0. PICK none \in Int : none = 0
    OBVIOUS
  <2>3. PICK q : q = [x EXCEPT !.pc = "waits", !.left = left, !.waited = none, !.interval = a,
                               !.asked = a]
    OBVIOUS
  <2>4. op' = [op EXCEPT ![o] = q]
    BY <1>1, <1>6, <2>0, <2>1, <2>2, <2>3
  <2>5. /\ q \in OpRecords /\ q.pc = "waits" /\ q.user = x.user /\ q.token = x.token
        /\ q.outcome = x.outcome /\ q.kind = x.kind /\ q.interval = a /\ q.asked = a
    BY <1>2, <2>1, <2>3 DEF OpRecords, OpSteps
  <2>6. OpFits(q) /\ op[o].pc \in Ungranted
    BY <1>1, <1>2, <2>5 DEF OpFits, Ungranted
  <2>7. q.pc # "deletes" /\ redirects' \subseteq LoginOps
    BY <1>2, <2>5
  <2>8. QED
    BY <1>1, <1>2, <1>6, <2>4, <2>5, <2>6, <2>7, LoginMoves
<1>7. QED
  BY <1>3, <1>4, <1>5, <1>6 DEF PollsIssuer

LEMMA StoresTokenStep == ASSUME LoginInv, NEW o \in LoginOps, StoresToken(o) PROVE LoginInv'
<1>1. op[o].pc = "stores" /\ UNCHANGED << granted, redirects, keyFile >>
  BY DEF StoresToken, Doing
<1>2. CASE entry' = op[o].token /\ Proceeds(o, "has access")
  <2>1. PICK q \in OpRecords : GoesOnAs(q, o, "has access")
    BY <1>2, OpProceeds DEF OpSteps
  <2>2. OpFits(q) /\ q.pc # "deletes" /\ q.pc \notin Ungranted
    BY <1>1, <2>1, OpIs DEF OpFits, GoesOnAs, Ungranted
  <2>3. redirects' \subseteq LoginOps /\ keyFile' \in BOOLEAN /\ GrantsMove(o)
    BY <1>1, NothingGranted DEF LoginInv
  <2>4. QED
    BY <1>1, <1>2, <2>1, <2>2, <2>3, LoginGoes DEF GoesOnAs
<1>3. CASE OpReturns(o, "failed") /\ UNCHANGED entry
  BY <1>1, <1>3, FailsStep
<1>4. QED
  BY <1>2, <1>3 DEF StoresToken

LEMMA TakesAccessStep == ASSUME LoginInv, NEW o \in LoginOps, TakesAccess(o) PROVE LoginInv'
<1>1. /\ op[o].pc = "has access" /\ UNCHANGED << entry, granted, redirects >>
      /\ OpReturns(o, "in") /\ "in" \in Outcomes
  BY DEF TakesAccess, Doing, Outcomes
<1>2. /\ GrantsMove(o) /\ keyFile' \in BOOLEAN
      /\ ~keyFile' => ~keyFile \/ op[o].kind = "click"
  BY <1>1, NothingGranted DEF LoginInv, TakesAccess
<1>3. QED
  BY <1>1, <1>2, LoginReturns

\* Operation o goes on to delete what the entry holds.
LEMMA GoesToDeleteStep ==
  ASSUME LoginInv, NEW o \in LoginOps, Proceeds(o, "deletes"), op[o].pc \in {"reads", "refresh"},
         op[o].token = NoToken \/ ~Lives(op[o].token),
         UNCHANGED << entry, granted, redirects, keyFile >>
  PROVE  LoginInv'
<1>1. PICK q \in OpRecords : GoesOnAs(q, o, "deletes")
  BY OpProceeds DEF OpSteps
<1>2. OpFits(q) /\ q.pc \notin Ungranted
  BY <1>1, OpIs DEF OpFits, GoesOnAs, Ungranted
<1>3. redirects' \subseteq LoginOps /\ (q.token = NoToken \/ ~Lives(q.token))
  BY <1>1 DEF LoginInv, GoesOnAs
<1>4. QED
  BY <1>1, <1>2, <1>3, LoginMoves DEF GoesOnAs

LEMMA ReadsTokenStep == ASSUME LoginInv, NEW o \in LoginOps, ReadsToken(o) PROVE LoginInv'
<1>1. PICK x : x = op[o]
  OBVIOUS
<1>2. /\ x \in OpRecords /\ OpFits(x) /\ TokenFits(x.token) /\ x.pc = "reads" /\ x.outcome = "none"
      /\ x.kind \in {"refresh", "logout"} /\ x.token = NoToken
      /\ UNCHANGED << entry, granted, redirects, keyFile >>
  BY <1>1, OpIs DEF ReadsToken, Doing, OpFits
<1>3. CASE entry # NoToken /\ op' = [op EXCEPT ![o].pc = op[o].kind, ![o].token = entry]
  <2>1. PICK k \in {"refresh", "logout"}, t \in Tokens : k = x.kind /\ t = entry
    BY <1>2 DEF LoginInv
  <2>2. PICK q : q = [x EXCEPT !.pc = k, !.token = t]
    OBVIOUS
  <2>3. op' = [op EXCEPT ![o] = q]
    BY <1>1, <1>3, <2>1, <2>2
  <2>4. k \in OpSteps
    BY DEF OpSteps
  <2>5. /\ q \in OpRecords /\ q.pc = k /\ q.kind = x.kind /\ q.user = x.user /\ q.token = t
        /\ q.outcome = x.outcome /\ q.interval = x.interval /\ q.asked = x.asked
    BY <1>2, <2>2, <2>4 DEF OpRecords
  <2>6. OpFits(q) /\ q.pc # "deletes" /\ q.pc \notin Ungranted
    BY <1>2, <1>3, <2>1, <2>5 DEF OpFits, Ungranted
  <2>7. redirects' \subseteq LoginOps /\ keyFile' \in BOOLEAN /\ GrantsMove(o)
    BY <1>2, NothingGranted DEF LoginInv
  <2>8. QED
    BY <1>1, <1>2, <2>1, <2>3, <2>5, <2>6, <2>7, LoginGoes
<1>4. CASE entry = NoToken /\ Proceeds(o, "deletes")
  BY <1>1, <1>2, <1>4, GoesToDeleteStep
<1>5. CASE OpReturns(o, "failed")
  BY <1>1, <1>2, <1>5, FailsStep
<1>6. QED
  BY <1>3, <1>4, <1>5 DEF ReadsToken

\* A token of an operation that holds one is of a session the issuer knows.
LEMMA SessionIs ==
  ASSUME LoginInv, NEW o \in LoginOps, op[o].pc \in {"refresh", "logout", "puts"}
  PROVE  /\ op[o].token \in Tokens /\ op[o].token # NoToken /\ op[o].token.session \in 0..MaxOps
         /\ op[o].token.gen \in Nat
<1>1. op[o] \in OpRecords /\ op[o].token # NoToken
  BY OpIs DEF OpFits
<1>2. op[o].token \in Tokens
  BY <1>1 DEF OpRecords
<1>3. QED
  BY <1>1, <1>2 DEF Tokens

\* The issuer rotates the session of the token that o holds.
LEMMA RotatesMoves ==
  ASSUME LoginInv, NEW o \in LoginOps, op[o].pc = "refresh", NEW s, s = op[o].token.session,
         NEW next, next = granted[s] + 1, granted[s] >= 0, granted' = [granted EXCEPT ![s] = next]
  PROVE  GrantsMove(o) /\ granted'[s] = next /\ next \in Nat /\ s \in 0..MaxOps
<1> USE LoginAssumption
<1>1. s \in 0..MaxOps
  BY SessionIs
<1>2. granted[s] \in Int
  BY <1>1 DEF LoginInv
<1>3. QED
  BY <1>1, <1>2 DEF LoginInv, GrantsMove

LEMMA RefreshesTokenStep ==
  ASSUME LoginInv, NEW o \in LoginOps, RefreshesToken(o)
  PROVE  LoginInv'
<1>1. PICK x, t, s, next : x = op[o] /\ t = op[o].token /\ s = t.session /\ next = granted[s] + 1
  OBVIOUS
<1>2. /\ x \in OpRecords /\ OpFits(x) /\ TokenFits(t) /\ x.pc = "refresh" /\ x.outcome = "none"
      /\ x.token = t /\ t \in Tokens /\ t # NoToken /\ s \in 0..MaxOps
      /\ UNCHANGED << entry, redirects, keyFile >>
  BY <1>1, OpIs, SessionIs DEF RefreshesToken, Doing, OpFits
<1>3. ASSUME Lives(t), OpReturns(o, "in"), UNCHANGED granted PROVE LoginInv'
  <2>1. GrantsMove(o) /\ keyFile' \in BOOLEAN /\ "in" \in Outcomes
    BY <1>2, <1>3, NothingGranted DEF LoginInv, Outcomes
  <2>2. QED
    BY <1>1, <1>2, <1>3, <2>1, LoginReturns
<1>4. ASSUME granted[s] >= 0, granted' = [granted EXCEPT ![s] = next],
             op' = [op EXCEPT ![o].pc = "puts", ![o].token.gen = next]
      PROVE  LoginInv'
  <2>1. GrantsMove(o) /\ granted'[s] = next /\ next \in Nat
    BY <1>1, <1>2, <1>4, RotatesMoves
  <2>2. PICK u : u = [t EXCEPT !.gen = next]
    OBVIOUS
  <2>3. u \in Tokens /\ u # NoToken /\ u.session = s /\ u.gen = next
    BY <1>1, <1>2, <2>1, <2>2 DEF Tokens, NoToken
  <2>4. PICK q : q = [x EXCEPT !.pc = "puts", !.token = u]
    OBVIOUS
  <2>5. op' = [op EXCEPT ![o] = q]
    BY <1>1, <1>2, <1>4, <2>2, <2>4
  <2>6. /\ q \in OpRecords /\ q.pc = "puts" /\ q.kind = x.kind /\ q.user = x.user /\ q.token = u
        /\ q.outcome = x.outcome /\ q.interval = x.interval /\ q.asked = x.asked
    BY <1>2, <2>3, <2>4 DEF OpRecords, OpSteps
  <2>7. OpFits(q) /\ q.pc # "deletes" /\ q.pc \notin Ungranted
    BY <1>2, <2>3, <2>6 DEF OpFits, Ungranted
  <2>8. s \in LoginOps => op'[s].pc \notin Ungranted
    <3>1. s \in LoginOps => op[s].pc \notin Ungranted
      BY <1>1, <1>2 DEF TokenFits
    <3>2. QED
      BY <2>5, <2>7, <3>1 DEF LoginInv
  <2>9. TokenFits(u)'
    BY <2>1, <2>3, <2>8 DEF TokenFits
  <2>10. redirects' \subseteq LoginOps /\ keyFile' \in BOOLEAN
    BY <1>2 DEF LoginInv
  <2>11. QED
    BY <1>1, <1>2, <2>1, <2>5, <2>6, <2>7, <2>9, <2>10, LoginGoes
<1>5. ASSUME granted[s] >= 0, granted' = [granted EXCEPT ![s] = next], OpReturns(o, "failed")
      PROVE  LoginInv'
  <2>1. GrantsMove(o)
    BY <1>1, <1>2, <1>5, RotatesMoves
  <2>2. keyFile' \in BOOLEAN /\ "failed" \in Outcomes
    BY <1>2 DEF LoginInv, Outcomes
  <2>3. QED
    BY <1>1, <1>2, <1>5, <2>1, <2>2, LoginReturns
<1>6. ASSUME ~Lives(t), Proceeds(o, "deletes"), UNCHANGED granted PROVE LoginInv'
  BY <1>1, <1>2, <1>6, GoesToDeleteStep
<1>7. ASSUME OpReturns(o, "failed"), UNCHANGED granted PROVE LoginInv'
  BY <1>1, <1>2, <1>7, FailsStep
<1>8. QED
  BY <1>1, <1>3, <1>4, <1>5, <1>6, <1>7 DEF RefreshesToken

LEMMA PutsStep == ASSUME LoginInv, NEW o \in LoginOps, Puts(o) PROVE LoginInv'
<1>1. op[o].pc = "puts" /\ UNCHANGED << granted, redirects, keyFile >>
  BY DEF Puts, Doing
<1>2. CASE entry' = op[o].token /\ OpReturns(o, "in")
  <2>1. GrantsMove(o) /\ keyFile' \in BOOLEAN /\ "in" \in Outcomes
    BY <1>1, NothingGranted DEF LoginInv, Outcomes
  <2>2. QED
    BY <1>1, <1>2, <2>1, LoginReturns
<1>3. CASE OpReturns(o, "failed") /\ UNCHANGED entry
  BY <1>1, <1>3, FailsStep
<1>4. QED
  BY <1>2, <1>3 DEF Puts

LEMMA DeletesStep == ASSUME LoginInv, NEW o \in LoginOps, Deletes(o) PROVE LoginInv'
BY FailsStep DEF Deletes, Doing

LEMMA RevokesTokenStep == ASSUME LoginInv, NEW o \in LoginOps, RevokesToken(o) PROVE LoginInv'
<1> USE LoginAssumption
<1>1. PICK x, t, s : x = op[o] /\ t = op[o].token /\ s = t.session
  OBVIOUS
<1>2. /\ x \in OpRecords /\ OpFits(x) /\ TokenFits(t) /\ x.pc = "logout" /\ x.outcome = "none"
      /\ x.token = t /\ t \in Tokens /\ t # NoToken /\ s \in 0..MaxOps /\ t.gen \in Nat
      /\ UNCHANGED << entry, redirects, keyFile >>
  BY <1>1, OpIs, SessionIs DEF RevokesToken, Doing, OpFits
<1>3. PICK said \in {"revoked", "refused", "failed"}, ends \in BOOLEAN :
        /\ said = "revoked" => ends
        /\ granted' = IF ends THEN [granted EXCEPT ![s] = -1] ELSE granted
        /\ op' = [op EXCEPT ![o].pc = AfterRevoke(said), ![o].answer = said]
  BY <1>1 DEF RevokesToken
<1>4. PICK pc \in {"over", "deletes"} : pc = AfterRevoke(said)
  BY DEF AfterRevoke
<1>5. PICK q : q = [x EXCEPT !.pc = pc, !.answer = said]
  OBVIOUS
<1>6. op' = [op EXCEPT ![o] = q]
  BY <1>1, <1>3, <1>4, <1>5
<1>7. pc \in OpSteps /\ said \in {"none", "revoked", "refused", "failed"}
  BY DEF OpSteps
<1>8. /\ q \in OpRecords /\ q.pc = pc /\ q.kind = x.kind /\ q.user = x.user /\ q.token = t
      /\ q.outcome = x.outcome /\ q.interval = x.interval /\ q.asked = x.asked /\ q.answer = said
  BY <1>2, <1>5, <1>7 DEF OpRecords
<1>9. OpFits(q) /\ q.pc \notin Ungranted
  BY <1>2, <1>8 DEF OpFits, Ungranted
<1>10. GrantsMove(o)
  BY <1>2, <1>3 DEF LoginInv, GrantsMove
<1>11. q.pc = "deletes" => ~Lives(t)' \/ said = "refused"
  <2>1. said = "failed" => pc = "over"
    BY <1>4 DEF AfterRevoke
  <2>2. ends => granted'[s] = -1
    BY <1>2, <1>3 DEF LoginInv
  <2>3. ends => ~Lives(t)'
    BY <1>1, <1>2, <2>2 DEF Lives
  <2>4. QED
    BY <1>3, <1>8, <2>1, <2>3
<1>12. redirects' \subseteq LoginOps /\ keyFile' \in BOOLEAN
  BY <1>2 DEF LoginInv
<1>13. QED
  BY <1>1, <1>2, <1>6, <1>8, <1>9, <1>10, <1>11, <1>12, LoginGoes

LEMMA SessionEndsStep == ASSUME LoginInv, NEW s \in 0..MaxOps, SessionEnds(s) PROVE LoginInv'
<1>1. /\ UNCHANGED << op, busy, entry, redirects, keyFile >>
      /\ granted' = [granted EXCEPT ![s] = -1] /\ granted' \in [0..MaxOps -> Int]
  BY DEF SessionEnds, LoginInv
<1>2. ASSUME NEW t \in Tokens, TokenFits(t) PROVE TokenFits(t)' /\ (~Lives(t) => ~Lives(t)')
  <2>1. CASE t = NoToken
    BY <2>1 DEF TokenFits, Lives, NoToken
  <2>2. CASE t # NoToken
    <3>1. t.session \in 0..MaxOps /\ t.gen \in Nat /\ t.gen # -1
      BY <2>2 DEF Tokens
    <3>2. granted'[t.session] \in {granted[t.session], -1}
      BY <1>1, <3>1 DEF LoginInv
    <3>3. QED
      BY <1>1, <1>2, <3>1, <3>2 DEF TokenFits, Lives
  <2>3. QED
    BY <2>1, <2>2
<1>3. ASSUME NEW o \in LoginOps
      PROVE  OpFits(op[o])' /\ DeletesRightly(op[o])' /\ TokenFits(op[o].token)'
  <2>1. PICK x : x = op[o]
    OBVIOUS
  <2>2. x \in OpRecords /\ OpFits(x) /\ DeletesRightly(x) /\ TokenFits(x.token) /\ x.token \in Tokens
    BY <2>1, OpIs DEF OpRecords
  <2>3. op'[o] = x /\ TokenFits(x.token)' /\ (~Lives(x.token) => ~Lives(x.token)')
    BY <1>1, <1>2, <2>1, <2>2
  <2>4. QED
    BY <2>2, <2>3 DEF DeletesRightly, TokenFits, Lives, OpFits
<1>4. TokenFits(entry)'
  <2>1. PICK t \in Tokens : t = entry /\ TokenFits(t)
    BY DEF LoginInv
  <2>2. entry' = t /\ TokenFits(t)'
    BY <1>1, <1>2, <2>1
  <2>3. QED
    BY <2>2 DEF TokenFits
<1>5. QED
  BY <1>1, <1>3, <1>4 DEF LoginInv, KeyIsSpent

LEMMA LoginStep == LoginInv /\ [LoginNext]_loginVars => LoginInv'
<1> SUFFICES ASSUME LoginInv, [LoginNext]_loginVars PROVE LoginInv'
  OBVIOUS
<1>1. CASE UNCHANGED loginVars
  BY <1>1 DEF loginVars, LoginInv, DeletesRightly, Lives, TokenFits, KeyIsSpent
<1>2. ASSUME NEW o \in LoginOps,
             \/ BeginsOp(o) \/ OpensTab(o) \/ AnswersInTab(o) \/ TakesCallback(o) \/ IsRefused(o)
             \/ TimesOut(o) \/ Exchanges(o) \/ StartsDevice(o) \/ AnswersOnDevice(o) \/ Sleeps(o)
      PROVE  LoginInv'
  BY <1>2, BeginsOpStep, OpensTabStep, AnswersStep, TakesCallbackStep, IsRefusedStep,
     TimesOutStep, ExchangesStep, StartsDeviceStep, SleepsStep
<1>3. ASSUME NEW o \in LoginOps,
             \/ PollsIssuer(o) \/ StoresToken(o) \/ TakesAccess(o) \/ ReadsToken(o)
             \/ RefreshesToken(o) \/ Puts(o) \/ RevokesToken(o) \/ Deletes(o)
      PROVE  LoginInv'
  BY <1>3, PollsIssuerStep, StoresTokenStep, TakesAccessStep, ReadsTokenStep,
     RefreshesTokenStep, PutsStep, RevokesTokenStep, DeletesStep
<1>4. QED
  BY <1>1, <1>2, <1>3, SessionEndsStep DEF LoginNext

\* The entry is emptied by a delete alone.
LEMMA EmptiesEntry ==
  ASSUME LoginInv, LoginNext, entry # NoToken, entry' = NoToken
  PROVE  \E o \in LoginOps : Deletes(o)
<1>1. ASSUME NEW o \in LoginOps, Puts(o) PROVE FALSE
  BY <1>1, SessionIs DEF Puts, Doing
<1>2. ASSUME NEW o \in LoginOps, StoresToken(o) PROVE FALSE
  BY <1>2 DEF StoresToken
<1>3. QED
  BY <1>1, <1>2 DEF LoginNext, BeginsOp, OpensTab, AnswersInTab, TakesCallback, IsRefused,
                    TimesOut, Exchanges, StartsDevice, AnswersOnDevice, Sleeps, PollsIssuer,
                    TakesAccess, ReadsToken, RefreshesToken, RevokesToken, SessionEnds

LEMMA KeepsLiveToken == LoginInv /\ [LoginNext]_loginVars => [LiveTokenIsKept]_loginVars
<1> SUFFICES ASSUME LoginInv, LoginNext, Lives(entry), entry' = NoToken
             PROVE  \E o \in LoginOps :
                      Doing(o, "deletes") /\ (op[o].token # entry \/ op[o].answer = "refused")
  BY DEF LiveTokenIsKept
<1>1. entry # NoToken
  BY DEF Lives, NoToken
<1>2. PICK o \in LoginOps : Deletes(o)
  BY <1>1, EmptiesEntry
<1>3. op[o].pc = "deletes"
  BY <1>2 DEF Deletes, Doing
<1>4. op[o].token = NoToken \/ ~Lives(op[o].token) \/ op[o].answer = "refused"
  BY <1>3 DEF LoginInv, DeletesRightly
<1>5. QED
  BY <1>1, <1>3, <1>4 DEF Doing

\* However operations of one keychain entry overlap: the issuer is polled as it asked, a
\* request is declined or signs in by the user's answer to it alone, and a token that is
\* honoured leaves the entry for another, or by a delete that found another there or
\* whose revocation was refused (poll_device, callback_code, refresh_session, logout).
THEOREM SignInStaysSound == LoginSpec => SignInIsSound
<1>1. LoginInv => \A o \in LoginOps : PollsWhenAsked(o) /\ OutcomeIsItsOwn(o)
  <2> SUFFICES ASSUME LoginInv, NEW o \in LoginOps PROVE PollsWhenAsked(o) /\ OutcomeIsItsOwn(o)
    OBVIOUS
  <2>2. OpFits(op[o])
    BY OpIs
  <2>3. QED
    BY <2>2 DEF PollsWhenAsked, OutcomeIsItsOwn, OpFits, Doing
<1>2. LoginInv => (~keyFile => \E o \in LoginOps : op[o].kind = "click" /\ op[o].outcome = "in")
  BY DEF LoginInv, KeyIsSpent
<1>3. QED
  BY <1>1, <1>2, LoginInitially, LoginStep, KeepsLiveToken, PTL DEF LoginSpec, SignInIsSound
==============================================================================
