-------------------------- MODULE AutomationProofs --------------------------
(***************************************************************************)
(* Proofs about Automation, for every value of the constants: its types,   *)
(* that a pause holds, that an interrupted request sends at most one more  *)
(* chunk, and then what it promises of calls in flight, of entering        *)
(* running and of a session that is closed.  Each comes from an invariant  *)
(* that says how the property is carried through the states in which it    *)
(* is not visible.                                                         *)
(***************************************************************************)
EXTENDS Automation, GateProofs

\* A request about to send has a chunk left; a control past the keyboard check
\* asks for start or resume.
TypeInv ==
  /\ TypeOK
  /\ \A r \in Injectors : inj[r].pc = "send" => inj[r].left > 0
  /\ \A c \in Controllers :
       ctl[c].pc \in {"live", "select", "apply"} => ctl[c].action \in {"start", "resume"}

\* While the gate lock is held for a replay no call is in flight and the queue
\* is in replay.rest; otherwise replay.rest is empty.
ReplayInv ==
  /\ ~gate.injecting => gate.deferred = << >>
  /\ replay.active => ~gate.injecting
  /\ ~replay.active => replay.rest = << >>

\* Entries that leave a paused gate paused.
Calm(q) == \A i \in 1..Len(q) : q[i].kind \in {"pause", "close", "keyboard"}

\* Replaying q pauses, whatever came before.
EndsPaused(q) ==
  \E i \in 1..Len(q) :
    /\ q[i].kind = "pause"
    /\ \A j \in (i + 1)..Len(q) : q[j].kind \in {"pause", "close", "keyboard"}

\* A pause that nobody lifted is in the phase, and also in the queue when one
\* is to be replayed over the phase.
HeldInv ==
  held => IF replay.active
          THEN \/ EndsPaused(replay.rest)
               \/ gate.phase = "paused" /\ Calm(replay.rest)
          ELSE /\ gate.phase = "paused"
               /\ gate.injecting => EndsPaused(gate.deferred)

\* An epoch that was read before an interrupt stays behind the gate's.
EpochInv ==
  /\ PublishedMatches
  /\ \A r \in Reading : inj[r].epoch <= gate.epoch
  /\ \A r \in interrupted : /\ inj[r].epoch < gate.epoch
                            /\ inj[r].pc \notin {"idle", "capture"}

\* A late chunk is the one an interrupted request had already decided on.
LateInv ==
  \A r \in Injectors : /\ late[r] <= 1
                       /\ late[r] > 0 => r \in interrupted
                       /\ inj[r].pc = "send" => late[r] = 0

-----------------------------------------------------------------------------
(* Types.                                                                  *)

LEMMA RequestTypes ==
  /\ InjectorAt("idle") \in Injections /\ InjectorAt("done") \in Injections
  /\ \A s \in MaybeSession, pc \in ControlStates : ControllerAt(pc, s) \in ControlRequests
  /\ NoReplay \in Replays
  /\ InitialGate \in Gates
<1>1. /\ InjectorAt("idle") \in Injections /\ InjectorAt("done") \in Injections
  BY AutomationAssumption, FieldTypes DEF InjectorAt, Injections, InjectorStates
<1>2. \A s \in MaybeSession, pc \in ControlStates : ControllerAt(pc, s) \in ControlRequests
  BY DEF ControllerAt, ControlRequests
<1>3. PICK q \in Seq(Deferred) : q = << >>
  BY FieldTypes
<1>4. PICK d \in SUBSET Drives : d = {}
  BY FieldTypes
<1>5. [active |-> FALSE, rest |-> q, fresh |-> FALSE] \in Replays
  BY DEF Replays
<1>6. [session |-> NoSession, phase |-> "off", drive |-> d, generation |-> 0,
       resumeSeq |-> 0, injectSeq |-> 0, settledSeq |-> 0, injecting |-> FALSE,
       deferred |-> q, epoch |-> 0, trustedAt |-> Never, lastPoll |-> Never,
       keyboard |-> TRUE, published |-> [epoch |-> 0, phase |-> "off"]] \in Gates
  BY FieldTypes DEF Gates
<1>7. QED
  BY <1>1, <1>2, <1>3, <1>4, <1>5, <1>6 DEF NoReplay, InitialGate

LEMMA TypeInit == Init => TypeInv
<1> SUFFICES ASSUME Init PROVE TypeInv
  OBVIOUS
<1>1. gate \in Gates /\ replay \in Replays
  BY RequestTypes DEF Init
<1>3. /\ inj \in [Injectors -> Injections]
      /\ \A r \in Injectors : inj[r].pc = "idle"
  <2>1. inj = [r \in Injectors |-> InjectorAt("idle")]
    BY DEF Init
  <2>2. InjectorAt("idle").pc = "idle"
    BY DEF InjectorAt
  <2>3. QED
    BY <2>1, <2>2, RequestTypes
<1>4. /\ ctl \in [Controllers -> ControlRequests]
      /\ \A c \in Controllers : ctl[c].pc = "idle"
  <2>1. ctl = [c \in Controllers |-> ControllerAt("idle", NoSession)]
    BY DEF Init
  <2>2. ControllerAt("idle", NoSession) \in ControlRequests
    BY RequestTypes, FieldTypes DEF ControlStates
  <2>3. ControllerAt("idle", NoSession).pc = "idle"
    BY DEF ControllerAt
  <2>4. QED
    BY <2>1, <2>2, <2>3
<1>5. sessions \in [Sessions -> SessionStates]
  BY DEF Init, SessionStates
<1>6. late \in [Injectors -> Nat]
  BY DEF Init
<1>7. /\ injection \in Injectors \cup {Shutdown, NoOne}
      /\ stopping \in StoppingStates /\ held \in BOOLEAN
  BY DEF Init, StoppingStates
<1>8. interrupted \subseteq Injectors
  BY DEF Init
<1>9. QED
  BY <1>1, <1>3, <1>4, <1>5, <1>6, <1>7, <1>8 DEF TypeInv, TypeOK

\* The part of TypeInv about the injectors, and the part about the controllers.
InjType == /\ inj \in [Injectors -> Injections]
           /\ \A r \in Injectors : inj[r].pc = "send" => inj[r].left > 0
CtlType == /\ ctl \in [Controllers -> ControlRequests]
           /\ \A c \in Controllers : ctl[c].pc \in {"live", "select", "apply"}
                                       => ctl[c].action \in {"start", "resume"}

LEMMA GoInjType ==
  ASSUME InjType, NEW r \in Injectors, NEW from, NEW to \in InjectorStates,
         to = "send" => inj[r].left > 0, GoInj(r, from, to)
  PROVE  InjType'
<1>1. CASE to = "done"
  <2>1. inj' = [inj EXCEPT ![r] = InjectorAt("done")]
    BY <1>1 DEF GoInj
  <2>2. inj' \in [Injectors -> Injections]
    BY <2>1, RequestTypes DEF InjType
  <2>3. \A p \in Injectors : inj'[p].pc = "send" => inj'[p].left > 0
    BY <2>1 DEF InjType, InjectorAt
  <2>4. QED
    BY <2>2, <2>3 DEF InjType
<1>2. CASE to # "done"
  <2>1. inj' = [inj EXCEPT ![r] = [@ EXCEPT !.pc = to]]
    BY <1>2 DEF GoInj
  <2>2. [inj[r] EXCEPT !.pc = to] \in Injections
    BY DEF InjType, Injections
  <2>3. inj' \in [Injectors -> Injections]
    BY <2>1, <2>2 DEF InjType
  <2>4. \A p \in Injectors : inj'[p].pc = "send" => inj'[p].left > 0
    BY <2>1 DEF InjType, Injections
  <2>5. QED
    BY <2>3, <2>4 DEF InjType
<1>3. QED
  BY <1>1, <1>2

LEMMA EndCtlType ==
  ASSUME CtlType, NEW c \in Controllers, NEW from, EndCtl(c, from)
  PROVE  CtlType'
<1>1. ctl[c].session \in MaybeSession
  BY DEF CtlType, ControlRequests
<1>2. ControllerAt("done", ctl[c].session) \in ControlRequests
  BY <1>1, RequestTypes DEF ControlStates
<1>3. ctl' \in [Controllers -> ControlRequests]
  BY <1>2 DEF CtlType, EndCtl
<1>4. \A k \in Controllers : ctl'[k].pc \in {"live", "select", "apply"}
                               => ctl'[k].action \in {"start", "resume"}
  BY DEF CtlType, EndCtl, ControllerAt
<1>5. QED
  BY <1>3, <1>4 DEF CtlType

\* The variables that are not requests.
OtherTypes == /\ gate \in Gates
              /\ sessions \in [Sessions -> SessionStates]
              /\ injection \in Injectors \cup {Shutdown, NoOne}
              /\ replay \in Replays
              /\ stopping \in StoppingStates
              /\ held \in BOOLEAN
              /\ interrupted \subseteq Injectors
              /\ late \in [Injectors -> Nat]

LEMMA TypeParts == TypeInv <=> InjType /\ CtlType /\ OtherTypes
BY DEF TypeInv, TypeOK, InjType, CtlType, OtherTypes

LEMMA UnchangedTypes ==
  /\ InjType /\ UNCHANGED inj => InjType'
  /\ CtlType /\ UNCHANGED ctl => CtlType'
  /\ OtherTypes /\ UNCHANGED << gate, sessions, injection, replay, stopping, history >>
       => OtherTypes'
BY DEF InjType, CtlType, OtherTypes, history

LEMMA InterruptsType ==
  ASSUME OtherTypes, NEW cond, Interrupts(cond)
  PROVE  interrupted' \subseteq Injectors /\ late' \in [Injectors -> Nat]
BY DEF OtherTypes, Interrupts, Reading

LEMMA InjectorTypes ==
  ASSUME InjType, OtherTypes, CtlType, NEW r \in Injectors,
         \/ \E s \in Sessions, n \in 1..MaxChunks : Arrive(r, s, n)
         \/ InjectorStep(r)
  PROVE  InjType' /\ OtherTypes' /\ CtlType'
<1> USE DEF history
<1>1. ASSUME NEW s \in Sessions, NEW n \in 1..MaxChunks, Arrive(r, s, n)
      PROVE  InjType' /\ OtherTypes' /\ CtlType'
  <2>1. inj' = [inj EXCEPT ![r] = [@ EXCEPT !.pc = "capture", !.session = s, !.left = n]]
    BY <1>1 DEF Arrive, InjType, Injections
  <2>2. [inj[r] EXCEPT !.pc = "capture", !.session = s, !.left = n] \in Injections
    <3>1. n \in 0..MaxChunks /\ "capture" \in InjectorStates /\ s \in MaybeSession
      BY AutomationAssumption DEF InjectorStates, MaybeSession
    <3>2. QED
      BY <3>1 DEF InjType, Injections
  <2>3. inj' \in [Injectors -> Injections]
    BY <2>1, <2>2 DEF InjType
  <2>4. \A p \in Injectors : inj'[p].pc = "send" => inj'[p].left > 0
    BY <2>1 DEF InjType, Injections
  <2>5. gate' \in Gates /\ held' \in BOOLEAN
    BY <1>1, PollType DEF Arrive, Holds, OtherTypes
  <2>6. interrupted' \subseteq Injectors /\ late' \in [Injectors -> Nat]
    BY <1>1, InterruptsType DEF Arrive
  <2>7. QED
    BY <1>1, <2>3, <2>4, <2>5, <2>6 DEF Arrive, InjType, CtlType, OtherTypes
<1>2. CASE Capture(r)
  <2>1. inj' = [inj EXCEPT ![r] = [@ EXCEPT !.pc = "keyboard",
                                            !.epoch = gate.published.epoch]]
    BY <1>2 DEF Capture, InjType, Injections
  <2>2. gate.published.epoch \in Nat
    BY DEF OtherTypes, Gates
  <2>3. [inj[r] EXCEPT !.pc = "keyboard", !.epoch = gate.published.epoch] \in Injections
    BY <2>2 DEF InjType, Injections, InjectorStates
  <2>4. inj' \in [Injectors -> Injections]
    BY <2>1, <2>3 DEF InjType
  <2>5. \A p \in Injectors : inj'[p].pc = "send" => inj'[p].left > 0
    BY <2>1 DEF InjType, Injections
  <2>6. QED
    BY <1>2, <2>4, <2>5 DEF Capture, OnlyInj, InjType, CtlType, OtherTypes
<1>3. ASSUME NEW from, NEW to \in InjectorStates, to = "send" => inj[r].left > 0,
             GoInj(r, from, to), OnlyInj
      PROVE  InjType' /\ OtherTypes' /\ CtlType'
  BY <1>3, GoInjType DEF OnlyInj, OtherTypes, CtlType
<1>4. CASE KeyboardCheck(r)
  BY <1>4, <1>3 DEF KeyboardCheck, InjectorStates
<1>5. CASE Precheck(r)
  BY <1>5, <1>3 DEF Precheck, InjectorStates
<1>6. CASE StaleCheck(r)
  BY <1>6, <1>3 DEF StaleCheck, InjectorStates
<1>7. CASE MarkVerb(r)
  BY <1>7, <1>3 DEF MarkVerb, InjectorStates
<1>8. CASE PostCheck(r)
  BY <1>8, <1>3 DEF PostCheck, InjectorStates
<1>9. CASE StretchEnded(r)
  BY <1>9, <1>3 DEF StretchEnded, InjectorStates
<1>10. CASE ChunkCheck(r)
  <2>1. inj[r].left \in Nat
    BY DEF InjType, Injections
  <2>2. QED
    BY <1>10, <1>3, <2>1 DEF ChunkCheck, InjectorStates
<1>11. CASE Acquire(r)
  BY <1>11, GoInjType DEF Acquire, InjectorStates, OtherTypes, CtlType
<1>12. CASE Arm(r)
  <2>1. inj[r].session \in MaybeSession
    BY DEF InjType, Injections
  <2>2. InjType'
    BY <1>12, GoInjType DEF Arm, InjectorStates
  <2>3. gate' \in Gates
    BY <1>12, <2>1, InjectionType DEF Arm, OtherTypes
  <2>4. QED
    BY <1>12, <2>2, <2>3 DEF Arm, OtherTypes, CtlType
<1>13. CASE ReadGeneration(r)
  <2>1. inj' = [inj EXCEPT ![r] = [@ EXCEPT !.pc = "loop",
                                            !.generation = gate.generation]]
    BY <1>13 DEF ReadGeneration, InjType, Injections
  <2>2. [inj[r] EXCEPT !.pc = "loop", !.generation = gate.generation] \in Injections
    BY GateFields DEF InjType, Injections, InjectorStates, OtherTypes
  <2>3. inj' \in [Injectors -> Injections]
    BY <2>1, <2>2 DEF InjType
  <2>4. \A p \in Injectors : inj'[p].pc = "send" => inj'[p].left > 0
    BY <2>1 DEF InjType, Injections
  <2>5. QED
    BY <1>13, <2>3, <2>4 DEF ReadGeneration, OnlyInj, InjType, CtlType, OtherTypes
<1>14. CASE SendChunk(r)
  <2>1. PICK to \in {"loop", "unwind"} :
          inj' = [inj EXCEPT ![r] = [inj[r] EXCEPT !.pc = to, !.left = inj[r].left - 1]]
    BY <1>14 DEF SendChunk, InjType, Injections
  <2>2. inj[r].left - 1 \in 0..MaxChunks
    BY <1>14, AutomationAssumption DEF SendChunk, InjType, Injections
  <2>3. [inj[r] EXCEPT !.pc = to, !.left = inj[r].left - 1] \in Injections
    BY <2>2 DEF InjType, Injections, InjectorStates
  <2>4. inj' \in [Injectors -> Injections]
    BY <2>1, <2>3 DEF InjType
  <2>5. \A p \in Injectors : inj'[p].pc = "send" => inj'[p].left > 0
    BY <2>1 DEF InjType, Injections
  <2>6. late' \in [Injectors -> Nat]
    BY <1>14 DEF SendChunk, OtherTypes
  <2>7. QED
    BY <1>14, <2>4, <2>5, <2>6 DEF SendChunk, InjType, CtlType, OtherTypes
<1>15. CASE Record(r)
  <2>1. inj[r].session \in MaybeSession
    BY DEF InjType, Injections
  <2>2. InjType'
    BY <1>15, GoInjType DEF Record, InjectorStates
  <2>3. gate' \in Gates
    BY <1>15, <2>1, InjectionType DEF Record, OtherTypes
  <2>4. QED
    BY <1>15, <2>2, <2>3 DEF Record, OtherTypes, CtlType
<1>16. CASE BeginUnwind(r)
  <2>1. InjType'
    BY <1>16, GoInjType DEF BeginUnwind, InjectorStates
  <2>2. gate' \in Gates
    BY <1>16, FieldTypes, InjectionType DEF BeginUnwind, OtherTypes
  <2>3. replay' \in Replays
    BY <1>16, GateFields DEF BeginUnwind, Replays, OtherTypes, PollFresh
  <2>4. QED
    BY <1>16, <2>1, <2>2, <2>3 DEF BeginUnwind, OtherTypes, CtlType
<1>17. CASE ReplayOne(r)
  <2>1. /\ replay.rest \in Seq(Deferred) /\ replay.rest # << >>
        /\ replay.fresh \in BOOLEAN
    BY <1>17 DEF ReplayOne, Replays, OtherTypes
  <2>2. Head(replay.rest) \in Deferred /\ Tail(replay.rest) \in Seq(Deferred)
    BY <2>1
  <2>3. gate' \in Gates
    BY <1>17, <2>1, <2>2, ApplyDeferredType DEF ReplayOne, OtherTypes
  <2>4. replay' \in Replays
    BY <1>17, <2>2 DEF ReplayOne, Replays, OtherTypes
  <2>5. QED
    BY <1>17, <2>3, <2>4 DEF ReplayOne, OtherTypes, InjType, CtlType
<1>18. CASE EndInject(r)
  <2>1. InjType'
    BY <1>18, GoInjType DEF EndInject, InjectorStates
  <2>2. gate' \in Gates /\ replay' \in Replays
    BY <1>18, PublishType, RequestTypes DEF EndInject, OtherTypes
  <2>3. QED
    BY <1>18, <2>1, <2>2 DEF EndInject, OtherTypes, CtlType
<1>19. CASE Unlock(r)
  <2>1. InjType'
    BY <1>19, GoInjType DEF Unlock, InjectorStates
  <2>2. late' \in [Injectors -> Nat] /\ interrupted' \subseteq Injectors
    BY <1>19 DEF Unlock, OtherTypes
  <2>3. QED
    BY <1>19, <2>1, <2>2 DEF Unlock, OtherTypes, CtlType
<1>20. QED
  BY <1>1, <1>2, <1>4, <1>5, <1>6, <1>7, <1>8, <1>9, <1>10, <1>11, <1>12, <1>13,
     <1>14, <1>15, <1>16, <1>17, <1>18, <1>19 DEF InjectorStep, Inject

LEMMA ControllerTypes ==
  ASSUME InjType, OtherTypes, CtlType, NEW c \in Controllers,
         ControlArrive(c) \/ ControlStep(c)
  PROVE  InjType' /\ OtherTypes' /\ CtlType'
<1> USE DEF history
<1>1. ASSUME NEW companion \in BOOLEAN, ControlPause(c, companion)
      PROVE  InjType' /\ OtherTypes' /\ CtlType'
  <2>1. CtlType'
    BY <1>1, EndCtlType DEF ControlPause
  <2>2. gate' \in Gates /\ held' \in BOOLEAN
    BY <1>1, PauseType DEF ControlPause, Holds, OtherTypes
  <2>3. interrupted' \subseteq Injectors /\ late' \in [Injectors -> Nat]
    BY <1>1, InterruptsType DEF ControlPause
  <2>4. QED
    BY <1>1, <2>1, <2>2, <2>3 DEF ControlPause, InjType, OtherTypes
<1>2. ASSUME NEW companion \in BOOLEAN, ControlStop(c, companion)
      PROVE  InjType' /\ OtherTypes' /\ CtlType'
  <2>1. CtlType'
    BY <1>2, EndCtlType DEF ControlStop
  <2>2. gate' \in Gates /\ held' \in BOOLEAN
    BY <1>2, StopType DEF ControlStop, OtherTypes
  <2>3. interrupted' \subseteq Injectors /\ late' \in [Injectors -> Nat]
    BY <1>2, InterruptsType DEF ControlStop, OtherTypes
  <2>4. QED
    BY <1>2, <2>1, <2>2, <2>3 DEF ControlStop, InjType, OtherTypes
<1>3. ASSUME NEW action \in {"start", "resume"}, NEW companion \in BOOLEAN,
             ControlKeyboardCheck(c, action, companion)
      PROVE  InjType' /\ OtherTypes' /\ CtlType'
  <2>1. CASE gate.keyboard
    <3>1. ctl' = [ctl EXCEPT ![c] = [ctl[c] EXCEPT !.pc = "live", !.action = action,
                                                   !.companion = companion]]
      BY <1>3, <2>1 DEF ControlKeyboardCheck, CtlType, ControlRequests
    <3>2. [ctl[c] EXCEPT !.pc = "live", !.action = action, !.companion = companion]
            \in ControlRequests
      BY DEF CtlType, ControlRequests, ControlStates
    <3>3. ctl' \in [Controllers -> ControlRequests]
      BY <3>1, <3>2 DEF CtlType
    <3>4. \A k \in Controllers : ctl'[k].pc \in {"live", "select", "apply"}
                                   => ctl'[k].action \in {"start", "resume"}
      BY <3>1 DEF CtlType, ControlRequests
    <3>5. QED
      BY <1>3, <3>3, <3>4 DEF ControlKeyboardCheck, OnlyCtl, CtlType, InjType, OtherTypes
  <2>2. CASE ~gate.keyboard
    BY <1>3, <2>2, EndCtlType
    DEF ControlKeyboardCheck, OnlyCtl, InjType, OtherTypes
  <2>3. QED
    BY <2>1, <2>2
<1>4. CASE ControlLive(c)
  <2>1. PICK s \in MaybeSession :
          ctl' = [ctl EXCEPT ![c] = [ctl[c] EXCEPT !.pc = "select", !.session = s]]
    BY <1>4, FieldTypes, GateFields
    DEF ControlLive, CtlType, ControlRequests, OtherTypes
  <2>2. [ctl[c] EXCEPT !.pc = "select", !.session = s] \in ControlRequests
    BY DEF CtlType, ControlRequests, ControlStates
  <2>3. ctl' \in [Controllers -> ControlRequests]
    BY <2>1, <2>2 DEF CtlType
  <2>4. \A k \in Controllers : ctl'[k].pc \in {"live", "select", "apply"}
                                 => ctl'[k].action \in {"start", "resume"}
    BY <1>4, <2>1 DEF ControlLive, CtlType, ControlRequests
  <2>5. QED
    BY <1>4, <2>3, <2>4 DEF ControlLive, OnlyCtl, CtlType, InjType, OtherTypes
<1>5. CASE ControlSelect(c)
  <2>1. PICK s \in MaybeSession :
          ctl' = [ctl EXCEPT ![c] = [ctl[c] EXCEPT !.pc = "apply", !.session = s]]
    BY <1>5 DEF ControlSelect, CtlType, ControlRequests
  <2>2. [ctl[c] EXCEPT !.pc = "apply", !.session = s] \in ControlRequests
    BY DEF CtlType, ControlRequests, ControlStates
  <2>3. ctl' \in [Controllers -> ControlRequests]
    BY <2>1, <2>2 DEF CtlType
  <2>4. \A k \in Controllers : ctl'[k].pc \in {"live", "select", "apply"}
                                 => ctl'[k].action \in {"start", "resume"}
    BY <1>5, <2>1 DEF ControlSelect, CtlType, ControlRequests
  <2>5. QED
    BY <1>5, <2>3, <2>4 DEF ControlSelect, OnlyCtl, CtlType, InjType, OtherTypes
<1>6. CASE ControlApply(c)
  <2>1. CtlType'
    BY <1>6, EndCtlType DEF ControlApply
  <2>2. /\ ctl[c].action \in {"start", "resume"} /\ ctl[c].session \in MaybeSession
        /\ ctl[c].companion \in BOOLEAN
    BY <1>6 DEF ControlApply, EndCtl, CtlType, ControlRequests
  <2>3. gate' \in Gates
    BY <1>6, <2>2, ApplyType DEF ControlApply, OtherTypes
  <2>4. /\ held' \in BOOLEAN /\ interrupted' \subseteq Injectors
        /\ late' \in [Injectors -> Nat]
    BY <1>6 DEF ControlApply, OtherTypes
  <2>5. QED
    BY <1>6, <2>1, <2>3, <2>4 DEF ControlApply, InjType, OtherTypes
<1>7. QED
  BY <1>1, <1>2, <1>3, <1>4, <1>5, <1>6 DEF ControlArrive, ControlStep

LEMMA DaemonTypes ==
  ASSUME InjType, OtherTypes, CtlType,
         \/ CompanionPoll \/ WatchdogTick \/ KeyboardReport \/ Tick
         \/ \E s \in Sessions : OpenSession(s) \/ CloseRemove(s) \/ CloseStep(s)
         \/ StopCancel \/ StoppingStep
  PROVE  InjType' /\ OtherTypes' /\ CtlType'
<1> USE DEF history
<1>1. ASSUME OnlyGate, gate' \in Gates, held' \in BOOLEAN, NEW cond, Interrupts(cond)
      PROVE  InjType' /\ OtherTypes' /\ CtlType'
  BY <1>1, InterruptsType DEF OnlyGate, InjType, OtherTypes, CtlType
<1>2. CASE CompanionPoll
  <2>1. gate' \in Gates /\ held' \in BOOLEAN
    BY <1>2, PollType DEF CompanionPoll, Holds, OtherTypes
  <2>2. QED
    BY <1>1, <1>2, <2>1 DEF CompanionPoll
<1>3. CASE WatchdogTick
  <2>1. gate' \in Gates /\ held' \in BOOLEAN
    BY <1>3, PollType DEF WatchdogTick, Holds, OtherTypes
  <2>2. QED
    BY <1>1, <1>3, <2>1 DEF WatchdogTick
<1>4. CASE KeyboardReport
  <2>1. gate' \in Gates /\ held' \in BOOLEAN
    BY <1>4, SetKeyboardUnavailableType DEF KeyboardReport, OtherTypes
  <2>2. QED
    BY <1>1, <1>4, <2>1 DEF KeyboardReport
<1>5. CASE Tick
  <2>1. gate' \in Gates
    BY <1>5, AgedType DEF Tick, OtherTypes
  <2>2. QED
    BY <1>5, <2>1 DEF Tick, OnlyGate, InjType, OtherTypes, CtlType
<1>6. ASSUME NEW s \in Sessions, OpenSession(s) \/ CloseRemove(s) \/ CloseStep(s)
      PROVE  InjType' /\ OtherTypes' /\ CtlType'
  <2>1. sessions' \in [Sessions -> SessionStates]
    BY <1>6 DEF OpenSession, CloseRemove, CloseStep, CloseNote, CloseFinish,
                OtherTypes, SessionStates
  <2>2. gate' \in Gates
    BY <1>6, CloseType DEF OpenSession, CloseRemove, CloseStep, CloseNote, CloseFinish,
                           OtherTypes
  <2>3. interrupted' \subseteq Injectors /\ late' \in [Injectors -> Nat]
    BY <1>6, InterruptsType
    DEF OpenSession, CloseRemove, CloseStep, CloseNote, CloseFinish, OtherTypes
  <2>4. QED
    BY <1>6, <2>1, <2>2, <2>3
    DEF OpenSession, CloseRemove, CloseStep, CloseNote, CloseFinish, OnlySessions,
        InjType, OtherTypes, CtlType
<1>7. CASE StopCancel
  <2>1. gate' \in Gates
    BY <1>7, StopType DEF StopCancel, OtherTypes
  <2>2. interrupted' \subseteq Injectors /\ late' \in [Injectors -> Nat]
    BY <1>7, InterruptsType DEF StopCancel
  <2>3. QED
    BY <1>7, <2>1, <2>2
    DEF StopCancel, GoStopping, StoppingStates, InjType, OtherTypes, CtlType
<1>8. CASE StopWait
  BY <1>8 DEF StopWait, GoStopping, StoppingStates, InjType, OtherTypes, CtlType
<1>9. CASE StopClear
  <2>1. sessions' \in [Sessions -> SessionStates]
    BY <1>9 DEF StopClear, OtherTypes, SessionStates
  <2>2. QED
    BY <1>9, <2>1 DEF StopClear, GoStopping, StoppingStates, InjType, OtherTypes, CtlType
<1>10. CASE StopReset
  <2>1. gate' \in Gates
    BY <1>10, ResetType DEF StopReset, OtherTypes
  <2>2. injection' \in Injectors \cup {Shutdown, NoOne}
    BY <1>10 DEF StopReset, OtherTypes
  <2>3. QED
    BY <1>10, <2>1, <2>2
    DEF StopReset, GoStopping, StoppingStates, InjType, OtherTypes, CtlType
<1>11. QED
  BY <1>2, <1>3, <1>4, <1>5, <1>6, <1>7, <1>8, <1>9, <1>10 DEF StoppingStep

LEMMA TypeStep == TypeInv /\ [Next]_vars => TypeInv'
<1> SUFFICES ASSUME TypeInv, [Next]_vars PROVE TypeInv'
  OBVIOUS
<1>1. InjType /\ OtherTypes /\ CtlType
  BY TypeParts
<1>2. CASE UNCHANGED vars
  BY <1>1, <1>2 DEF vars, history, TypeInv, TypeOK
<1>3. CASE Next
  <2>1. InjType' /\ OtherTypes' /\ CtlType'
    BY <1>1, <1>3, InjectorTypes, ControllerTypes, DaemonTypes DEF Next
  <2>2. QED
    BY <2>1 DEF TypeInv, TypeOK, InjType, OtherTypes, CtlType
<1>4. QED
  BY <1>2, <1>3

LEMMA TypesAlways == Spec => []TypeInv
BY TypeInit, TypeStep, PTL DEF Spec

\* Every variable keeps its type: the records the gate's methods build are
\* gates, and no request runs out of chunks or leaves its control flow.
THEOREM TypesHold == Spec => []TypeOK
<1>1. TypeInv => TypeOK
  BY DEF TypeInv
<1>2. QED
  BY <1>1, TypesAlways, PTL

-----------------------------------------------------------------------------
(* A pause holds.                                                          *)

LEMMA EndsPausedAppend ==
  ASSUME NEW q \in Seq(Deferred), NEW e \in Deferred
  PROVE  /\ e.kind = "pause" => EndsPaused(Append(q, e))
         /\ EndsPaused(q) /\ e.kind \in {"close", "keyboard"}
              => EndsPaused(Append(q, e))
<1> DEFINE p == Append(q, e)
<1>1. /\ Len(p) = Len(q) + 1 /\ p[Len(q) + 1] = e
      /\ \A i \in 1..Len(q) : p[i] = q[i]
      /\ Len(q) \in Nat
  OBVIOUS
<1> HIDE DEF p
<1>2. ASSUME e.kind = "pause" PROVE EndsPaused(p)
  BY <1>1, <1>2 DEF EndsPaused
<1>3. ASSUME EndsPaused(q), e.kind \in {"close", "keyboard"} PROVE EndsPaused(p)
  <2>1. PICK i \in 1..Len(q) :
          /\ q[i].kind = "pause"
          /\ \A j \in (i + 1)..Len(q) : q[j].kind \in {"pause", "close", "keyboard"}
    BY <1>3 DEF EndsPaused
  <2>2. i \in 1..Len(p) /\ p[i].kind = "pause"
    BY <1>1, <2>1
  <2>3. ASSUME NEW j \in (i + 1)..Len(p)
        PROVE  p[j].kind \in {"pause", "close", "keyboard"}
    <3>1. CASE j = Len(q) + 1
      BY <1>1, <1>3, <3>1
    <3>2. CASE j # Len(q) + 1
      <4>1. j \in (i + 1)..Len(q) /\ j \in 1..Len(q)
        BY <1>1, <3>2
      <4>2. QED
        BY <1>1, <2>1, <4>1
    <3>3. QED
      BY <3>1, <3>2
  <2>4. QED
    BY <2>2, <2>3 DEF EndsPaused
<1>4. QED
  BY <1>2, <1>3 DEF p

LEMMA ReplayTail ==
  ASSUME NEW q \in Seq(Deferred), q # << >>
  PROVE  /\ EndsPaused(q) => \/ EndsPaused(Tail(q))
                             \/ Head(q).kind = "pause" /\ Calm(Tail(q))
         /\ Calm(q) => /\ Head(q).kind \in {"pause", "close", "keyboard"}
                       /\ Calm(Tail(q))
<1> DEFINE p == Tail(q)
<1>1. /\ Len(q) \in Nat \ {0} /\ Len(p) = Len(q) - 1 /\ Head(q) = q[1]
      /\ \A i \in 1..Len(p) : p[i] = q[i + 1]
  OBVIOUS
<1> HIDE DEF p
<1>2. ASSUME Calm(q)
      PROVE  Head(q).kind \in {"pause", "close", "keyboard"} /\ Calm(p)
  BY <1>1, <1>2 DEF Calm
<1>3. ASSUME EndsPaused(q)
      PROVE  EndsPaused(p) \/ (Head(q).kind = "pause" /\ Calm(p))
  <2>1. PICK i \in 1..Len(q) :
          /\ q[i].kind = "pause"
          /\ \A j \in (i + 1)..Len(q) : q[j].kind \in {"pause", "close", "keyboard"}
    BY <1>3 DEF EndsPaused
  <2>2. CASE i = 1
    <3>1. ASSUME NEW j \in 1..Len(p)
          PROVE  p[j].kind \in {"pause", "close", "keyboard"}
      <4>1. j + 1 \in (i + 1)..Len(q)
        BY <1>1, <2>2
      <4>2. QED
        BY <1>1, <2>1, <4>1
    <3>2. QED
      BY <1>1, <2>1, <2>2, <3>1 DEF Calm
  <2>3. CASE i # 1
    <3>1. i - 1 \in 1..Len(p) /\ p[i - 1].kind = "pause"
      BY <1>1, <2>1, <2>3
    <3>2. ASSUME NEW j \in ((i - 1) + 1)..Len(p)
          PROVE  p[j].kind \in {"pause", "close", "keyboard"}
      <4>1. j + 1 \in (i + 1)..Len(q) /\ j \in 1..Len(p)
        BY <1>1, <2>3
      <4>2. QED
        BY <1>1, <2>1, <4>1
    <3>3. QED
      BY <3>1, <3>2 DEF EndsPaused
  <2>4. QED
    BY <2>2, <2>3
<1>4. QED
  BY <1>2, <1>3 DEF p

\* What the gate's methods leave of a pause when no call is unwinding.
Keeps(g, h) ==
  /\ g.phase = "paused" => h.phase = "paused"
  /\ h.injecting = g.injecting
  /\ ~g.injecting /\ g.deferred = << >> => h.deferred = << >>
  /\ g.injecting => \/ h.deferred = g.deferred
                    \/ \E e \in Deferred : /\ e.kind \in {"close", "keyboard"}
                                           /\ h.deferred = Append(g.deferred, e)

LEMMA KeepsHeld ==
  ASSUME gate \in Gates, ReplayInv, HeldInv, GateFree, UNCHANGED replay,
         held' = held, Keeps(gate, gate')
  PROVE  ReplayInv' /\ HeldInv'
<1>1. gate.injecting \in BOOLEAN /\ gate.deferred \in Seq(Deferred)
  BY GateFields
<1>2. ReplayInv'
  BY <1>1 DEF ReplayInv, Keeps, GateFree
<1>3. ASSUME held, gate'.injecting
      PROVE  gate'.phase = "paused" /\ EndsPaused(gate'.deferred)
  <2>1. gate.injecting
    BY <1>1, <1>3 DEF Keeps
  <2>2. gate.phase = "paused" /\ EndsPaused(gate.deferred)
    BY <1>3, <2>1 DEF HeldInv, GateFree
  <2>3. QED
    BY <1>1, <2>1, <2>2, EndsPausedAppend DEF Keeps
<1>4. ASSUME held, ~gate'.injecting
      PROVE  gate'.phase = "paused"
  BY <1>4 DEF HeldInv, GateFree, Keeps
<1>5. QED
  BY <1>2, <1>3, <1>4 DEF HeldInv, GateFree

LEMMA PausesHeld ==
  ASSUME gate \in Gates, ReplayInv, GateFree, UNCHANGED replay, gate' = Pause(gate)
  PROVE  ReplayInv' /\ HeldInv'
<1>1. gate.injecting \in BOOLEAN /\ gate.deferred \in Seq(Deferred)
  BY GateFields
<1>2. /\ gate'.phase = "paused" /\ gate'.injecting = gate.injecting
      /\ gate'.deferred = IF gate.injecting THEN Append(gate.deferred, Entry("pause"))
                          ELSE gate.deferred
  BY PauseEffect
<1>3. EndsPaused(Append(gate.deferred, Entry("pause")))
  <2>1. Entry("pause") \in Deferred /\ Entry("pause").kind = "pause"
    BY EntryType DEF Kinds, Entry
  <2>2. QED
    BY <1>1, <2>1, EndsPausedAppend
<1>4. ReplayInv'
  BY <1>1, <1>2 DEF ReplayInv, GateFree
<1>5. HeldInv'
  BY <1>1, <1>2, <1>3 DEF HeldInv, GateFree
<1>6. QED
  BY <1>4, <1>5

LEMMA LiftsHeld ==
  ASSUME ReplayInv, GateFree, UNCHANGED replay, ~held',
         ~gate'.injecting => gate'.deferred = << >>
  PROVE  ReplayInv' /\ HeldInv'
BY DEF ReplayInv, HeldInv, GateFree

LEMMA PollHeld ==
  ASSUME gate \in Gates, held \in BOOLEAN, ReplayInv, HeldInv, GateFree,
         UNCHANGED replay, Holds(WatchdogFires(gate)),
         gate' = NotePoll(gate) \/ gate' = Watchdog(gate)
  PROVE  ReplayInv' /\ HeldInv'
<1>1. CASE WatchdogFires(gate)
  <2>1. gate' = Pause(gate)
    BY <1>1 DEF NotePoll, Watchdog
  <2>2. QED
    BY <2>1, PausesHeld
<1>2. CASE ~WatchdogFires(gate)
  <2>1. held' = held
    BY <1>2 DEF Holds
  <2>2. Keeps(gate, gate')
    BY <1>2, PollEffect DEF Keeps
  <2>3. QED
    BY <2>1, <2>2, KeepsHeld
<1>3. QED
  BY <1>1, <1>2

LEMMA HeldInit == Init => ReplayInv /\ HeldInv
BY DEF Init, InitialGate, NoReplay, ReplayInv, HeldInv

LEMMA HeldInjector ==
  ASSUME TypeInv, ReplayInv, HeldInv, NEW r \in Injectors,
         \/ \E s \in Sessions, n \in 1..MaxChunks : Arrive(r, s, n)
         \/ InjectorStep(r)
  PROVE  ReplayInv' /\ HeldInv'
<1> USE DEF history
<1>1. /\ gate \in Gates /\ held \in BOOLEAN /\ gate.injecting \in BOOLEAN
      /\ replay.active \in BOOLEAN /\ replay.rest \in Seq(Deferred)
      /\ replay.fresh \in BOOLEAN
  BY GateFields DEF TypeInv, TypeOK, Replays
<1>2. ASSUME NEW s \in Sessions, NEW n \in 1..MaxChunks, Arrive(r, s, n)
      PROVE  ReplayInv' /\ HeldInv'
  BY <1>1, <1>2, PollHeld DEF Arrive
<1>3. CASE UNCHANGED << gate, replay, held >>
  BY <1>3 DEF ReplayInv, HeldInv
<1>4. CASE \/ Capture(r) \/ KeyboardCheck(r) \/ Precheck(r) \/ StaleCheck(r)
           \/ MarkVerb(r) \/ Acquire(r) \/ PostCheck(r) \/ StretchEnded(r)
           \/ ReadGeneration(r) \/ ChunkCheck(r) \/ SendChunk(r) \/ Unlock(r)
  BY <1>3, <1>4
  DEF Capture, KeyboardCheck, Precheck, StaleCheck, MarkVerb, Acquire, PostCheck,
      StretchEnded, ReadGeneration, ChunkCheck, SendChunk, Unlock, OnlyInj
<1>5. CASE Arm(r)
  <2>1. CASE MayBegin(gate, inj[r].epoch)
    <3>1. ~held
      BY <1>5, <2>1 DEF Arm, MayBegin, HeldInv, GateFree
    <3>2. gate' = BeginInject(gate, inj[r].session) /\ inj[r].session \in MaybeSession
      BY <1>5, <2>1 DEF Arm, TypeInv, TypeOK, Injections
    <3>3. gate'.injecting
      BY <1>1, <3>2, BeginInjectEffect
    <3>4. QED
      BY <1>5, <3>1, <3>3, LiftsHeld DEF Arm
  <2>2. CASE ~MayBegin(gate, inj[r].epoch)
    BY <1>3, <1>5, <2>2 DEF Arm
  <2>3. QED
    BY <2>1, <2>2
<1>6. CASE Record(r)
  <2>1. CASE Accepts(gate, inj[r].generation)
    <3>1. ~held
      BY <1>6, <2>1 DEF Record, Accepts, HeldInv, GateFree
    <3>2. gate' = StoreDrive(gate, inj[r].session) /\ inj[r].session \in MaybeSession
      BY <1>6, <2>1 DEF Record, TypeInv, TypeOK, Injections
    <3>3. gate'.injecting = gate.injecting /\ gate'.deferred = gate.deferred
      BY <1>1, <3>2, StoreDriveEffect
    <3>4. QED
      BY <1>6, <3>1, <3>3, LiftsHeld DEF Record, ReplayInv
  <2>2. CASE ~Accepts(gate, inj[r].generation)
    BY <1>3, <1>6, <2>2 DEF Record
  <2>3. QED
    BY <2>1, <2>2
<1>7. CASE BeginUnwind(r)
  <2>1. /\ gate'.injecting = FALSE /\ gate'.deferred = << >>
        /\ gate'.phase = gate.phase
    BY <1>1, <1>7, SettleInjectEffect DEF BeginUnwind
  <2>2. replay'.active = TRUE /\ replay'.rest = gate.deferred
    BY <1>7 DEF BeginUnwind
  <2>3. ReplayInv'
    BY <2>1, <2>2 DEF ReplayInv
  <2>4. ASSUME held
        PROVE  \/ EndsPaused(gate.deferred)
               \/ gate.phase = "paused" /\ Calm(gate.deferred)
    <3>1. gate.phase = "paused" /\ (gate.injecting => EndsPaused(gate.deferred))
      BY <1>7, <2>4 DEF BeginUnwind, GateFree, HeldInv
    <3>2. ~gate.injecting => Calm(gate.deferred)
      BY DEF ReplayInv, Calm
    <3>3. QED
      BY <3>1, <3>2
  <2>5. HeldInv'
    BY <1>7, <2>1, <2>2, <2>4 DEF BeginUnwind, HeldInv
  <2>6. QED
    BY <2>3, <2>5
<1>8. CASE ReplayOne(r)
  <2>1. /\ replay.rest # << >> /\ replay.active /\ gate.injecting = FALSE
        /\ gate.deferred = << >>
    BY <1>1, <1>8 DEF ReplayOne, ReplayInv
  <2>2. PICK e \in Deferred : e = Head(replay.rest)
    BY <1>1, <2>1
  <2>3. gate' = ApplyDeferred(gate, e, replay.fresh)
    BY <1>8, <2>2 DEF ReplayOne
  <2>4. /\ gate'.injecting = FALSE /\ gate'.deferred = << >>
        /\ e.kind = "pause" => gate'.phase = "paused"
        /\ e.kind \in {"close", "keyboard"} /\ gate.phase = "paused"
             => gate'.phase = "paused"
    <3>1. gate'.injecting = FALSE /\ gate'.deferred = << >>
      BY <1>1, <2>1, <2>3, ApplyDeferredEffect
    <3>2. ASSUME e.kind = "pause" PROVE gate'.phase = "paused"
      <4>1. gate' = Publish([gate EXCEPT !.phase = "paused"])
        BY <2>3, <3>2 DEF ApplyDeferred
      <4>2. QED
        BY <1>1, <4>1 DEF Publish, Gates
    <3>3. e.kind \in {"close", "keyboard"} /\ gate.phase = "paused"
            => gate'.phase = "paused"
      BY <1>1, <2>1, <2>3, ApplyDeferredEffect
    <3>4. QED
      BY <3>1, <3>2, <3>3
  <2>5. replay'.active = replay.active /\ replay'.rest = Tail(replay.rest)
    BY <1>8 DEF ReplayOne, TypeInv, TypeOK, Replays
  <2>6. ReplayInv'
    BY <2>1, <2>4, <2>5 DEF ReplayInv
  <2>7. ASSUME held
        PROVE  \/ EndsPaused(Tail(replay.rest))
               \/ gate'.phase = "paused" /\ Calm(Tail(replay.rest))
    BY <1>1, <2>1, <2>2, <2>4, <2>7, ReplayTail DEF HeldInv
  <2>8. HeldInv'
    BY <1>8, <2>1, <2>5, <2>7 DEF ReplayOne, HeldInv
  <2>9. QED
    BY <2>6, <2>8
<1>9. CASE EndInject(r)
  <2>1. /\ gate'.injecting = gate.injecting /\ gate'.deferred = gate.deferred
        /\ gate'.phase = gate.phase
    BY <1>1, <1>9, PublishEffect DEF EndInject
  <2>2. replay'.active = FALSE /\ replay'.rest = << >> /\ held' = held
    BY <1>9 DEF EndInject, NoReplay
  <2>3. ReplayInv'
    BY <2>1, <2>2 DEF ReplayInv
  <2>4. ~EndsPaused(replay.rest)
    BY <1>9 DEF EndInject, EndsPaused
  <2>5. HeldInv'
    BY <2>1, <2>2, <2>4 DEF HeldInv, ReplayInv
  <2>6. QED
    BY <2>3, <2>5
<1>10. QED
  BY <1>2, <1>4, <1>5, <1>6, <1>7, <1>8, <1>9 DEF InjectorStep, Inject

LEMMA HeldController ==
  ASSUME TypeInv, ReplayInv, HeldInv, NEW c \in Controllers,
         ControlArrive(c) \/ ControlStep(c)
  PROVE  ReplayInv' /\ HeldInv'
<1> USE DEF history
<1>1. /\ gate \in Gates /\ held \in BOOLEAN /\ gate.injecting \in BOOLEAN
  BY GateFields DEF TypeInv, TypeOK
<1>2. CASE UNCHANGED << gate, replay, held >>
  BY <1>2 DEF ReplayInv, HeldInv
<1>3. ASSUME NEW companion \in BOOLEAN, ControlPause(c, companion)
      PROVE  ReplayInv' /\ HeldInv'
  BY <1>1, <1>3, PausesHeld DEF ControlPause
<1>4. ASSUME NEW companion \in BOOLEAN, ControlStop(c, companion)
      PROVE  ReplayInv' /\ HeldInv'
  <2>1. CASE Permitted("stop", gate.phase, companion)
    <3>1. ~held'
      BY <1>4, <2>1 DEF ControlStop, Permitted, LiftsUserPause, HeldInv, GateFree
    <3>2. gate' = Stop(gate)
      BY <1>4, <2>1 DEF ControlStop
    <3>3. ~gate'.injecting => gate'.deferred = << >>
      BY <1>1, <3>2, StopEffect
    <3>4. QED
      BY <1>4, <3>1, <3>3, LiftsHeld DEF ControlStop
  <2>2. CASE ~Permitted("stop", gate.phase, companion)
    BY <1>2, <1>4, <2>2 DEF ControlStop
  <2>3. QED
    BY <2>1, <2>2
<1>5. CASE \/ \E action \in Actions \cap {"start", "resume"}, companion \in BOOLEAN :
                 ControlKeyboardCheck(c, action, companion)
           \/ ControlLive(c) \/ ControlSelect(c)
  BY <1>2, <1>5 DEF ControlKeyboardCheck, ControlLive, ControlSelect, OnlyCtl
<1>6. CASE ControlApply(c)
  <2>1. PICK action \in {"start", "resume"}, s \in MaybeSession, companion \in BOOLEAN :
          ctl[c].action = action /\ ctl[c].session = s /\ ctl[c].companion = companion
    BY <1>6 DEF ControlApply, EndCtl, TypeInv, TypeOK, ControlRequests
  <2>2. CASE /\ Permitted(action, gate.phase, companion)
             /\ Admits(gate, action, s, companion)
    <3>1. gate' = Apply(gate, action, s, companion) /\ held' = (held /\ ~companion)
      BY <1>6, <2>1, <2>2 DEF ControlApply
    <3>2. ~held'
      BY <1>6, <2>2, <3>1
      DEF ControlApply, Permitted, LiftsUserPause, HeldInv, GateFree
    <3>3. /\ gate'.injecting = gate.injecting
          /\ ~gate.injecting /\ gate.deferred = << >> => gate'.deferred = << >>
      BY <1>1, <3>1, ApplyEffect
    <3>4. ~gate'.injecting => gate'.deferred = << >>
      BY <3>3 DEF ReplayInv
    <3>5. QED
      BY <1>6, <3>2, <3>4, LiftsHeld DEF ControlApply
  <2>3. CASE ~(/\ Permitted(action, gate.phase, companion)
               /\ Admits(gate, action, s, companion))
    BY <1>2, <1>6, <2>1, <2>3 DEF ControlApply
  <2>4. QED
    BY <2>2, <2>3
<1>7. QED
  BY <1>3, <1>4, <1>5, <1>6 DEF ControlArrive, ControlStep

LEMMA HeldDaemon ==
  ASSUME TypeInv, ReplayInv, HeldInv,
         \/ CompanionPoll \/ WatchdogTick \/ KeyboardReport \/ Tick
         \/ \E s \in Sessions : OpenSession(s) \/ CloseRemove(s) \/ CloseStep(s)
         \/ StopCancel \/ StoppingStep
  PROVE  ReplayInv' /\ HeldInv'
<1> USE DEF history
<1>1. /\ gate \in Gates /\ held \in BOOLEAN /\ gate.injecting \in BOOLEAN
  BY GateFields DEF TypeInv, TypeOK
<1>2. CASE UNCHANGED << gate, replay, held >>
  BY <1>2 DEF ReplayInv, HeldInv
<1>3. CASE CompanionPoll
  BY <1>1, <1>3, PollHeld DEF CompanionPoll, OnlyGate
<1>4. CASE WatchdogTick
  BY <1>1, <1>4, PollHeld DEF WatchdogTick, OnlyGate
<1>5. CASE KeyboardReport
  <2>1. gate' = SetKeyboardUnavailable(gate)
    BY <1>5 DEF KeyboardReport
  <2>2. Entry("keyboard") \in Deferred /\ Entry("keyboard").kind = "keyboard"
    BY EntryType DEF Kinds, Entry
  <2>3. /\ gate.phase = "paused" => gate'.phase = "paused"
        /\ gate'.injecting = gate.injecting
        /\ ~gate.injecting => gate'.deferred = gate.deferred
        /\ gate'.deferred \in {gate.deferred, Append(gate.deferred, Entry("keyboard"))}
    BY <1>1, <2>1, SetKeyboardUnavailableEffect
  <2>4. Keeps(gate, gate')
    BY <2>2, <2>3 DEF Keeps
  <2>5. QED
    BY <1>1, <1>5, <2>4, KeepsHeld DEF KeyboardReport, OnlyGate
<1>6. CASE Tick
  <2>1. /\ gate'.phase = gate.phase /\ gate'.injecting = gate.injecting
        /\ gate'.deferred = gate.deferred
    BY <1>1, <1>6 DEF Tick, Gates
  <2>2. replay' = replay /\ held' = held
    BY <1>6 DEF Tick, OnlyGate
  <2>3. QED
    BY <2>1, <2>2 DEF ReplayInv, HeldInv
<1>7. ASSUME NEW s \in Sessions, CloseNote(s) \/ CloseFinish(s)
      PROVE  ReplayInv' /\ HeldInv'
  <2>1. PICK e \in Deferred : e = CloseEntry(s, gate.generation)
    BY <1>1, EntryType, GateFields DEF MaybeSession
  <2>2. e.kind = "close"
    BY <2>1 DEF CloseEntry, Entry
  <2>3. gate' = NoteSessionClosed(gate, s) \/ gate' = FinishClosedSession(gate, s)
    BY <1>7 DEF CloseNote, CloseFinish
  <2>4. /\ gate.phase = "paused" => gate'.phase = "paused"
        /\ gate'.injecting = gate.injecting
        /\ ~gate.injecting /\ gate.deferred = << >> => gate'.deferred = << >>
        /\ gate.injecting => gate'.deferred \in {gate.deferred, Append(gate.deferred, e)}
    BY <1>1, <2>1, <2>3, NoteSessionClosedEffect, FinishClosedSessionEffect
  <2>5. Keeps(gate, gate')
    BY <2>2, <2>4 DEF Keeps
  <2>6. QED
    BY <1>1, <1>7, <2>5, KeepsHeld DEF CloseNote, CloseFinish, OnlySessions
<1>8. CASE \/ \E s \in Sessions : OpenSession(s) \/ CloseRemove(s)
           \/ StopWait \/ StopClear
  BY <1>2, <1>8 DEF OpenSession, CloseRemove, OnlySessions, StopWait, StopClear
<1>9. CASE StopCancel
  <2>1. gate' = ShutdownCancel(gate) /\ ~held'
    BY <1>9 DEF StopCancel
  <2>2. /\ gate'.injecting = gate.injecting
        /\ ~gate.injecting => gate'.deferred = gate.deferred
    BY <1>1, <2>1, StopEffect
  <2>3. ~gate'.injecting => gate'.deferred = << >>
    BY <2>2 DEF ReplayInv
  <2>4. QED
    BY <1>9, <2>1, <2>3, LiftsHeld DEF StopCancel
<1>10. CASE StopReset
  <2>1. gate' = Reset(gate) /\ ~held'
    BY <1>10 DEF StopReset
  <2>2. gate'.deferred = << >>
    BY <1>1, <2>1, ResetEffect
  <2>3. QED
    BY <1>10, <2>1, <2>2, LiftsHeld DEF StopReset
<1>11. QED
  BY <1>3, <1>4, <1>5, <1>6, <1>7, <1>8, <1>9, <1>10 DEF CloseStep, StoppingStep

LEMMA HeldStep ==
  TypeInv /\ ReplayInv /\ HeldInv /\ [Next]_vars => ReplayInv' /\ HeldInv'
<1> SUFFICES ASSUME TypeInv, ReplayInv, HeldInv, [Next]_vars
             PROVE  ReplayInv' /\ HeldInv'
  OBVIOUS
<1>1. CASE UNCHANGED vars
  BY <1>1 DEF vars, history, ReplayInv, HeldInv
<1>2. CASE Next
  BY <1>2, HeldInjector, HeldController, HeldDaemon DEF Next
<1>3. QED
  BY <1>1, <1>2

LEMMA ReplayAlways == Spec => [](ReplayInv /\ HeldInv)
BY HeldInit, HeldStep, TypesAlways, PTL DEF Spec

\* A pause, once it landed, keeps the gate paused until the companion lifts it
\* or the daemon shuts down, for any number of sessions, requests and chunks
\* and any watchdog window.
THEOREM PauseHolds == Spec => []PauseHeld
<1>1. HeldInv => PauseHeld
  BY DEF HeldInv, PauseHeld, GateFree
<1>2. QED
  BY <1>1, ReplayAlways, PTL

-----------------------------------------------------------------------------
(* An interrupted request sends at most one more chunk.                    *)

ChunkInv == EpochInv /\ LateInv

LEMMA ChunkInit == Init => ChunkInv
<1> SUFFICES ASSUME Init PROVE ChunkInv
  OBVIOUS
<1>1. \A r \in Injectors : inj[r].pc = "idle" /\ late[r] = 0
  BY DEF Init, InjectorAt
<1>2. interrupted = {} /\ PublishedMatches
  BY DEF Init, InitialGate, PublishedMatches
<1>3. QED
  BY <1>1, <1>2 DEF ChunkInv, EpochInv, LateInv, Reading

\* A step of the gate that does not move the epoch back, and moves it forward
\* when it interrupts.
LEMMA GateStepChunk ==
  ASSUME TypeInv, ChunkInv, NEW cond, Interrupts(cond),
         gate' \in Gates, gate'.epoch >= gate.epoch,
         cond => gate'.epoch > gate.epoch,
         PublishedMatches', UNCHANGED inj
  PROVE  ChunkInv'
<1>1. gate.epoch \in Nat /\ gate'.epoch \in Nat
  BY GateFields DEF TypeInv, TypeOK
<1>2. \A r \in Injectors : inj[r].epoch \in Nat
  BY DEF TypeInv, TypeOK, Injections
<1>3. interrupted \subseteq Injectors /\ Reading \subseteq Injectors
  BY DEF TypeInv, TypeOK, Reading
<1>4. \A r \in Reading' : inj'[r].epoch <= gate'.epoch
  BY <1>1, <1>2, <1>3 DEF ChunkInv, EpochInv, Reading
<1>5. \A r \in interrupted' : /\ inj'[r].epoch < gate'.epoch
                              /\ inj'[r].pc \notin {"idle", "capture"}
  <2>1. \A r \in interrupted : /\ inj[r].epoch < gate'.epoch
                               /\ inj[r].pc \notin {"idle", "capture"}
    BY <1>1, <1>2, <1>3 DEF ChunkInv, EpochInv
  <2>2. ASSUME cond, NEW r \in Reading
        PROVE  inj[r].epoch < gate'.epoch /\ inj[r].pc \notin {"idle", "capture"}
    BY <1>1, <1>2, <1>3, <2>2 DEF ChunkInv, EpochInv, Reading
  <2>3. QED
    BY <2>1, <2>2 DEF Interrupts
<1>6. LateInv'
  BY DEF ChunkInv, LateInv, Interrupts
<1>7. QED
  BY <1>4, <1>5, <1>6 DEF ChunkInv, EpochInv

\* A step of the gate that interrupts nobody and leaves the epoch.
LEMMA SameEpochChunk ==
  ASSUME TypeInv, ChunkInv, gate'.epoch = gate.epoch, PublishedMatches',
         UNCHANGED << inj, interrupted, late >>
  PROVE  ChunkInv'
BY DEF ChunkInv, EpochInv, LateInv, Reading

\* A step of one request that reads nothing and sends nothing.
LEMMA GoInjChunk ==
  ASSUME TypeInv, ChunkInv, NEW r \in Injectors, NEW from, NEW to,
         from \notin {"idle", "capture", "done"}, to \notin {"idle", "capture", "send"},
         GoInj(r, from, to), gate'.epoch = gate.epoch, PublishedMatches',
         UNCHANGED << interrupted, late >>
  PROVE  ChunkInv'
<1>1. gate.epoch \in Nat /\ inj[r] \in Injections
  BY GateFields DEF TypeInv, TypeOK
<1>2. /\ inj[r].pc = from
      /\ inj'[r].pc = to
      /\ inj'[r].epoch \in {0, inj[r].epoch}
      /\ to # "done" => inj'[r].epoch = inj[r].epoch
      /\ \A p \in Injectors : p # r => inj'[p] = inj[p]
  BY <1>1 DEF GoInj, InjectorAt, Injections, TypeInv, TypeOK
<1>3. ASSUME NEW p \in Reading' PROVE inj'[p].epoch <= gate.epoch
  <2>1. p \in Injectors /\ inj'[p].pc \notin {"idle", "capture", "done"}
    BY <1>3 DEF Reading
  <2>2. CASE p = r
    <3>1. to # "done" /\ r \in Reading
      BY <1>2, <2>1, <2>2 DEF Reading
    <3>2. QED
      BY <1>2, <2>1, <2>2, <3>1 DEF ChunkInv, EpochInv
  <2>3. CASE p # r
    BY <1>2, <2>1, <2>3 DEF ChunkInv, EpochInv, Reading
  <2>4. QED
    BY <2>2, <2>3
<1>4. \A p \in interrupted : /\ inj'[p].epoch < gate.epoch
                             /\ inj'[p].pc \notin {"idle", "capture"}
  <2>1. interrupted \subseteq Injectors
    BY DEF TypeInv, TypeOK
  <2>2. ASSUME r \in interrupted PROVE inj'[r].epoch < gate.epoch
    <3>1. inj[r].epoch \in Nat /\ inj[r].epoch < gate.epoch
      BY <1>1, <2>2 DEF ChunkInv, EpochInv, Injections
    <3>2. QED
      BY <1>1, <1>2, <3>1
  <2>3. QED
    BY <1>2, <2>1, <2>2 DEF ChunkInv, EpochInv
<1>5. LateInv'
  BY <1>2 DEF ChunkInv, LateInv
<1>6. QED
  BY <1>3, <1>4, <1>5 DEF ChunkInv, EpochInv

\* The watchdog and a poll publish what they do, and bump the epoch to pause.
LEMMA WatchdogEpoch ==
  ASSUME NEW g \in Gates, Matches(g), NEW h, h = NotePoll(g) \/ h = Watchdog(g)
  PROVE  /\ h.epoch >= g.epoch /\ Matches(h)
         /\ WatchdogFires(g) => h.epoch > g.epoch
<1>1. g.epoch \in Nat
  BY GateFields
<1>2. CASE WatchdogFires(g)
  <2>1. h = Pause(g)
    BY <1>2 DEF NotePoll, Watchdog
  <2>2. h.epoch = g.epoch + 1 /\ Matches(h)
    BY <2>1, PauseEffect
  <2>3. QED
    BY <1>1, <2>2
<1>3. CASE ~WatchdogFires(g)
  <2>1. h.epoch = g.epoch /\ h.phase = g.phase /\ h.published = g.published
    BY <1>3, PollEffect
  <2>2. QED
    BY <1>1, <1>3, <2>1 DEF Matches
<1>4. QED
  BY <1>2, <1>3

LEMMA ChunkInjector ==
  ASSUME TypeInv, TypeInv', ReplayInv, ChunkInv, NEW r \in Injectors,
         \/ \E s \in Sessions, n \in 1..MaxChunks : Arrive(r, s, n)
         \/ InjectorStep(r)
  PROVE  ChunkInv'
<1> USE DEF history
<1>1. /\ gate \in Gates /\ gate' \in Gates /\ gate.epoch \in Nat
      /\ inj[r] \in Injections /\ inj[r].epoch \in Nat /\ inj[r].session \in MaybeSession
      /\ interrupted \subseteq Injectors /\ late \in [Injectors -> Nat]
  BY GateFields DEF TypeInv, TypeOK, Injections
<1>2. Matches(gate) /\ (PublishedMatches' <=> Matches(gate'))
  BY DEF ChunkInv, EpochInv, PublishedMatches, Matches
<1>3. ASSUME NEW s \in Sessions, NEW n \in 1..MaxChunks, Arrive(r, s, n)
      PROVE  ChunkInv'
  <2>1. /\ inj[r].pc = "idle" /\ inj'[r].pc = "capture"
        /\ \A p \in Injectors : p # r => inj'[p] = inj[p]
    BY <1>1, <1>3 DEF Arrive, TypeInv, TypeOK, Injections
  <2>2. r \notin interrupted /\ r \notin Reading
    BY <2>1 DEF ChunkInv, EpochInv, Reading
  <2>3. Reading' = Reading
    BY <2>1 DEF Reading
  <2>4. /\ gate'.epoch >= gate.epoch /\ Matches(gate')
        /\ WatchdogFires(gate) => gate'.epoch > gate.epoch
    BY <1>1, <1>2, <1>3, WatchdogEpoch DEF Arrive
  <2>5. gate'.epoch \in Nat /\ \A p \in Injectors : inj[p].epoch \in Nat
    BY <1>1, GateFields DEF TypeInv, TypeOK, Injections
  <2>6. \A p \in Reading' : inj'[p].epoch <= gate'.epoch
    BY <1>1, <2>1, <2>2, <2>3, <2>4, <2>5 DEF ChunkInv, EpochInv, Reading
  <2>7. \A p \in interrupted' : /\ inj'[p].epoch < gate'.epoch
                                /\ inj'[p].pc \notin {"idle", "capture"}
    <3>1. ASSUME NEW p \in interrupted
          PROVE  inj'[p].epoch < gate'.epoch /\ inj'[p].pc \notin {"idle", "capture"}
      BY <1>1, <2>1, <2>2, <2>4, <2>5 DEF ChunkInv, EpochInv
    <3>2. ASSUME WatchdogFires(gate), NEW p \in Reading
          PROVE  inj'[p].epoch < gate'.epoch /\ inj'[p].pc \notin {"idle", "capture"}
      BY <1>1, <2>1, <2>2, <2>4, <2>5, <3>2 DEF ChunkInv, EpochInv, Reading
    <3>3. QED
      BY <1>3, <3>1, <3>2 DEF Arrive, Interrupts
  <2>8. LateInv'
    BY <1>3, <2>1 DEF Arrive, Interrupts, ChunkInv, LateInv
  <2>9. QED
    BY <1>2, <2>4, <2>6, <2>7, <2>8 DEF ChunkInv, EpochInv
<1>4. CASE Capture(r)
  <2>1. /\ inj[r].pc = "capture" /\ inj'[r].pc = "keyboard"
        /\ inj'[r].epoch = gate.epoch
        /\ \A p \in Injectors : p # r => inj'[p] = inj[p]
    BY <1>1, <1>2, <1>4 DEF Capture, TypeInv, TypeOK, Injections, Matches
  <2>2. r \notin interrupted
    BY <2>1 DEF ChunkInv, EpochInv
  <2>3. \A p \in Reading' : inj'[p].epoch <= gate.epoch
    BY <1>1, <2>1 DEF ChunkInv, EpochInv, Reading
  <2>4. \A p \in interrupted : /\ inj'[p].epoch < gate.epoch
                               /\ inj'[p].pc \notin {"idle", "capture"}
    BY <1>1, <2>1, <2>2 DEF ChunkInv, EpochInv
  <2>5. LateInv'
    BY <1>4, <2>1 DEF Capture, OnlyInj, ChunkInv, LateInv
  <2>6. QED
    BY <1>2, <1>4, <2>3, <2>4, <2>5 DEF Capture, OnlyInj, ChunkInv, EpochInv
<1>5. ASSUME NEW from, NEW to, from \notin {"idle", "capture", "done"},
             to \notin {"idle", "capture", "send"}, GoInj(r, from, to),
             UNCHANGED << gate, interrupted, late >>
      PROVE  ChunkInv'
  BY <1>2, <1>5, GoInjChunk
<1>6. CASE \/ KeyboardCheck(r) \/ Precheck(r) \/ StaleCheck(r) \/ MarkVerb(r)
           \/ PostCheck(r) \/ StretchEnded(r)
  BY <1>5, <1>6 DEF KeyboardCheck, Precheck, StaleCheck, MarkVerb, PostCheck,
                    StretchEnded, OnlyInj
<1>7. CASE Acquire(r)
  BY <1>5, <1>7 DEF Acquire
<1>8. CASE Arm(r)
  <2>1. gate'.epoch = gate.epoch /\ Matches(gate')
    <3> PICK s \in MaybeSession : s = inj[r].session
      BY <1>1
    <3>1. gate' = gate \/ gate' = BeginInject(gate, s)
      BY <1>8 DEF Arm
    <3>2. CASE gate' = gate
      BY <1>2, <3>2
    <3>3. CASE gate' = BeginInject(gate, s)
      <4>1. BeginInject(gate, s).epoch = gate.epoch /\ Matches(BeginInject(gate, s))
        BY <1>1, BeginInjectEffect
      <4>2. QED
        BY <3>3, <4>1
    <3>4. QED
      BY <3>1, <3>2, <3>3
  <2>2. QED
    BY <1>2, <1>8, <2>1, GoInjChunk DEF Arm
<1>9. CASE ReadGeneration(r)
  <2>1. /\ inj[r].pc = "generation" /\ inj'[r].pc = "loop"
        /\ inj'[r].epoch = inj[r].epoch
        /\ \A p \in Injectors : p # r => inj'[p] = inj[p]
    BY <1>1, <1>9 DEF ReadGeneration, TypeInv, TypeOK, Injections
  <2>2. Reading' = Reading
    BY <2>1 DEF Reading
  <2>3. \A p \in Injectors : inj'[p].epoch = inj[p].epoch
    BY <2>1
  <2>4. \A p \in interrupted : inj'[p].pc \notin {"idle", "capture"}
    BY <1>1, <2>1 DEF ChunkInv, EpochInv
  <2>5. LateInv'
    BY <1>9, <2>1 DEF ReadGeneration, OnlyInj, ChunkInv, LateInv
  <2>6. QED
    BY <1>1, <1>2, <1>9, <2>2, <2>3, <2>4, <2>5
    DEF ReadGeneration, OnlyInj, ChunkInv, EpochInv, Reading
<1>10. CASE ChunkCheck(r)
  <2>1. CASE IsCancelled(r) \/ inj[r].left = 0
    BY <1>5, <1>10, <2>1 DEF ChunkCheck, OnlyInj
  <2>2. CASE ~IsCancelled(r) /\ inj[r].left # 0
    <3>1. inj[r].epoch = gate.epoch
      BY <1>2, <2>2 DEF IsCancelled, Cancelled, Matches
    <3>2. r \notin interrupted
      BY <1>1, <3>1 DEF ChunkInv, EpochInv
    <3>3. late[r] = 0
      BY <1>1, <3>2 DEF ChunkInv, LateInv
    <3>4. inj[r].left > 0
      BY <1>1, <2>2 DEF Injections
    <3>5. /\ inj[r].pc = "loop" /\ inj'[r].pc = "send"
          /\ inj'[r].epoch = inj[r].epoch
          /\ \A p \in Injectors : p # r => inj'[p] = inj[p]
      BY <1>1, <1>10, <2>2, <3>4 DEF ChunkCheck, GoInj, TypeInv, TypeOK, Injections
    <3>6. \A p \in Reading' : inj'[p].epoch <= gate.epoch
      BY <1>1, <3>5 DEF ChunkInv, EpochInv, Reading
    <3>7. \A p \in interrupted : /\ inj'[p].epoch < gate.epoch
                                 /\ inj'[p].pc \notin {"idle", "capture"}
      BY <1>1, <3>2, <3>5 DEF ChunkInv, EpochInv
    <3>8. LateInv'
      BY <1>10, <3>3, <3>5 DEF ChunkCheck, OnlyInj, ChunkInv, LateInv
    <3>9. QED
      BY <1>2, <1>10, <3>6, <3>7, <3>8 DEF ChunkCheck, OnlyInj, ChunkInv, EpochInv
  <2>3. QED
    BY <2>1, <2>2
<1>11. CASE SendChunk(r)
  <2>1. /\ inj[r].pc = "send" /\ inj'[r].pc \in {"loop", "unwind"}
        /\ inj'[r].epoch = inj[r].epoch
        /\ \A p \in Injectors : p # r => inj'[p] = inj[p]
    BY <1>1, <1>11 DEF SendChunk, TypeInv, TypeOK, Injections
  <2>2. late[r] = 0
    BY <2>1 DEF ChunkInv, LateInv
  <2>3. /\ late'[r] = IF r \in interrupted THEN 1 ELSE 0
        /\ \A p \in Injectors : p # r => late'[p] = late[p]
    BY <1>1, <1>11, <2>2 DEF SendChunk
  <2>4. LateInv'
    <3>1. late'[r] <= 1 /\ (late'[r] > 0 => r \in interrupted)
      BY <2>3
    <3>2. interrupted' = interrupted
      BY <1>11 DEF SendChunk
    <3>3. QED
      BY <2>1, <2>3, <3>1, <3>2 DEF ChunkInv, LateInv
  <2>5. Reading' = Reading
    BY <2>1 DEF Reading
  <2>6. \A p \in Injectors : inj'[p].epoch = inj[p].epoch
    BY <2>1
  <2>7. \A p \in interrupted : inj'[p].pc \notin {"idle", "capture"}
    BY <1>1, <2>1 DEF ChunkInv, EpochInv
  <2>8. QED
    BY <1>1, <1>2, <1>11, <2>4, <2>5, <2>6, <2>7
    DEF SendChunk, ChunkInv, EpochInv, Reading
<1>12. CASE Record(r)
  <2>1. gate'.epoch = gate.epoch /\ Matches(gate')
    <3> PICK s \in MaybeSession : s = inj[r].session
      BY <1>1
    <3>1. gate' = gate \/ gate' = StoreDrive(gate, s)
      BY <1>12 DEF Record
    <3>2. CASE gate' = gate
      BY <1>2, <3>2
    <3>3. CASE gate' = StoreDrive(gate, s)
      <4>1. StoreDrive(gate, s).epoch = gate.epoch /\ Matches(StoreDrive(gate, s))
        BY <1>1, StoreDriveEffect
      <4>2. QED
        BY <3>3, <4>1
    <3>4. QED
      BY <3>1, <3>2, <3>3
  <2>2. QED
    BY <1>2, <1>12, <2>1, GoInjChunk DEF Record
<1>13. CASE BeginUnwind(r)
  <2>1. gate'.epoch = gate.epoch /\ Matches(gate')
    <3>1. gate' = SettleInject(gate)
      BY <1>13 DEF BeginUnwind
    <3>2. /\ gate'.epoch = gate.epoch /\ gate'.phase = gate.phase
          /\ gate'.published = gate.published
      BY <1>1, <3>1, SettleInjectEffect
    <3>3. QED
      BY <1>2, <3>2 DEF Matches
  <2>2. QED
    BY <1>2, <1>13, <2>1, GoInjChunk DEF BeginUnwind
<1>14. CASE ReplayOne(r)
  <2>1. /\ replay.rest # << >> /\ replay.rest \in Seq(Deferred)
        /\ replay.fresh \in BOOLEAN /\ replay.active \in BOOLEAN
        /\ gate.injecting \in BOOLEAN
    BY <1>1, <1>14, GateFields DEF ReplayOne, TypeInv, TypeOK, Replays
  <2>2. gate.injecting = FALSE /\ gate.deferred = << >>
    BY <2>1 DEF ReplayInv
  <2>3. PICK e \in Deferred : e = Head(replay.rest)
    BY <2>1
  <2>4. PICK fresh \in BOOLEAN : gate' = ApplyDeferred(gate, e, fresh)
    BY <1>14, <2>1, <2>3 DEF ReplayOne
  <2>5. gate'.epoch = gate.epoch /\ Matches(gate')
    <3>1. gate'.epoch = gate.epoch
      BY <1>1, <2>2, <2>4, ApplyDeferredEpoch
    <3>2. Matches(gate')
      BY <1>1, <1>2, <2>2, <2>4, ApplyDeferredEffect
    <3>3. QED
      BY <3>1, <3>2
  <2>6. QED
    BY <1>2, <1>14, <2>5, SameEpochChunk DEF ReplayOne
<1>15. CASE EndInject(r)
  <2>1. gate'.epoch = gate.epoch /\ Matches(gate')
    BY <1>1, <1>15, PublishEffect DEF EndInject
  <2>2. QED
    BY <1>2, <1>15, <2>1, GoInjChunk DEF EndInject
<1>16. CASE Unlock(r)
  <2>1. /\ inj[r].pc = "unlock" /\ inj'[r].pc = "done"
        /\ \A p \in Injectors : p # r => inj'[p] = inj[p]
    BY <1>1, <1>16 DEF Unlock, GoInj, InjectorAt, TypeInv, TypeOK
  <2>2. interrupted' = interrupted \ {r} /\ gate' = gate
    BY <1>16 DEF Unlock
  <2>3. \A p \in Reading' : p # r /\ p \in Reading
    BY <2>1 DEF Reading
  <2>4. \A p \in Reading' : inj'[p].epoch <= gate.epoch
    BY <2>1, <2>3 DEF ChunkInv, EpochInv, Reading
  <2>5. \A p \in interrupted' : /\ inj'[p].epoch < gate.epoch
                                /\ inj'[p].pc \notin {"idle", "capture"}
    BY <1>1, <2>1, <2>2 DEF ChunkInv, EpochInv
  <2>6. /\ late'[r] = 0 /\ \A p \in Injectors : p # r => late'[p] = late[p]
    BY <1>1, <1>16 DEF Unlock
  <2>7. LateInv'
    BY <2>1, <2>2, <2>6 DEF ChunkInv, LateInv
  <2>8. QED
    BY <1>2, <2>2, <2>4, <2>5, <2>7 DEF ChunkInv, EpochInv
<1>17. QED
  BY <1>3, <1>4, <1>6, <1>7, <1>8, <1>9, <1>10, <1>11, <1>12, <1>13, <1>14, <1>15,
     <1>16 DEF InjectorStep, Inject

LEMMA ChunkController ==
  ASSUME TypeInv, TypeInv', ChunkInv, NEW c \in Controllers,
         ControlArrive(c) \/ ControlStep(c)
  PROVE  ChunkInv'
<1> USE DEF history
<1>1. gate \in Gates /\ gate' \in Gates /\ gate.epoch \in Nat
  BY GateFields DEF TypeInv, TypeOK
<1>2. Matches(gate) /\ (PublishedMatches' <=> Matches(gate'))
  BY DEF ChunkInv, EpochInv, PublishedMatches, Matches
<1>3. CASE UNCHANGED << gate, inj, interrupted, late >>
  BY <1>2, <1>3, SameEpochChunk
<1>4. ASSUME gate' = Pause(gate) \/ gate' = Stop(gate), Interrupts(TRUE), UNCHANGED inj
      PROVE  ChunkInv'
  <2>1. gate'.epoch = gate.epoch + 1 /\ Matches(gate')
    BY <1>1, <1>4, PauseEffect, StopEffect
  <2>2. PICK cond \in BOOLEAN : cond = TRUE /\ Interrupts(cond)
    BY <1>4
  <2>3. gate'.epoch >= gate.epoch /\ gate'.epoch > gate.epoch
    BY <1>1, <2>1
  <2>4. QED
    BY <1>1, <1>2, <1>4, <2>1, <2>2, <2>3, GateStepChunk
<1>5. ASSUME NEW companion \in BOOLEAN,
             ControlPause(c, companion) \/ ControlStop(c, companion)
      PROVE  ChunkInv'
  BY <1>3, <1>4, <1>5 DEF ControlPause, ControlStop
<1>6. CASE \/ \E action \in Actions \cap {"start", "resume"}, companion \in BOOLEAN :
                 ControlKeyboardCheck(c, action, companion)
           \/ ControlLive(c) \/ ControlSelect(c)
  BY <1>3, <1>6 DEF ControlKeyboardCheck, ControlLive, ControlSelect, OnlyCtl
<1>7. CASE ControlApply(c)
  <2>1. PICK action \in {"start", "resume"}, s \in MaybeSession, companion \in BOOLEAN :
          ctl[c].action = action /\ ctl[c].session = s /\ ctl[c].companion = companion
    BY <1>7 DEF ControlApply, EndCtl, TypeInv, TypeOK, ControlRequests
  <2>2. UNCHANGED << inj, interrupted, late >>
    BY <1>7 DEF ControlApply
  <2>3. gate' = gate \/ gate' = Apply(gate, action, s, companion)
    BY <1>7, <2>1 DEF ControlApply
  <2>4. CASE gate' = Apply(gate, action, s, companion)
    <3>1. gate'.epoch = gate.epoch
      BY <1>1, <2>4, ApplyEffect
    <3>2. Matches(gate')
      BY <1>1, <1>2, <2>4, ApplyEffect
    <3>3. QED
      BY <1>2, <2>2, <3>1, <3>2, SameEpochChunk
  <2>5. QED
    BY <1>3, <2>2, <2>3, <2>4
<1>8. QED
  BY <1>5, <1>6, <1>7 DEF ControlArrive, ControlStep

LEMMA ChunkDaemon ==
  ASSUME TypeInv, TypeInv', ChunkInv,
         \/ CompanionPoll \/ WatchdogTick \/ KeyboardReport \/ Tick
         \/ \E s \in Sessions : OpenSession(s) \/ CloseRemove(s) \/ CloseStep(s)
         \/ StopCancel \/ StoppingStep
  PROVE  ChunkInv'
<1> USE DEF history
<1>1. gate \in Gates /\ gate' \in Gates /\ gate.epoch \in Nat
  BY GateFields DEF TypeInv, TypeOK
<1>2. Matches(gate) /\ (PublishedMatches' <=> Matches(gate'))
  BY DEF ChunkInv, EpochInv, PublishedMatches, Matches
<1>3. CASE UNCHANGED << gate, inj, interrupted, late >>
  BY <1>2, <1>3, SameEpochChunk
<1>4. CASE CompanionPoll \/ WatchdogTick
  <2>1. /\ gate'.epoch >= gate.epoch /\ Matches(gate')
        /\ WatchdogFires(gate) => gate'.epoch > gate.epoch
    BY <1>1, <1>2, <1>4, WatchdogEpoch DEF CompanionPoll, WatchdogTick
  <2>2. Interrupts(WatchdogFires(gate)) /\ UNCHANGED inj
    BY <1>4 DEF CompanionPoll, WatchdogTick, OnlyGate
  <2>3. QED
    BY <1>1, <1>2, <2>1, <2>2, GateStepChunk
<1>5. CASE KeyboardReport
  <2>1. gate' = SetKeyboardUnavailable(gate)
    BY <1>5 DEF KeyboardReport
  <2>2. /\ gate'.epoch \in {gate.epoch, gate.epoch + 1}
        /\ gate.phase = "running" \/ (gate.injecting /\ gate.keyboard)
             => gate'.epoch = gate.epoch + 1
        /\ Matches(gate')
    BY <1>1, <1>2, <2>1, SetKeyboardUnavailableEffect
  <2>3. /\ gate'.epoch >= gate.epoch
        /\ gate.phase = "running" \/ (gate.injecting /\ gate.keyboard)
             => gate'.epoch > gate.epoch
    BY <1>1, <2>2
  <2>4. /\ Interrupts(gate.phase = "running" \/ (gate.injecting /\ gate.keyboard))
        /\ UNCHANGED inj
    BY <1>5 DEF KeyboardReport, OnlyGate
  <2>5. QED
    BY <1>1, <1>2, <2>2, <2>3, <2>4, GateStepChunk
<1>6. CASE Tick
  <2>1. /\ gate'.epoch = gate.epoch /\ gate'.phase = gate.phase
        /\ gate'.published = gate.published
    BY <1>1, <1>6 DEF Tick, Gates
  <2>2. UNCHANGED << inj, interrupted, late >>
    BY <1>6 DEF Tick, OnlyGate
  <2>3. Matches(gate')
    BY <1>2, <2>1 DEF Matches
  <2>4. QED
    BY <1>2, <2>1, <2>2, <2>3, SameEpochChunk
<1>7. ASSUME NEW s \in Sessions, CloseNote(s) PROVE ChunkInv'
  <2>1. gate' = NoteSessionClosed(gate, s)
    BY <1>7 DEF CloseNote
  <2>2. gate'.epoch >= gate.epoch /\ Matches(gate')
    BY <1>1, <1>2, <2>1, NoteSessionClosedEffect
  <2>3. gate.session = s /\ ~gate.injecting => gate'.epoch > gate.epoch
    <3>1. gate.session = s /\ ~gate.injecting => gate'.epoch = gate.epoch + 1
      BY <1>1, <2>1, NoteSessionClosedEffect
    <3>2. QED
      BY <1>1, <3>1
  <2>4. Interrupts(gate.session = s /\ ~gate.injecting) /\ UNCHANGED inj
    BY <1>7 DEF CloseNote, OnlySessions
  <2>5. QED
    BY <1>1, <1>2, <2>2, <2>3, <2>4, GateStepChunk
<1>8. ASSUME NEW s \in Sessions, CloseFinish(s) PROVE ChunkInv'
  <2>1. gate' = FinishClosedSession(gate, s)
    BY <1>8 DEF CloseFinish
  <2>2. gate'.epoch = gate.epoch
    BY <1>1, <2>1, FinishClosedSessionEffect
  <2>3. Matches(gate')
    BY <1>1, <1>2, <2>1, FinishClosedSessionEffect
  <2>4. QED
    BY <1>2, <1>8, <2>2, <2>3, SameEpochChunk DEF CloseFinish, OnlySessions
<1>9. CASE \/ \E s \in Sessions : OpenSession(s) \/ CloseRemove(s)
           \/ StopWait \/ StopClear
  BY <1>3, <1>9 DEF OpenSession, CloseRemove, OnlySessions, StopWait, StopClear
<1>10. CASE StopCancel
  <2>1. gate' = ShutdownCancel(gate) /\ Interrupts(TRUE) /\ UNCHANGED inj
    BY <1>10 DEF StopCancel
  <2>2. gate'.epoch = gate.epoch + 1 /\ Matches(gate')
    BY <1>1, <2>1, StopEffect
  <2>3. PICK cond \in BOOLEAN : cond = TRUE /\ Interrupts(cond)
    BY <2>1
  <2>4. gate'.epoch >= gate.epoch /\ gate'.epoch > gate.epoch
    BY <1>1, <2>2
  <2>5. QED
    BY <1>1, <1>2, <2>1, <2>2, <2>3, <2>4, GateStepChunk
<1>11. CASE StopReset
  <2>1. gate' = Reset(gate) /\ UNCHANGED << inj, interrupted, late >>
    BY <1>11 DEF StopReset
  <2>2. gate'.epoch = gate.epoch /\ Matches(gate')
    BY <1>1, <2>1, ResetEffect
  <2>3. QED
    BY <1>2, <2>1, <2>2, SameEpochChunk
<1>12. QED
  BY <1>4, <1>5, <1>6, <1>7, <1>8, <1>9, <1>10, <1>11 DEF CloseStep, StoppingStep

LEMMA ChunkStep ==
  TypeInv /\ TypeInv' /\ ReplayInv /\ ChunkInv /\ [Next]_vars => ChunkInv'
<1> SUFFICES ASSUME TypeInv, TypeInv', ReplayInv, ChunkInv, [Next]_vars
             PROVE  ChunkInv'
  OBVIOUS
<1>1. CASE UNCHANGED vars
  BY <1>1 DEF vars, history, ChunkInv, EpochInv, LateInv, Reading, PublishedMatches
<1>2. CASE Next
  BY <1>2, ChunkInjector, ChunkController, ChunkDaemon DEF Next
<1>3. QED
  BY <1>1, <1>2

LEMMA ChunkAlways == Spec => []ChunkInv
BY ChunkInit, ChunkStep, TypesAlways, ReplayAlways, PTL DEF Spec

\* The word that injection threads read without the lock is the gate's epoch
\* and phase in every reachable state (Gate::publish is never forgotten).
THEOREM PublishedAlwaysMatches == Spec => []PublishedMatches
<1>1. ChunkInv => PublishedMatches
  BY DEF ChunkInv, EpochInv
<1>2. QED
  BY <1>1, ChunkAlways, PTL

\* A request that had read the epoch before an interrupt sends at most one
\* chunk after it, for any number of requests and chunks.
THEOREM OneLateChunk == Spec => []AtMostOneLateChunk
<1>1. ChunkInv => AtMostOneLateChunk
  BY DEF ChunkInv, LateInv, AtMostOneLateChunk
<1>2. QED
  BY <1>1, ChunkAlways, PTL

-----------------------------------------------------------------------------
(* Calls in flight, entering running, and a session that is closed.        *)

\* A method that is not one of an injection's own leaves the call that is out
\* alone: it keeps the sequences, drops the sample or keeps it with its stretch,
\* and leaves the phase off only under a new generation.
Sound(g, h) ==
  /\ h.injectSeq = g.injectSeq /\ h.settledSeq = g.settledSeq
  /\ h.drive = {} \/ (h.drive = g.drive /\ h.resumeSeq = g.resumeSeq)
  /\ h.generation >= g.generation
  /\ h.phase = "off" => g.phase = "off" \/ h.generation > g.generation
  /\ h.injecting = g.injecting
  /\ ~g.injecting /\ g.deferred = << >> => h.deferred = << >>
  /\ g.injecting /\ h.phase = "off" => g.phase = "off"

\* It does not enter running, and renews no trust of a stretch that lost it.
Quiet(g, h) ==
  h.phase = "running" =>
    /\ g.phase = "running" /\ h.resumeSeq = g.resumeSeq
    /\ GapExpired(g) => h.trustedAt = g.trustedAt

\* It puts the gate on no session, and queues no start or resume.
Detached(g, h) ==
  /\ h.session \in {g.session, NoSession}
  /\ \/ h.deferred \in {g.deferred, << >>}
     \/ \E e \in Deferred : /\ e.kind \notin {"start", "resume"}
                            /\ h.deferred = Append(g.deferred, e)

Interrupting(g, h) == Sound(g, h) /\ Quiet(g, h) /\ Detached(g, h)

LEMMA SameInterrupting == ASSUME NEW g \in Gates PROVE Interrupting(g, g)
BY GateFields DEF Interrupting, Sound, Quiet, Detached

LEMMA PublishInterrupting ==
  ASSUME NEW g \in Gates, NEW h, h = Publish(g) PROVE Interrupting(g, h)
<1>1. /\ h.session = g.session /\ h.phase = g.phase /\ h.drive = g.drive
      /\ h.generation = g.generation /\ h.resumeSeq = g.resumeSeq
      /\ h.injectSeq = g.injectSeq /\ h.settledSeq = g.settledSeq
      /\ h.injecting = g.injecting /\ h.deferred = g.deferred
      /\ h.trustedAt = g.trustedAt
  BY DEF Publish, Gates
<1>2. QED
  BY <1>1, GateFields DEF Interrupting, Sound, Quiet, Detached

LEMMA PauseInterrupting ==
  ASSUME NEW g \in Gates, NEW h, h = Pause(g) PROVE Interrupting(g, h)
<1>1. /\ h.session = g.session /\ h.phase = "paused" /\ h.drive = g.drive
      /\ h.generation = g.generation /\ h.resumeSeq = g.resumeSeq
      /\ h.injectSeq = g.injectSeq /\ h.settledSeq = g.settledSeq
      /\ h.injecting = g.injecting
      /\ h.deferred = IF g.injecting THEN Append(g.deferred, Entry("pause"))
                      ELSE g.deferred
  BY DEF Pause, Publish, Defer, BumpEpoch, Gates
<1>2. Entry("pause") \in Deferred /\ Entry("pause").kind = "pause"
  BY EntryType DEF Kinds, Entry
<1>3. QED
  BY <1>1, <1>2, GateFields DEF Interrupting, Sound, Quiet, Detached

\* Reset as a step of the gate while no call is in flight.
LEMMA ResetFields ==
  ASSUME NEW g \in Gates, NEW h, h = Reset(g)
  PROVE  /\ h.session = NoSession /\ h.phase = "off" /\ h.drive = {}
         /\ h.generation = g.generation + 1 /\ h.resumeSeq = g.resumeSeq
         /\ h.injectSeq = g.injectSeq /\ h.settledSeq = g.settledSeq
         /\ h.injecting = FALSE /\ h.deferred = << >>
         /\ h.trustedAt = g.trustedAt /\ h.keyboard = g.keyboard
BY DEF Reset, Publish, Gates

LEMMA BumpFields ==
  ASSUME NEW g \in Gates
  PROVE  /\ BumpEpoch(g) \in Gates
         /\ BumpEpoch(g).session = g.session /\ BumpEpoch(g).phase = g.phase
         /\ BumpEpoch(g).drive = g.drive /\ BumpEpoch(g).generation = g.generation
         /\ BumpEpoch(g).resumeSeq = g.resumeSeq
         /\ BumpEpoch(g).injectSeq = g.injectSeq
         /\ BumpEpoch(g).settledSeq = g.settledSeq
         /\ BumpEpoch(g).injecting = g.injecting
         /\ BumpEpoch(g).deferred = g.deferred
         /\ BumpEpoch(g).trustedAt = g.trustedAt
         /\ BumpEpoch(g).keyboard = g.keyboard
BY BumpEpochType DEF BumpEpoch, Gates

LEMMA ResetInterrupting ==
  ASSUME NEW g \in Gates, ~g.injecting, NEW h, h = Reset(g) PROVE Interrupting(g, h)
<1>1. g.injecting = FALSE /\ g.generation \in Nat
  BY GateFields
<1>2. /\ h.session = NoSession /\ h.phase = "off" /\ h.drive = {}
      /\ h.generation = g.generation + 1 /\ h.resumeSeq = g.resumeSeq
      /\ h.injectSeq = g.injectSeq /\ h.settledSeq = g.settledSeq
      /\ h.injecting = FALSE /\ h.deferred = << >>
  BY ResetFields
<1>3. Sound(g, h)
  <2>1. h.injecting = g.injecting
    BY <1>1, <1>2, Zenon
  <2>2. h.generation > g.generation
    BY <1>1, <1>2
  <2>3. QED
    BY <1>1, <1>2, <2>1, <2>2 DEF Sound
<1>4. Quiet(g, h)
  BY <1>2 DEF Quiet
<1>5. Detached(g, h)
  BY <1>2 DEF Detached
<1>6. QED
  BY <1>3, <1>4, <1>5 DEF Interrupting

\* A bump before a method changes none of this.
LEMMA BumpInterrupting ==
  ASSUME NEW g \in Gates, NEW h, Interrupting(BumpEpoch(g), h)
  PROVE  Interrupting(g, h)
BY BumpFields DEF Interrupting, Sound, Quiet, Detached, GapExpired

\* An entry that is no control, queued and published.
LEMMA QueueInterrupting ==
  ASSUME NEW g \in Gates, g.injecting, NEW e \in Deferred,
         e.kind \notin {"start", "resume"},
         NEW h, h = Defer(g, e) \/ h = Publish(Defer(g, e))
  PROVE  Interrupting(g, h)
<1>1. /\ h.session = g.session /\ h.phase = g.phase /\ h.drive = g.drive
      /\ h.generation = g.generation /\ h.resumeSeq = g.resumeSeq
      /\ h.injectSeq = g.injectSeq /\ h.settledSeq = g.settledSeq
      /\ h.injecting = g.injecting /\ h.trustedAt = g.trustedAt
      /\ h.deferred = Append(g.deferred, e)
  BY DEF Publish, Defer, Gates
<1>2. QED
  BY <1>1, GateFields DEF Interrupting, Sound, Quiet, Detached

LEMMA StopInterrupting ==
  ASSUME NEW g \in Gates, NEW h, h = Stop(g) \/ h = ShutdownCancel(g)
  PROVE  Interrupting(g, h)
<1>1. Entry("stop") \in Deferred /\ Entry("stop").kind \notin {"start", "resume"}
  BY EntryType DEF Kinds, Entry
<1>2. CASE g.injecting
  <2>1. h = Publish(Defer(BumpEpoch(g), Entry("stop")))
    BY <1>2 DEF Stop, ShutdownCancel
  <2>2. Interrupting(BumpEpoch(g), h)
    BY <1>1, <1>2, <2>1, BumpFields, QueueInterrupting
  <2>3. QED
    BY <2>2, BumpInterrupting
<1>3. CASE ~g.injecting
  <2>1. h = Reset(BumpEpoch(g)) \/ h = Publish(BumpEpoch(g))
    BY <1>3 DEF Stop, ShutdownCancel
  <2>2. Interrupting(BumpEpoch(g), h)
    BY <1>3, <2>1, BumpFields, ResetInterrupting, PublishInterrupting
  <2>3. QED
    BY <2>2, BumpInterrupting
<1>4. QED
  BY <1>2, <1>3

LEMMA KeyboardInterrupting ==
  ASSUME NEW g \in Gates, NEW h, h = SetKeyboardUnavailable(g)
  PROVE  Interrupting(g, h)
<1>1. Entry("keyboard") \in Deferred /\ Entry("keyboard").kind = "keyboard"
  BY EntryType DEF Kinds, Entry
<1>2. Entry("pause") \in Deferred /\ Entry("pause").kind = "pause"
  BY EntryType DEF Kinds, Entry
<1>3. /\ h.session = g.session /\ h.phase \in {"paused", g.phase}
      /\ h.phase = g.phase => h.trustedAt = g.trustedAt
      /\ h.drive = g.drive
      /\ h.generation = g.generation /\ h.resumeSeq = g.resumeSeq
      /\ h.injectSeq = g.injectSeq /\ h.settledSeq = g.settledSeq
      /\ h.injecting = g.injecting
  BY DEF SetKeyboardUnavailable, Pause, Publish, Defer, BumpEpoch, Gates
<1>4. /\ h.deferred \in {g.deferred, Append(g.deferred, Entry("keyboard"))}
      /\ ~g.injecting => h.deferred = g.deferred
  BY SetKeyboardUnavailableEffect
<1>5. QED
  BY <1>1, <1>3, <1>4, GateFields DEF Interrupting, Sound, Quiet, Detached

LEMMA PollInterrupting ==
  ASSUME NEW g \in Gates, NEW h, h = NotePoll(g) \/ h = Watchdog(g)
  PROVE  Interrupting(g, h)
<1>1. CASE WatchdogFires(g)
  BY <1>1, PauseInterrupting DEF NotePoll, Watchdog
<1>2. CASE ~WatchdogFires(g)
  <2>1. /\ h.session = g.session /\ h.phase = g.phase /\ h.drive = g.drive
        /\ h.generation = g.generation /\ h.resumeSeq = g.resumeSeq
        /\ h.injectSeq = g.injectSeq /\ h.settledSeq = g.settledSeq
        /\ h.injecting = g.injecting /\ h.deferred = g.deferred
    BY <1>2 DEF NotePoll, Watchdog, Gates
  <2>2. QED
    BY <1>2, <2>1, GateFields DEF Interrupting, Sound, Quiet, Detached, WatchdogFires
<1>3. QED
  BY <1>1, <1>2

LEMMA TickInterrupting ==
  ASSUME NEW g \in Gates,
         NEW h, h = [g EXCEPT !.trustedAt = Aged(@), !.lastPoll = Aged(@)]
  PROVE  Interrupting(g, h)
<1>1. /\ h.session = g.session /\ h.phase = g.phase /\ h.drive = g.drive
      /\ h.generation = g.generation /\ h.resumeSeq = g.resumeSeq
      /\ h.injectSeq = g.injectSeq /\ h.settledSeq = g.settledSeq
      /\ h.injecting = g.injecting /\ h.deferred = g.deferred
      /\ h.trustedAt = Aged(g.trustedAt)
  BY DEF Gates
<1>2. GapExpired(g) => Aged(g.trustedAt) = g.trustedAt
  BY GateFields, GateAssumption DEF GapExpired, Aged, Ages, Never
<1>3. QED
  BY <1>1, <1>2, GateFields DEF Interrupting, Sound, Quiet, Detached

\* ClearSession, and what is true of a session that was cleared.
LEMMA ClearInterrupting ==
  ASSUME NEW g \in Gates, ~g.injecting, NEW s \in Sessions,
         NEW h, h = ClearSession(g, s)
  PROVE  /\ Interrupting(g, h) /\ h.session # s
         /\ g.session = s => h.phase = "paused" \/ h.generation > g.generation
<1>0. NoSession # s
  BY GateAssumption
<1>1. CASE g.session # s
  BY <1>1, SameInterrupting DEF ClearSession
<1>2. CASE g.session = s /\ g.phase # "paused"
  <2>1. h = Reset(g)
    BY <1>2 DEF ClearSession
  <2>2. Interrupting(g, h)
    BY <2>1, ResetInterrupting
  <2>3. h.session = NoSession /\ h.generation = g.generation + 1
    BY <2>1, ResetFields
  <2>4. g.generation \in Nat
    BY GateFields
  <2>5. QED
    BY <1>0, <2>2, <2>3, <2>4
<1>3. CASE g.session = s /\ g.phase = "paused"
  <2>1. /\ h.session = NoSession /\ h.phase = "paused" /\ h.drive = {}
        /\ h.generation = g.generation + 1 /\ h.resumeSeq = g.resumeSeq
        /\ h.injectSeq = g.injectSeq /\ h.settledSeq = g.settledSeq
        /\ h.injecting = g.injecting /\ h.deferred = g.deferred
    BY <1>3 DEF ClearSession, Publish, Gates
  <2>2. QED
    BY <1>0, <2>1, GateFields DEF Interrupting, Sound, Quiet, Detached
<1>4. QED
  BY <1>1, <1>2, <1>3

LEMMA CloseInterrupting ==
  ASSUME NEW g \in Gates, NEW s \in Sessions, NEW h,
         h = NoteSessionClosed(g, s) \/ h = FinishClosedSession(g, s)
  PROVE  /\ Interrupting(g, h)
         /\ h = FinishClosedSession(g, s) /\ ~g.injecting => h.session # s
         /\ h = NoteSessionClosed(g, s) /\ g.session = s /\ ~g.injecting
              => h.phase = "paused" \/ h.generation > g.generation
<1>1. /\ CloseEntry(s, g.generation) \in Deferred
      /\ CloseEntry(s, g.generation).kind = "close"
  BY EntryType, GateFields DEF MaybeSession, CloseEntry, Entry
<1>2. CASE g.injecting
  <2>1. h = g \/ h = Defer(g, CloseEntry(s, g.generation))
    BY <1>2 DEF NoteSessionClosed, FinishClosedSession
  <2>2. QED
    BY <1>1, <1>2, <2>1, SameInterrupting, QueueInterrupting
<1>3. CASE ~g.injecting
  <2>1. CASE h = FinishClosedSession(g, s)
    <3>1. h = ClearSession(g, s)
      BY <1>3, <2>1 DEF FinishClosedSession
    <3>2. Interrupting(g, h) /\ h.session # s
      BY <1>3, <3>1, ClearInterrupting
    <3>3. g.session = s => h.phase = "paused" \/ h.generation > g.generation
      BY <1>3, <3>1, ClearInterrupting
    <3>4. QED
      BY <3>2, <3>3
  <2>2. CASE h = NoteSessionClosed(g, s) /\ g.session = s
    <3>1. h = ClearSession(BumpEpoch(g), s)
      BY <1>3, <2>2 DEF NoteSessionClosed
    <3>2. /\ Interrupting(BumpEpoch(g), h) /\ h.session # s
          /\ BumpEpoch(g).session = s
               => h.phase = "paused" \/ h.generation > BumpEpoch(g).generation
      BY <1>3, <3>1, BumpFields, ClearInterrupting
    <3>3. QED
      BY <2>2, <3>2, BumpFields, BumpInterrupting
  <2>3. CASE h = NoteSessionClosed(g, s) /\ g.session # s
    BY <2>3, SameInterrupting DEF NoteSessionClosed
  <2>4. QED
    BY <2>1, <2>2, <2>3
<1>4. QED
  BY <1>2, <1>3

-----------------------------------------------------------------------------
(* The methods that may enter running.                                     *)

LEMMA EnterFields ==
  ASSUME NEW g \in Gates, NEW s, NEW grace, NEW h, h = EnterRunning(g, s, grace)
  PROVE  /\ h.session = s /\ h.phase = "running" /\ h.drive = {}
         /\ h.generation = g.generation /\ h.resumeSeq = g.resumeSeq + 1
         /\ h.injectSeq = g.injectSeq /\ h.settledSeq = g.settledSeq
         /\ h.injecting = g.injecting /\ h.deferred = g.deferred
         /\ g.phase = "running" => h.trustedAt = g.trustedAt
BY DEF EnterRunning, Publish, Gates

LEMMA EnterSound ==
  ASSUME NEW g \in Gates, NEW s, NEW grace, NEW h, h = EnterRunning(g, s, grace)
  PROVE  Sound(g, h)
<1>1. /\ h.phase = "running" /\ h.drive = {} /\ h.generation = g.generation
      /\ h.injectSeq = g.injectSeq /\ h.settledSeq = g.settledSeq
      /\ h.injecting = g.injecting /\ h.deferred = g.deferred
  BY EnterFields
<1>2. g.generation \in Nat
  BY GateFields
<1>3. QED
  BY <1>1, <1>2 DEF Sound

\* Running goes on under the trust it has.
TrustKept(g, h) ==
  g.phase = "running" /\ h.phase = "running" /\ GapExpired(g)
    => h.trustedAt = g.trustedAt

LEMMA QuietKept == ASSUME NEW g, NEW h, Quiet(g, h) PROVE TrustKept(g, h)
BY DEF Quiet, TrustKept

\* The gate is put on the session of an entry only if that is a start or resume.
SessionKept(g, h, e) ==
  \/ h.session \in {g.session, NoSession}
  \/ h.session = e.session /\ e.kind \in {"start", "resume"}

\* An entry of the queue, replayed while the gate lock is held.
LEMMA ReplayedEntry ==
  ASSUME NEW g \in Gates, g.injecting = FALSE, g.deferred = << >>,
         NEW e \in Deferred, NEW fresh \in BOOLEAN,
         NEW h, h = ApplyDeferred(g, e, fresh)
  PROVE  /\ Sound(g, h) /\ TrustKept(g, h)
         /\ SessionKept(g, h, e)
         /\ g.phase # "running" /\ h.phase = "running"
              => g.keyboard /\ (e.companion \/ fresh)
<1> DEFINE Goal == /\ Sound(g, h) /\ TrustKept(g, h)
                   /\ SessionKept(g, h, e)
                   /\ g.phase # "running" /\ h.phase = "running"
                        => g.keyboard /\ (e.companion \/ fresh)
<1>0. e.kind \in Kinds /\ ~g.injecting
  BY DEF Deferred
<1>1. ASSUME Interrupting(g, h) PROVE Goal
  BY <1>1, QuietKept DEF Interrupting, Detached, Quiet, SessionKept
<1>2. ASSUME h = EnterRunning(g, e.session, e.companion), e.kind \in {"start", "resume"},
             ReentryAdmitted(g, e.companion, fresh)
      PROVE  Goal
  <2>1. Sound(g, h)
    BY <1>2, EnterSound
  <2>2. h.session = e.session /\ (g.phase = "running" => h.trustedAt = g.trustedAt)
    BY <1>2, EnterFields
  <2>3. QED
    BY <1>2, <2>1, <2>2 DEF TrustKept, ReentryAdmitted, SessionKept
<1>3. CASE h = g
  BY <1>1, <1>3, SameInterrupting
<1>4. CASE h = Reset(g)
  BY <1>0, <1>1, <1>4, ResetInterrupting
<1>5. CASE e.kind \in {"start", "resume"}
  <2>1. \/ h = g \/ h = Reset(g)
        \/ /\ h = EnterRunning(g, e.session, e.companion)
           /\ ReentryAdmitted(g, e.companion, fresh)
    BY <1>5 DEF ApplyDeferred
  <2>2. QED
    BY <1>2, <1>3, <1>4, <1>5, <2>1
<1>6. CASE e.kind = "stop"
  BY <1>4, <1>6 DEF ApplyDeferred
<1>7. CASE e.kind = "pause" \/ e.kind = "keyboard"
  <2>1. /\ h.session = g.session /\ h.phase \in {g.phase, "paused"}
        /\ h.drive = g.drive /\ h.generation = g.generation
        /\ h.resumeSeq = g.resumeSeq /\ h.injectSeq = g.injectSeq
        /\ h.settledSeq = g.settledSeq /\ h.injecting = g.injecting
        /\ h.deferred = g.deferred /\ h.trustedAt = g.trustedAt
    BY <1>7 DEF ApplyDeferred, Publish, Gates
  <2>2. Interrupting(g, h)
    BY <2>1, GateFields DEF Interrupting, Sound, Quiet, Detached
  <2>3. QED
    BY <1>1, <2>2
<1>8. CASE e.kind = "close"
  <2>1. CASE h = ClearSession(g, e.session) /\ e.session \in Sessions
    BY <1>0, <1>1, <2>1, ClearInterrupting
  <2>2. CASE h = ClearSession(g, e.session) /\ e.session \notin Sessions
    <3>1. CASE g.session # e.session
      BY <1>3, <2>2, <3>1 DEF ClearSession
    <3>2. CASE g.session = e.session /\ g.phase # "paused"
      BY <1>4, <2>2, <3>2 DEF ClearSession
    <3>3. CASE g.session = e.session /\ g.phase = "paused"
      <4>1. /\ h.session = NoSession /\ h.phase = "paused" /\ h.drive = {}
            /\ h.generation = g.generation + 1 /\ h.resumeSeq = g.resumeSeq
            /\ h.injectSeq = g.injectSeq /\ h.settledSeq = g.settledSeq
            /\ h.injecting = g.injecting /\ h.deferred = g.deferred
        BY <2>2, <3>3 DEF ClearSession, Publish, Gates
      <4>2. Interrupting(g, h)
        BY <4>1, GateFields DEF Interrupting, Sound, Quiet, Detached
      <4>3. QED
        BY <1>1, <4>2
    <3>4. QED
      BY <3>1, <3>2, <3>3
  <2>3. h = g \/ h = ClearSession(g, e.session)
    BY <1>8 DEF ApplyDeferred
  <2>4. QED
    BY <1>3, <2>1, <2>2, <2>3
<1>9. QED
  BY <1>0, <1>5, <1>6, <1>7, <1>8 DEF Kinds

\* A control that was admitted.
LEMMA AdmittedControl ==
  ASSUME NEW g \in Gates, NEW action \in {"start", "resume"},
         NEW s \in MaybeSession, NEW companion \in BOOLEAN,
         Admits(g, action, s, companion),
         ~g.injecting => g.deferred = << >>,
         NEW h, h = Apply(g, action, s, companion)
  PROVE  /\ Sound(g, h) /\ TrustKept(g, h)
         /\ h.session \in {g.session, NoSession, s}
         /\ \/ h.deferred \in {g.deferred, << >>}
            \/ h.deferred = Append(g.deferred, ReentryEntry(action, s, companion))
         /\ g.phase # "running" /\ h.phase = "running" => companion \/ PollFresh(g)
<1> DEFINE Goal == /\ Sound(g, h) /\ TrustKept(g, h)
                   /\ h.session \in {g.session, NoSession, s}
                   /\ \/ h.deferred \in {g.deferred, << >>}
                      \/ h.deferred = Append(g.deferred, ReentryEntry(action, s, companion))
                   /\ g.phase # "running" /\ h.phase = "running"
                        => companion \/ PollFresh(g)
<1>1. CASE g.injecting
  <2>1. h = Defer(g, ReentryEntry(action, s, companion))
    BY <1>1 DEF Apply
  <2>2. /\ h.session = g.session /\ h.phase = g.phase /\ h.drive = g.drive
        /\ h.generation = g.generation /\ h.resumeSeq = g.resumeSeq
        /\ h.injectSeq = g.injectSeq /\ h.settledSeq = g.settledSeq
        /\ h.injecting = g.injecting /\ h.trustedAt = g.trustedAt
        /\ h.deferred = Append(g.deferred, ReentryEntry(action, s, companion))
    BY <2>1 DEF Defer, Gates
  <2>3. QED
    BY <1>1, <2>2, GateFields DEF Sound, TrustKept
<1>2. ASSUME Interrupting(g, h), g.injecting = FALSE,
             h = g \/ h = Reset(g)
      PROVE  Goal
  <2>1. h.deferred \in {g.deferred, << >>}
    BY <1>2, ResetFields
  <2>2. QED
    BY <1>2, <2>1, QuietKept DEF Interrupting, Detached, Quiet
<1>3. ASSUME h = EnterRunning(g, s, companion),
             g.phase = "running" \/ companion \/ PollFresh(g)
      PROVE  Goal
  <2>1. Sound(g, h)
    BY <1>3, EnterSound
  <2>2. /\ h.session = s /\ h.deferred = g.deferred
        /\ g.phase = "running" => h.trustedAt = g.trustedAt
    BY <1>3, EnterFields
  <2>3. QED
    BY <1>3, <2>1, <2>2 DEF TrustKept
<1>4. CASE ~g.injecting
  <2>0. g.injecting = FALSE
    BY <1>4, GateFields
  <2>1. CASE action = "start"
    <3>1. h = EnterRunning(g, s, companion)
      BY <1>4, <2>1 DEF Apply
    <3>2. ~ReentryIsStale(g, companion)
      BY <2>1 DEF Admits
    <3>3. g.phase = "running" \/ companion \/ PollFresh(g)
      BY <1>4, <3>2 DEF ReentryIsStale
    <3>4. QED
      BY <1>3, <3>1, <3>3
  <2>2. CASE action = "resume" /\ g.phase = "paused" /\ s # NoSession
    <3>1. h = EnterRunning(g, s, companion)
      BY <1>4, <2>2 DEF Apply
    <3>2. ~ReentryIsStale(g, companion)
      BY <1>4, <2>2 DEF Admits
    <3>3. companion \/ PollFresh(g)
      BY <1>4, <2>2, <3>2 DEF ReentryIsStale
    <3>4. QED
      BY <1>3, <3>1, <3>3
  <2>3. CASE action = "resume" /\ (g.phase # "paused" \/ s = NoSession)
    <3>1. h = g \/ h = Reset(g)
      BY <1>4, <2>3 DEF Apply
    <3>2. Interrupting(g, h)
      BY <1>4, <3>1, SameInterrupting, ResetInterrupting
    <3>3. QED
      BY <1>2, <2>0, <3>1, <3>2
  <2>4. QED
    BY <2>1, <2>2, <2>3
<1>5. QED
  BY <1>1, <1>4

-----------------------------------------------------------------------------
(* The injection lock, and who holds the gate lock for a replay.           *)

Inside == {"check", "stretch", "arm", "generation", "loop", "send", "record",
           "unwind", "replay", "unlock"}

\* The request that holds the injection lock is the one that is inside, and one
\* that replays the queue holds the gate lock.
LockInv ==
  /\ \A r \in Injectors : injection = r <=> inj[r].pc \in Inside
  /\ \A r \in Injectors : inj[r].pc = "replay" => replay.active

\* The step of one request.
Moved(r, a, b) ==
  /\ inj[r].pc = a /\ inj'[r].pc = b
  /\ \A p \in Injectors : p # r => inj'[p] = inj[p]

LEMMA GoInjMoves ==
  ASSUME TypeInv, NEW r \in Injectors, NEW a, NEW b, GoInj(r, a, b)
  PROVE  /\ Moved(r, a, b)
         /\ b # "done" => /\ inj'[r].generation = inj[r].generation
                          /\ inj'[r].session = inj[r].session
<1>1. inj \in [Injectors -> Injections]
  BY DEF TypeInv, TypeOK
<1>2. CASE b = "done"
  BY <1>1, <1>2 DEF GoInj, Moved, InjectorAt
<1>3. CASE b # "done"
  <2>1. inj' = [inj EXCEPT ![r] = [inj[r] EXCEPT !.pc = b]] /\ inj[r].pc = a
    BY <1>3 DEF GoInj
  <2>2. inj[r] \in Injections
    BY <1>1
  <2>3. QED
    BY <1>1, <2>1, <2>2 DEF Moved, Injections
<1>4. QED
  BY <1>2, <1>3

LEMMA DataMoves ==
  ASSUME TypeInv, NEW r \in Injectors
  PROVE  /\ \A s \in Sessions, n \in 1..MaxChunks :
              Arrive(r, s, n) => Moved(r, "idle", "capture")
         /\ Capture(r) => Moved(r, "capture", "keyboard")
         /\ ReadGeneration(r) => /\ Moved(r, "generation", "loop")
                                 /\ inj'[r].generation = gate.generation
                                 /\ inj'[r].session = inj[r].session
         /\ SendChunk(r) => /\ \E to \in {"loop", "unwind"} : Moved(r, "send", to)
                            /\ inj'[r].generation = inj[r].generation
                            /\ inj'[r].session = inj[r].session
<1>1. inj \in [Injectors -> Injections] /\ inj[r] \in Injections
  BY DEF TypeInv, TypeOK
<1>2. ASSUME NEW s \in Sessions, NEW n \in 1..MaxChunks, Arrive(r, s, n)
      PROVE  Moved(r, "idle", "capture")
  <2>1. inj' = [inj EXCEPT ![r] = [@ EXCEPT !.pc = "capture", !.session = s, !.left = n]]
    BY <1>1, <1>2 DEF Arrive, Injections
  <2>2. QED
    BY <1>1, <1>2, <2>1 DEF Arrive, Moved, Injections
<1>3. ASSUME Capture(r) PROVE Moved(r, "capture", "keyboard")
  <2>1. inj' = [inj EXCEPT ![r] = [@ EXCEPT !.pc = "keyboard",
                                            !.epoch = gate.published.epoch]]
    BY <1>1, <1>3 DEF Capture, Injections
  <2>2. QED
    BY <1>1, <1>3, <2>1 DEF Capture, Moved, Injections
<1>4. ASSUME ReadGeneration(r)
      PROVE  /\ Moved(r, "generation", "loop")
             /\ inj'[r].generation = gate.generation
             /\ inj'[r].session = inj[r].session
  <2>1. inj' = [inj EXCEPT ![r] = [@ EXCEPT !.pc = "loop",
                                            !.generation = gate.generation]]
    BY <1>1, <1>4 DEF ReadGeneration, Injections
  <2>2. QED
    BY <1>1, <1>4, <2>1 DEF ReadGeneration, Moved, Injections
<1>5. ASSUME SendChunk(r)
      PROVE  /\ \E to \in {"loop", "unwind"} : Moved(r, "send", to)
             /\ inj'[r].generation = inj[r].generation
             /\ inj'[r].session = inj[r].session
  <2>1. PICK to \in {"loop", "unwind"} :
          inj' = [inj EXCEPT ![r] = [inj[r] EXCEPT !.pc = to, !.left = inj[r].left - 1]]
    BY <1>1, <1>5 DEF SendChunk, Injections
  <2>2. QED
    BY <1>1, <1>5, <2>1 DEF SendChunk, Moved, Injections
<1>6. QED
  BY <1>2, <1>3, <1>4, <1>5

LEMMA LockMove ==
  ASSUME LockInv, NEW r \in Injectors, NEW a, NEW b, Moved(r, a, b),
         NoOne \notin Injectors,
         \/ (a \in Inside <=> b \in Inside) /\ injection' = injection
         \/ a \notin Inside /\ b \in Inside /\ injection = NoOne /\ injection' = r
         \/ a \in Inside /\ b \notin Inside /\ injection' = NoOne,
         b = "replay" => replay'.active,
         a # "replay" /\ replay.active => replay'.active
  PROVE  LockInv'
<1>1. ASSUME NEW p \in Injectors PROVE injection' = p <=> inj'[p].pc \in Inside
  <2>1. CASE p = r
    BY <2>1 DEF LockInv, Moved
  <2>2. CASE p # r
    <3>1. inj'[p] = inj[p] /\ (injection = p <=> inj[p].pc \in Inside)
          /\ (injection = r <=> a \in Inside)
      BY <2>2 DEF LockInv, Moved
    <3>2. QED
      BY <2>2, <3>1
  <2>3. QED
    BY <2>1, <2>2
<1>2. ASSUME NEW p \in Injectors, inj'[p].pc = "replay" PROVE replay'.active
  <2>1. CASE p = r
    BY <1>2, <2>1 DEF Moved
  <2>2. CASE p # r
    <3>1. inj[p].pc = "replay" /\ "replay" \in Inside
      BY <1>2, <2>2 DEF Moved, Inside
    <3>2. replay.active /\ injection = p
      BY <3>1 DEF LockInv
    <3>3. a # "replay"
      BY <2>2, <3>1, <3>2 DEF LockInv, Moved
    <3>4. QED
      BY <3>2, <3>3
  <2>3. QED
    BY <2>1, <2>2
<1>3. QED
  BY <1>1, <1>2 DEF LockInv

LEMMA LockKept ==
  ASSUME LockInv, UNCHANGED inj, \A r \in Injectors : injection' = r <=> injection = r,
         replay.active => replay'.active
  PROVE  LockInv'
BY DEF LockInv

LEMMA LockInjector ==
  ASSUME TypeInv, LockInv, NEW r \in Injectors,
         \/ \E s \in Sessions, n \in 1..MaxChunks : Arrive(r, s, n)
         \/ InjectorStep(r)
  PROVE  LockInv'
<1>0. NoOne \notin Injectors
  BY AutomationAssumption
<1>1. ASSUME NEW a, NEW b, Moved(r, a, b), a \in Inside <=> b \in Inside,
             UNCHANGED << injection, replay >>, b # "replay"
      PROVE  LockInv'
  BY <1>0, <1>1, LockMove
<1>2. ASSUME NEW s \in Sessions, NEW n \in 1..MaxChunks, Arrive(r, s, n)
      PROVE  LockInv'
  <2>1. Moved(r, "idle", "capture")
    BY <1>2, DataMoves
  <2>2. QED
    BY <1>1, <1>2, <2>1 DEF Arrive, Inside
<1>3. CASE Capture(r)
  <2>1. Moved(r, "capture", "keyboard")
    BY <1>3, DataMoves
  <2>2. QED
    BY <1>1, <1>3, <2>1 DEF Capture, OnlyInj, Inside
<1>4. ASSUME NEW a, NEW b, GoInj(r, a, b), a \in Inside <=> b \in Inside,
             UNCHANGED << injection, replay >>, b # "replay"
      PROVE  LockInv'
  BY <1>1, <1>4, GoInjMoves
<1>5. CASE KeyboardCheck(r)
  BY <1>4, <1>5 DEF KeyboardCheck, OnlyInj, Inside
<1>6. CASE Precheck(r)
  BY <1>4, <1>6 DEF Precheck, OnlyInj, Inside
<1>7. CASE StaleCheck(r)
  BY <1>4, <1>7 DEF StaleCheck, OnlyInj, Inside
<1>8. CASE MarkVerb(r)
  BY <1>4, <1>8 DEF MarkVerb, OnlyInj, Inside
<1>9. CASE PostCheck(r)
  BY <1>4, <1>9 DEF PostCheck, OnlyInj, Inside
<1>10. CASE StretchEnded(r)
  BY <1>4, <1>10 DEF StretchEnded, OnlyInj, Inside
<1>11. CASE Arm(r)
  BY <1>4, <1>11 DEF Arm, Inside
<1>12. CASE ReadGeneration(r)
  <2>1. Moved(r, "generation", "loop")
    BY <1>12, DataMoves
  <2>2. QED
    BY <1>1, <1>12, <2>1 DEF ReadGeneration, OnlyInj, Inside
<1>13. CASE ChunkCheck(r)
  BY <1>4, <1>13 DEF ChunkCheck, OnlyInj, Inside
<1>14. CASE SendChunk(r)
  <2>1. PICK to \in {"loop", "unwind"} : Moved(r, "send", to)
    BY <1>14, DataMoves
  <2>2. QED
    BY <1>1, <1>14, <2>1 DEF SendChunk, Inside
<1>15. CASE Record(r)
  BY <1>4, <1>15 DEF Record, Inside
<1>16. CASE Acquire(r)
  <2>1. PICK b \in {"check", "unlock"} : GoInj(r, "wait", b)
    BY <1>16 DEF Acquire
  <2>2. Moved(r, "wait", b)
    BY <2>1, GoInjMoves
  <2>3. QED
    BY <1>0, <1>16, <2>2, LockMove DEF Acquire, Inside
<1>17. CASE BeginUnwind(r)
  <2>1. Moved(r, "unwind", "replay")
    BY <1>17, GoInjMoves DEF BeginUnwind
  <2>2. QED
    BY <1>0, <1>17, <2>1, LockMove DEF BeginUnwind, Inside
<1>18. CASE ReplayOne(r)
  <2>1. replay'.active = replay.active
    BY <1>18 DEF ReplayOne, TypeInv, TypeOK, Replays
  <2>2. QED
    BY <1>18, <2>1, LockKept DEF ReplayOne
<1>19. CASE EndInject(r)
  <2>1. Moved(r, "replay", "unlock")
    BY <1>19, GoInjMoves DEF EndInject
  <2>2. QED
    BY <1>0, <1>19, <2>1, LockMove DEF EndInject, Inside
<1>20. CASE Unlock(r)
  <2>1. Moved(r, "unlock", "done")
    BY <1>20, GoInjMoves DEF Unlock
  <2>2. QED
    BY <1>0, <1>20, <2>1, LockMove DEF Unlock, Inside
<1>21. QED
  BY <1>2, <1>3, <1>5, <1>6, <1>7, <1>8, <1>9, <1>10, <1>11, <1>12, <1>13, <1>14,
     <1>15, <1>16, <1>17, <1>18, <1>19, <1>20 DEF InjectorStep, Inject

LEMMA LockOthers ==
  ASSUME LockInv,
         \/ \E c \in Controllers : ControlArrive(c) \/ ControlStep(c)
         \/ CompanionPoll \/ WatchdogTick \/ KeyboardReport \/ Tick
         \/ \E s \in Sessions : OpenSession(s) \/ CloseRemove(s) \/ CloseStep(s)
         \/ StopCancel \/ StoppingStep
  PROVE  LockInv'
<1>1. UNCHANGED << inj, replay >>
  BY DEF ControlArrive, ControlStep, ControlPause, ControlStop, ControlKeyboardCheck,
         ControlLive, ControlSelect, ControlApply, OnlyCtl, CompanionPoll, WatchdogTick,
         KeyboardReport, Tick, OnlyGate, OpenSession, CloseRemove, CloseStep, CloseNote,
         CloseFinish, OnlySessions, StopCancel, StoppingStep, StopWait, StopClear,
         StopReset
<1>2. \/ injection' = injection
      \/ injection' = Shutdown /\ injection = NoOne
      \/ injection' = NoOne /\ injection = Shutdown
  BY DEF ControlArrive, ControlStep, ControlPause, ControlStop, ControlKeyboardCheck,
         ControlLive, ControlSelect, ControlApply, OnlyCtl, CompanionPoll, WatchdogTick,
         KeyboardReport, Tick, OnlyGate, OpenSession, CloseRemove, CloseStep, CloseNote,
         CloseFinish, OnlySessions, StopCancel, StoppingStep, StopWait, StopClear,
         StopReset
<1>3. QED
  BY <1>1, <1>2, LockKept, AutomationAssumption

LEMMA LockInit == Init => LockInv
<1> SUFFICES ASSUME Init PROVE LockInv
  OBVIOUS
<1>1. \A r \in Injectors : inj[r].pc = "idle" /\ injection # r
  BY AutomationAssumption DEF Init, InjectorAt
<1>2. QED
  BY <1>1 DEF LockInv, Inside

LEMMA LockStep == TypeInv /\ LockInv /\ [Next]_vars => LockInv'
<1> SUFFICES ASSUME TypeInv, LockInv, [Next]_vars PROVE LockInv'
  OBVIOUS
<1>1. CASE UNCHANGED vars
  BY <1>1 DEF vars, LockInv
<1>2. CASE Next
  BY <1>2, LockInjector, LockOthers DEF Next
<1>3. QED
  BY <1>1, <1>2

LEMMA LockAlways == Spec => []LockInv
BY LockInit, LockStep, TypesAlways, PTL DEF Spec

-----------------------------------------------------------------------------
(* Entering running, and going on.                                         *)

\* What each step does to the gate.
LEMMA GateSteps ==
  ASSUME TypeInv, Next
  PROVE  \/ Interrupting(gate, gate')
         \/ \E r \in Injectors : Arm(r) \/ Record(r) \/ BeginUnwind(r) \/ ReplayOne(r)
         \/ \E c \in Controllers : ControlApply(c)
         \/ StopReset
<1>0. gate \in Gates
  BY DEF TypeInv, TypeOK
<1>1. CASE gate' = gate
  BY <1>0, <1>1, SameInterrupting
<1>2. CASE gate' = NotePoll(gate) \/ gate' = Watchdog(gate)
  BY <1>0, <1>2, PollInterrupting
<1>3. CASE gate' = Pause(gate)
  BY <1>0, <1>3, PauseInterrupting
<1>4. CASE gate' = Stop(gate) \/ gate' = ShutdownCancel(gate)
  BY <1>0, <1>4, StopInterrupting
<1>5. ASSUME NEW r \in Injectors,
             \/ \E s \in Sessions, n \in 1..MaxChunks : Arrive(r, s, n)
             \/ InjectorStep(r)
      PROVE  \/ gate' = gate \/ gate' = Watchdog(gate) \/ gate' = Publish(gate)
             \/ Arm(r) \/ Record(r) \/ BeginUnwind(r) \/ ReplayOne(r)
  BY <1>5 DEF Arrive, InjectorStep, Inject, Capture, KeyboardCheck, Precheck, StaleCheck,
              MarkVerb, Acquire, PostCheck, StretchEnded, ReadGeneration, ChunkCheck,
              SendChunk, EndInject, Unlock, OnlyInj
<1>6. ASSUME NEW c \in Controllers, ControlArrive(c) \/ ControlStep(c)
      PROVE  \/ gate' = gate \/ gate' = Pause(gate) \/ gate' = Stop(gate)
             \/ ControlApply(c)
  BY <1>6 DEF ControlArrive, ControlStep, ControlPause, ControlStop, ControlKeyboardCheck,
              ControlLive, ControlSelect, OnlyCtl
<1>7. CASE gate' = Publish(gate)
  BY <1>0, <1>7, PublishInterrupting
<1>8. CASE CompanionPoll \/ WatchdogTick \/ KeyboardReport \/ Tick
  BY <1>0, <1>8, PollInterrupting, KeyboardInterrupting, TickInterrupting
  DEF CompanionPoll, WatchdogTick, KeyboardReport, Tick
<1>9. ASSUME NEW s \in Sessions, OpenSession(s) \/ CloseRemove(s) \/ CloseStep(s)
      PROVE  Interrupting(gate, gate')
  <2>1. \/ gate' = gate \/ gate' = NoteSessionClosed(gate, s)
        \/ gate' = FinishClosedSession(gate, s)
    BY <1>9 DEF OpenSession, CloseRemove, CloseStep, CloseNote, CloseFinish
  <2>2. CASE gate' = NoteSessionClosed(gate, s) \/ gate' = FinishClosedSession(gate, s)
    <3> DEFINE h == gate'
    <3>1. h = NoteSessionClosed(gate, s) \/ h = FinishClosedSession(gate, s)
      BY <2>2
    <3> HIDE DEF h
    <3>2. Interrupting(gate, h)
      BY <1>0, <3>1, CloseInterrupting
    <3>3. QED
      BY <3>2 DEF h
  <2>3. QED
    BY <1>0, <2>1, <2>2, SameInterrupting
<1>10. CASE StopCancel \/ StoppingStep
  BY <1>1, <1>4, <1>10 DEF StopCancel, StoppingStep, StopWait, StopClear
<1>11. QED
  BY <1>1, <1>2, <1>3, <1>4, <1>5, <1>6, <1>7, <1>8, <1>9, <1>10 DEF Next

\* The steps of an injection that touch the gate.
LEMMA BeginFields ==
  ASSUME NEW g \in Gates, NEW s, NEW h, h = BeginInject(g, s)
  PROVE  /\ h.session = s /\ h.phase = "running" /\ h.resumeSeq = g.resumeSeq
         /\ h.deferred = g.deferred /\ h.drive = g.drive
         /\ h.generation = g.generation /\ h.injectSeq = g.injectSeq + 1
         /\ h.settledSeq = g.settledSeq /\ h.injecting
         /\ g.phase = "running" => h.trustedAt = g.trustedAt
BY DEF Gates, BeginInject, Publish

LEMMA StoreFields ==
  ASSUME NEW g \in Gates, NEW s, NEW h, h = StoreDrive(g, s)
  PROVE  /\ h.session = s /\ h.phase = "running" /\ h.resumeSeq = g.resumeSeq
         /\ h.deferred = g.deferred
         /\ h.drive = {[resumeSeq |-> g.resumeSeq, injectSeq |-> g.injectSeq]}
         /\ h.generation = g.generation /\ h.injectSeq = g.injectSeq
         /\ h.settledSeq = g.settledSeq /\ h.injecting = g.injecting
         /\ g.phase = "running" => h.trustedAt = g.trustedAt
BY DEF Gates, StoreDrive, Publish

LEMMA SettleFields ==
  ASSUME NEW g \in Gates, NEW h, h = SettleInject(g)
  PROVE  /\ h.session = g.session /\ h.phase = g.phase /\ h.resumeSeq = g.resumeSeq
         /\ h.deferred = << >> /\ h.drive = g.drive
         /\ h.generation = g.generation /\ h.injectSeq = g.injectSeq
         /\ h.settledSeq = IF g.settledSeq < g.injectSeq THEN g.injectSeq
                           ELSE g.settledSeq
         /\ h.injecting = FALSE /\ h.trustedAt = g.trustedAt
BY DEF Gates, SettleInject

LEMMA InjectionStep ==
  ASSUME TypeInv, NEW r \in Injectors, Arm(r) \/ Record(r) \/ BeginUnwind(r)
  PROVE  /\ gate'.resumeSeq = gate.resumeSeq
         /\ gate.phase = "running" => gate'.trustedAt = gate.trustedAt
<1>0. gate \in Gates
  BY DEF TypeInv, TypeOK
<1>1. PICK s : s = inj[r].session
  OBVIOUS
<1>2. \/ gate' = gate \/ gate' = BeginInject(gate, s) \/ gate' = StoreDrive(gate, s)
      \/ gate' = SettleInject(gate)
  BY <1>1 DEF Arm, Record, BeginUnwind
<1>3. CASE gate' = BeginInject(gate, s)
  <2>1. gate'.resumeSeq = gate.resumeSeq
    BY <1>0, <1>3 DEF BeginInject, Publish, Gates
  <2>2. gate.phase = "running" => gate'.trustedAt = gate.trustedAt
    BY <1>0, <1>3 DEF BeginInject, Publish, Gates
  <2>3. QED
    BY <2>1, <2>2
<1>4. CASE gate' = StoreDrive(gate, s)
  BY <1>0, <1>4, StoreFields
<1>5. CASE gate' = SettleInject(gate)
  BY <1>0, <1>5, SettleFields
<1>6. QED
  BY <1>2, <1>3, <1>4, <1>5

\* What a replay step and an applied control rest on.
LEMMA ReplayStep ==
  ASSUME TypeInv, ReplayInv, LockInv, NEW r \in Injectors, ReplayOne(r)
  PROVE  /\ replay.active /\ gate.injecting = FALSE /\ gate.deferred = << >>
         /\ replay.rest \in Seq(Deferred) /\ replay.rest # << >>
         /\ replay.fresh \in BOOLEAN /\ Head(replay.rest) \in Deferred
         /\ gate' = ApplyDeferred(gate, Head(replay.rest), replay.fresh)
         /\ replay'.rest = Tail(replay.rest) /\ replay'.active = replay.active
<1>1. /\ replay \in Replays /\ replay.rest # << >> /\ replay.active
      /\ gate.injecting \in BOOLEAN
  BY GateFields DEF ReplayOne, LockInv, TypeInv, TypeOK
<1>2. replay.rest \in Seq(Deferred) /\ replay.fresh \in BOOLEAN
  BY <1>1 DEF Replays
<1>3. Head(replay.rest) \in Deferred
  BY <1>1, <1>2
<1>4. replay'.rest = Tail(replay.rest) /\ replay'.active = replay.active
  BY <1>1 DEF ReplayOne, Replays
<1>5. gate.injecting = FALSE /\ gate.deferred = << >>
  BY <1>1 DEF ReplayInv
<1>6. QED
  BY <1>1, <1>2, <1>3, <1>4, <1>5 DEF ReplayOne

LEMMA ApplyStep ==
  ASSUME TypeInv, NEW c \in Controllers, ControlApply(c)
  PROVE  /\ ~replay.active /\ ctl[c].pc = "apply" /\ ctl'[c].pc = "done"
         /\ ctl[c].action \in {"start", "resume"} /\ ctl[c].session \in MaybeSession
         /\ ctl[c].companion \in BOOLEAN
         /\ \/ UNCHANGED gate
            \/ /\ Admits(gate, ctl[c].action, ctl[c].session, ctl[c].companion)
               /\ gate' = Apply(gate, ctl[c].action, ctl[c].session, ctl[c].companion)
<1>1. /\ ctl \in [Controllers -> ControlRequests] /\ ctl[c].pc = "apply"
      /\ ctl' = [ctl EXCEPT ![c] = ControllerAt("done", ctl[c].session)]
  BY DEF ControlApply, EndCtl, TypeInv, TypeOK
<1>2. ctl'[c].pc = "done"
  BY <1>1 DEF ControllerAt
<1>3. ctl[c].action \in {"start", "resume"}
  BY <1>1 DEF TypeInv
<1>4. ctl[c].session \in MaybeSession /\ ctl[c].companion \in BOOLEAN
  BY <1>1 DEF ControlRequests
<1>5. QED
  BY <1>1, <1>2, <1>3, <1>4 DEF ControlApply, GateFree

LEMMA EntryStep ==
  ASSUME TypeInv, ReplayInv, LockInv, Next,
         gate.phase # "running", gate'.phase = "running",
         gate'.resumeSeq # gate.resumeSeq
  PROVE  \/ /\ replay.active /\ gate.keyboard
            /\ replay.fresh \/ Head(replay.rest).companion
         \/ ~replay.active /\ PollFresh(gate)
         \/ /\ ~replay.active
            /\ \E c \in Controllers : /\ ctl[c].companion
                                      /\ ctl[c].pc = "apply" /\ ctl'[c].pc = "done"
<1>0. gate \in Gates
  BY DEF TypeInv, TypeOK
<1>1. CASE Interrupting(gate, gate')
  BY <1>1 DEF Interrupting, Quiet
<1>2. ASSUME NEW r \in Injectors, Arm(r) \/ Record(r) \/ BeginUnwind(r)
      PROVE  FALSE
  <2>1. gate'.resumeSeq = gate.resumeSeq
    BY <1>2, InjectionStep
  <2>2. QED
    BY <2>1
<1>3. ASSUME NEW r \in Injectors, ReplayOne(r)
      PROVE  /\ replay.active /\ gate.keyboard
             /\ replay.fresh \/ Head(replay.rest).companion
  <2>1. /\ replay.active /\ gate.injecting = FALSE /\ gate.deferred = << >>
        /\ replay.fresh \in BOOLEAN /\ Head(replay.rest) \in Deferred
        /\ gate' = ApplyDeferred(gate, Head(replay.rest), replay.fresh)
    BY <1>3, ReplayStep
  <2> PICK e \in Deferred : e = Head(replay.rest)
    BY <2>1
  <2> PICK fresh \in BOOLEAN : fresh = replay.fresh
    BY <2>1
  <2>2. /\ gate' = ApplyDeferred(gate, e, fresh)
        /\ gate.injecting = FALSE /\ gate.deferred = << >>
    BY <2>1
  <2>4. gate.phase # "running" /\ gate'.phase = "running"
          => gate.keyboard /\ (e.companion \/ fresh)
    BY <1>0, <2>2, ReplayedEntry, ZenonT(30)
  <2>3. QED
    BY <2>1, <2>4
<1>4. ASSUME NEW c \in Controllers, ControlApply(c)
      PROVE  \/ ~replay.active /\ PollFresh(gate)
             \/ /\ ~replay.active
                /\ ctl[c].companion /\ ctl[c].pc = "apply" /\ ctl'[c].pc = "done"
  <2>1. /\ ~replay.active /\ ctl[c].pc = "apply" /\ ctl'[c].pc = "done"
        /\ ctl[c].action \in {"start", "resume"} /\ ctl[c].session \in MaybeSession
        /\ ctl[c].companion \in BOOLEAN
        /\ Admits(gate, ctl[c].action, ctl[c].session, ctl[c].companion)
        /\ gate' = Apply(gate, ctl[c].action, ctl[c].session, ctl[c].companion)
    BY <1>4, ApplyStep
  <2>2. ~gate.injecting => gate.deferred = << >>
    BY DEF ReplayInv
  <2>3. ctl[c].companion \/ PollFresh(gate)
    BY <1>0, <2>1, <2>2, AdmittedControl
  <2>4. QED
    BY <2>1, <2>3
<1>5. CASE StopReset
  <2>1. gate' = Reset(gate)
    BY <1>5 DEF StopReset
  <2>2. gate'.phase = "off"
    BY <1>0, <2>1, ResetFields
  <2>3. QED
    BY <2>2
<1>6. QED
  BY <1>1, <1>2, <1>3, <1>4, <1>5, GateSteps

\* The replay never enters running while the keyboard is latched.
LEMMA LatchStep ==
  ASSUME TypeInv, ReplayInv, LockInv, Next, replay.active, ~gate.keyboard,
         gate.phase # "running"
  PROVE  gate'.phase # "running"
<1>0. gate \in Gates
  BY DEF TypeInv, TypeOK
<1>1. CASE Interrupting(gate, gate')
  BY <1>1 DEF Interrupting, Quiet
<1>2. ASSUME NEW r \in Injectors, Arm(r) \/ Record(r) \/ BeginUnwind(r)
      PROVE  FALSE
  BY <1>2 DEF Arm, Record, BeginUnwind, GateFree
<1>3. ASSUME NEW r \in Injectors, ReplayOne(r)
      PROVE  gate'.phase # "running"
  <2>1. /\ gate.injecting = FALSE /\ gate.deferred = << >>
        /\ replay.fresh \in BOOLEAN /\ Head(replay.rest) \in Deferred
        /\ gate' = ApplyDeferred(gate, Head(replay.rest), replay.fresh)
    BY <1>3, ReplayStep
  <2>2. gate.phase # "running" /\ gate'.phase = "running" => gate.keyboard
    BY <1>0, <2>1, ReplayedEntry
  <2>3. QED
    BY <2>2
<1>4. ASSUME NEW c \in Controllers, ControlApply(c) PROVE FALSE
  BY <1>4 DEF ControlApply, GateFree
<1>5. CASE StopReset
  BY <1>5 DEF StopReset, GateFree
<1>6. QED
  BY <1>1, <1>2, <1>3, <1>4, <1>5, GateSteps

LEMMA TrustStep ==
  ASSUME TypeInv, ReplayInv, LockInv, Next
  PROVE  TrustKept(gate, gate')
<1>0. gate \in Gates
  BY DEF TypeInv, TypeOK
<1>1. CASE Interrupting(gate, gate')
  BY <1>1, QuietKept DEF Interrupting
<1>2. ASSUME NEW r \in Injectors, Arm(r) \/ Record(r) \/ BeginUnwind(r)
      PROVE  TrustKept(gate, gate')
  <2>1. gate.phase = "running" => gate'.trustedAt = gate.trustedAt
    BY <1>2, InjectionStep
  <2>2. QED
    BY <2>1 DEF TrustKept
<1>3. ASSUME NEW r \in Injectors, ReplayOne(r)
      PROVE  TrustKept(gate, gate')
  <2>1. /\ gate.injecting = FALSE /\ gate.deferred = << >>
        /\ replay.fresh \in BOOLEAN /\ Head(replay.rest) \in Deferred
        /\ gate' = ApplyDeferred(gate, Head(replay.rest), replay.fresh)
    BY <1>3, ReplayStep
  <2>2. QED
    BY <1>0, <2>1, ReplayedEntry
<1>4. ASSUME NEW c \in Controllers, ControlApply(c) PROVE TrustKept(gate, gate')
  <2>1. CASE UNCHANGED gate
    BY <2>1 DEF TrustKept
  <2>2. CASE ~UNCHANGED gate
    <3>1. /\ ctl[c].action \in {"start", "resume"} /\ ctl[c].session \in MaybeSession
          /\ ctl[c].companion \in BOOLEAN
          /\ Admits(gate, ctl[c].action, ctl[c].session, ctl[c].companion)
          /\ gate' = Apply(gate, ctl[c].action, ctl[c].session, ctl[c].companion)
      BY <1>4, <2>2, ApplyStep
    <3>2. ~gate.injecting => gate.deferred = << >>
      BY DEF ReplayInv
    <3>3. QED
      BY <1>0, <3>1, <3>2, AdmittedControl
  <2>3. QED
    BY <2>1, <2>2
<1>5. CASE StopReset
  <2>1. gate' = Reset(gate)
    BY <1>5 DEF StopReset
  <2>2. gate'.phase = "off"
    BY <1>0, <2>1, ResetFields
  <2>3. QED
    BY <2>2 DEF TrustKept
<1>6. QED
  BY <1>1, <1>2, <1>3, <1>4, <1>5, GateSteps

-----------------------------------------------------------------------------
(* The keyboard latch: no method of the gate lifts it ...                  *)

LEMMA MethodsLatch ==
  ASSUME NEW g \in Gates, ~g.keyboard
  PROVE  /\ ~Publish(g).keyboard /\ ~Pause(g).keyboard /\ ~Reset(g).keyboard
         /\ ~Stop(g).keyboard /\ ~ShutdownCancel(g).keyboard
         /\ ~NotePoll(g).keyboard /\ ~Watchdog(g).keyboard
         /\ ~SettleInject(g).keyboard
<1>1. ~Publish(g).keyboard /\ ~Pause(g).keyboard /\ ~Reset(g).keyboard
  BY DEF Gates, Publish, Pause, Reset, BumpEpoch, Defer
<1>2. ~Stop(g).keyboard /\ ~ShutdownCancel(g).keyboard
  BY DEF Gates, Publish, Stop, ShutdownCancel, Reset, BumpEpoch, Defer
<1>3. ~NotePoll(g).keyboard /\ ~Watchdog(g).keyboard
  BY <1>1 DEF Gates, NotePoll, Watchdog
<1>4. ~SettleInject(g).keyboard
  BY DEF Gates, SettleInject
<1>5. QED
  BY <1>1, <1>2, <1>3, <1>4

LEMMA ReportLatches ==
  ASSUME NEW g \in Gates, ~g.keyboard PROVE ~SetKeyboardUnavailable(g).keyboard
<1>1. CASE g.injecting
  BY <1>1 DEF Gates, SetKeyboardUnavailable, Pause, BumpEpoch, Defer, Publish
<1>2. CASE ~g.injecting
  BY <1>2 DEF Gates, SetKeyboardUnavailable, Pause, BumpEpoch, Defer, Publish
<1>3. QED
  BY <1>1, <1>2

LEMMA SessionMethodsLatch ==
  ASSUME NEW g \in Gates, ~g.keyboard, NEW s, NEW grace
  PROVE  /\ ~ClearSession(g, s).keyboard /\ ~NoteSessionClosed(g, s).keyboard
         /\ ~FinishClosedSession(g, s).keyboard /\ ~EnterRunning(g, s, grace).keyboard
         /\ ~BeginInject(g, s).keyboard /\ ~StoreDrive(g, s).keyboard
<1>1. ~ClearSession(g, s).keyboard /\ ~EnterRunning(g, s, grace).keyboard
  BY DEF Gates, ClearSession, Reset, EnterRunning, Publish
<1>2. ~NoteSessionClosed(g, s).keyboard
  BY DEF Gates, NoteSessionClosed, ClearSession, Reset, BumpEpoch, Defer, Publish
<1>3. ~FinishClosedSession(g, s).keyboard
  BY <1>1 DEF Gates, FinishClosedSession, Defer
<1>4. ~BeginInject(g, s).keyboard /\ ~StoreDrive(g, s).keyboard
  BY DEF Gates, BeginInject, StoreDrive, Publish
<1>5. QED
  BY <1>1, <1>2, <1>3, <1>4

LEMMA ControlsLatch ==
  ASSUME NEW g \in Gates, ~g.keyboard
  PROVE  /\ \A e \in Deferred, fresh \in BOOLEAN : ~ApplyDeferred(g, e, fresh).keyboard
         /\ \A action \in {"start", "resume"}, s \in MaybeSession, companion \in BOOLEAN :
              ~Apply(g, action, s, companion).keyboard
<1>1. ASSUME NEW e \in Deferred, NEW fresh \in BOOLEAN
      PROVE  ~ApplyDeferred(g, e, fresh).keyboard
  <2>1. e.kind \in Kinds
    BY DEF Deferred
  <2>2. CASE e.kind \in {"stop", "close"}
    BY <2>2, MethodsLatch, SessionMethodsLatch DEF ApplyDeferred
  <2>3. CASE e.kind \in {"pause", "keyboard"}
    BY <2>3 DEF Gates, ApplyDeferred, Publish
  <2>4. CASE e.kind \in {"start", "resume"}
    BY <2>4, MethodsLatch, SessionMethodsLatch DEF ApplyDeferred
  <2>5. QED
    BY <2>1, <2>2, <2>3, <2>4 DEF Kinds
<1>2. ASSUME NEW action \in {"start", "resume"}, NEW s \in MaybeSession,
             NEW companion \in BOOLEAN
      PROVE  ~Apply(g, action, s, companion).keyboard
  <2>1. g.injecting \in BOOLEAN
    BY GateFields
  <2>2. \A entry : ~Defer(g, entry).keyboard
    BY DEF Gates, Defer
  <2>3. QED
    BY <2>1, <2>2, MethodsLatch, SessionMethodsLatch DEF Apply
<1>3. QED
  BY <1>1, <1>2

LEMMA LatchKept ==
  ASSUME TypeInv, ReplayInv, LockInv, Next, ~gate.keyboard
  PROVE  ~gate'.keyboard
<1>0. gate \in Gates
  BY DEF TypeInv, TypeOK
<1>1. ASSUME NEW r \in Injectors, ReplayOne(r) PROVE ~gate'.keyboard
  <2>1. /\ replay.fresh \in BOOLEAN /\ Head(replay.rest) \in Deferred
        /\ gate' = ApplyDeferred(gate, Head(replay.rest), replay.fresh)
    BY <1>1, ReplayStep
  <2>2. QED
    BY <1>0, <2>1, ControlsLatch
<1>2. ASSUME NEW r \in Injectors,
             \/ \E s \in Sessions, n \in 1..MaxChunks : Arrive(r, s, n)
             \/ InjectorStep(r)
      PROVE  ~gate'.keyboard
  <2>1. \/ gate' = gate \/ gate' = Watchdog(gate) \/ gate' = Publish(gate)
        \/ gate' = BeginInject(gate, inj[r].session)
        \/ gate' = StoreDrive(gate, inj[r].session) \/ gate' = SettleInject(gate)
        \/ ReplayOne(r)
    BY <1>2, ZenonT(60) DEF Arrive, InjectorStep, Inject, Capture, KeyboardCheck, Precheck, StaleCheck,
              MarkVerb, Acquire, PostCheck, StretchEnded, Arm, ReadGeneration, ChunkCheck,
              SendChunk, Record, BeginUnwind, EndInject, Unlock, OnlyInj
  <2>2. QED
    BY <1>0, <1>1, <2>1, MethodsLatch, SessionMethodsLatch
<1>3. ASSUME NEW c \in Controllers, ControlArrive(c) \/ ControlStep(c)
      PROVE  ~gate'.keyboard
  <2>1. CASE ControlApply(c)
    <3>1. /\ ctl[c].action \in {"start", "resume"} /\ ctl[c].session \in MaybeSession
          /\ ctl[c].companion \in BOOLEAN
          /\ \/ UNCHANGED gate
             \/ gate' = Apply(gate, ctl[c].action, ctl[c].session, ctl[c].companion)
      BY <2>1, ApplyStep
    <3>2. QED
      BY <1>0, <3>1, ControlsLatch
  <2>2. gate' = gate \/ gate' = Pause(gate) \/ gate' = Stop(gate) \/ ControlApply(c)
    BY <1>3 DEF ControlArrive, ControlStep, ControlPause, ControlStop, ControlKeyboardCheck,
              ControlLive, ControlSelect, OnlyCtl
  <2>3. QED
    BY <1>0, <2>1, <2>2, MethodsLatch
<1>4. CASE CompanionPoll \/ WatchdogTick \/ KeyboardReport \/ Tick
  <2>1. CASE Tick
    BY <1>0, <2>1 DEF Tick, Gates
  <2>2. QED
    BY <1>0, <1>4, <2>1, MethodsLatch, ReportLatches
    DEF CompanionPoll, WatchdogTick, KeyboardReport
<1>5. ASSUME NEW s \in Sessions, OpenSession(s) \/ CloseRemove(s) \/ CloseStep(s)
      PROVE  ~gate'.keyboard
  <2>1. \/ gate' = gate \/ gate' = NoteSessionClosed(gate, s)
        \/ gate' = FinishClosedSession(gate, s)
    BY <1>5 DEF OpenSession, CloseRemove, CloseStep, CloseNote, CloseFinish
  <2>2. QED
    BY <1>0, <2>1, SessionMethodsLatch
<1>6. CASE StopCancel \/ StoppingStep
  BY <1>0, <1>6, MethodsLatch DEF StopCancel, StoppingStep, StopWait, StopClear, StopReset
<1>7. QED
  BY <1>2, <1>3, <1>4, <1>5, <1>6 DEF Next

\* ... and no request passes its look at it, once it is set.
Before == {"idle", "capture", "keyboard", "done"}

LEMMA NoneJoin ==
  ASSUME TypeInv, Next, ~gate.keyboard PROVE SawKeyboard' \subseteq SawKeyboard
<1>1. ASSUME NEW r \in Injectors, NEW a, NEW b, Moved(r, a, b), a \in Before => b \in Before
      PROVE  SawKeyboard' \subseteq SawKeyboard
  BY <1>1 DEF Moved, SawKeyboard, Before
<1>2. ASSUME NEW r \in Injectors, NEW a, NEW b, GoInj(r, a, b), a \in Before => b \in Before
      PROVE  SawKeyboard' \subseteq SawKeyboard
  BY <1>1, <1>2, GoInjMoves
<1>3. CASE UNCHANGED inj
  BY <1>3 DEF SawKeyboard
<1>4. ASSUME NEW r \in Injectors,
             \/ \E s \in Sessions, n \in 1..MaxChunks : Arrive(r, s, n)
             \/ Capture(r) \/ ReadGeneration(r) \/ SendChunk(r)
      PROVE  SawKeyboard' \subseteq SawKeyboard
  <2>1. \E a, b : Moved(r, a, b) /\ (a \in Before => b \in Before)
    <3>1. CASE \E s \in Sessions, n \in 1..MaxChunks : Arrive(r, s, n)
      BY <3>1, DataMoves DEF Before
    <3>2. CASE Capture(r)
      BY <3>2, DataMoves DEF Before
    <3>3. CASE ReadGeneration(r)
      BY <3>3, DataMoves DEF Before
    <3>4. CASE SendChunk(r)
      BY <3>4, DataMoves DEF Before
    <3>5. QED
      BY <1>4, <3>1, <3>2, <3>3, <3>4
  <2>2. QED
    BY <1>1, <2>1
<1>5. ASSUME NEW r \in Injectors, InjectorStep(r) PROVE SawKeyboard' \subseteq SawKeyboard
  <2>1. CASE ReplayOne(r)
    BY <1>3, <2>1 DEF ReplayOne
  <2>2. \/ Capture(r) \/ ReadGeneration(r) \/ SendChunk(r) \/ ReplayOne(r)
        \/ \E a, b : GoInj(r, a, b) /\ (a \in Before => b \in Before)
    BY <1>5 DEF InjectorStep, Inject, KeyboardCheck, Precheck, StaleCheck, MarkVerb, Acquire,
                PostCheck, StretchEnded, Arm, ChunkCheck, Record, BeginUnwind, EndInject,
                Unlock, Before
  <2>3. QED
    BY <1>2, <1>4, <2>1, <2>2
<1>6. QED
  <2>1. \/ \E r \in Injectors : \/ \E s \in Sessions, n \in 1..MaxChunks : Arrive(r, s, n)
                                \/ InjectorStep(r)
        \/ UNCHANGED inj
    BY DEF Next, ControlArrive, ControlStep, ControlPause, ControlStop, ControlKeyboardCheck,
           ControlLive, ControlSelect, ControlApply, OnlyCtl, CompanionPoll, WatchdogTick,
           KeyboardReport, Tick, OnlyGate, OpenSession, CloseRemove, CloseStep, CloseNote,
           CloseFinish, OnlySessions, StopCancel, StoppingStep, StopWait, StopClear, StopReset
  <2>2. QED
    BY <1>3, <1>4, <1>5, <2>1

LEMMA NoControlJoins ==
  ASSUME TypeInv, Next, ~gate.keyboard
  PROVE  ControlsSawKeyboard' \subseteq ControlsSawKeyboard
<1>0. ctl \in [Controllers -> ControlRequests]
  BY DEF TypeInv, TypeOK
<1>1. CASE UNCHANGED ctl
  BY <1>1 DEF ControlsSawKeyboard
<1>2. ASSUME NEW c \in Controllers, ControlArrive(c) \/ ControlStep(c)
      PROVE  ControlsSawKeyboard' \subseteq ControlsSawKeyboard
  <2>1. CASE \E from : EndCtl(c, from)
    BY <1>0, <2>1 DEF EndCtl, ControllerAt, ControlsSawKeyboard
  <2>2. CASE ControlLive(c)
    BY <1>0, <2>2 DEF ControlLive, ControlsSawKeyboard, ControlRequests
  <2>3. CASE ControlSelect(c)
    BY <1>0, <2>3 DEF ControlSelect, ControlsSawKeyboard, ControlRequests
  <2>4. ControlLive(c) \/ ControlSelect(c) \/ \E from : EndCtl(c, from)
    BY <1>2, ZenonT(60) DEF ControlArrive, ControlStep, ControlPause, ControlStop, ControlKeyboardCheck,
                ControlApply
  <2>5. QED
    BY <2>1, <2>2, <2>3, <2>4
<1>3. (\E c \in Controllers : ControlArrive(c) \/ ControlStep(c)) \/ UNCHANGED ctl
  BY ZenonT(60) DEF Next, Arrive, InjectorStep, Inject, Capture, KeyboardCheck, Precheck, StaleCheck,
         MarkVerb, Acquire, PostCheck, StretchEnded, Arm, ReadGeneration, ChunkCheck,
         SendChunk, Record, BeginUnwind, ReplayOne, EndInject, Unlock, OnlyInj, CompanionPoll,
         WatchdogTick, KeyboardReport, Tick, OnlyGate, OpenSession, CloseRemove, CloseStep,
         CloseNote, CloseFinish, OnlySessions, StopCancel, StoppingStep, StopWait, StopClear,
         StopReset
<1>4. QED
  BY <1>1, <1>2, <1>3

\* Whoever enters running then is one of those that had passed.
LEMMA LatchEntry ==
  ASSUME TypeInv, ReplayInv, LockInv, Next, ~gate.keyboard,
         gate.phase # "running", gate'.phase = "running"
  PROVE  /\ ~replay.active
         /\ \/ \E r \in SawKeyboard : inj'[r].pc # inj[r].pc
            \/ \E c \in ControlsSawKeyboard : ctl'[c].pc = "done"
<1>0. gate \in Gates /\ ~replay.active
  BY LatchStep DEF TypeInv, TypeOK
<1>1. CASE Interrupting(gate, gate')
  BY <1>1 DEF Interrupting, Quiet
<1>2. ASSUME NEW r \in Injectors, Arm(r) \/ Record(r) \/ BeginUnwind(r)
      PROVE  r \in SawKeyboard /\ inj'[r].pc # inj[r].pc
  <2>1. \E a \in {"arm", "record", "unwind"}, b \in {"generation", "unlock", "unwind", "replay"} :
          GoInj(r, a, b) /\ a # b
    BY <1>2 DEF Arm, Record, BeginUnwind
  <2>2. QED
    BY <2>1, GoInjMoves DEF Moved, SawKeyboard
<1>3. ASSUME NEW r \in Injectors, ReplayOne(r) PROVE FALSE
  BY <1>0, <1>3, ReplayStep
<1>4. ASSUME NEW c \in Controllers, ControlApply(c)
      PROVE  c \in ControlsSawKeyboard /\ ctl'[c].pc = "done"
  BY <1>4, ApplyStep DEF ControlsSawKeyboard
<1>5. CASE StopReset
  <2>1. gate' = Reset(gate)
    BY <1>5 DEF StopReset
  <2>2. gate'.phase = "off"
    BY <1>0, <2>1, ResetFields
  <2>3. QED
    BY <2>2
<1>6. QED
  BY <1>0, <1>1, <1>2, <1>3, <1>4, <1>5, GateSteps

\* What was true only when a control was queued or a call began admits nothing into
\* running: a TCP control needs a poll inside the window when it enters; once the
\* loss of the keyboard is reported only requests that had looked at the latch before
\* get in, and no replayed one; trust that ran out is not renewed (Gate::apply,
\* apply_deferred, note_poll, begin_inject; api.rs keyboard_blocked).
THEOREM NothingStaleEverAdmitted == Spec => NothingStaleIsAdmitted
<1> DEFINE IInv == TypeInv /\ ReplayInv /\ LockInv
<1>1. IInv /\ [Next]_vars
        => [gate.phase # "running" /\ gate'.phase = "running"
              /\ gate'.resumeSeq # gate.resumeSeq =>
            \/ replay.active /\ (replay.fresh \/ Head(replay.rest).companion)
            \/ ~replay.active /\ PollFresh(gate)
            \/ \E c \in Controllers : /\ ctl[c].companion
                                      /\ ctl[c].pc = "apply" /\ ctl'[c].pc = "done"]_vars
  BY EntryStep
<1>2. IInv /\ [Next]_vars
        => [~gate.keyboard =>
              /\ ~gate'.keyboard
              /\ SawKeyboard' \subseteq SawKeyboard
              /\ ControlsSawKeyboard' \subseteq ControlsSawKeyboard
              /\ gate.phase # "running" /\ gate'.phase = "running" =>
                   /\ ~replay.active
                   /\ \/ \E r \in SawKeyboard : inj'[r].pc # inj[r].pc
                      \/ \E c \in ControlsSawKeyboard : ctl'[c].pc = "done"]_vars
  BY LatchKept, NoneJoin, NoControlJoins, LatchEntry
<1>3. IInv /\ [Next]_vars
        => [gate.phase = "running" /\ gate'.phase = "running" /\ GapExpired(gate)
              => gate'.trustedAt = gate.trustedAt]_vars
  BY TrustStep DEF TrustKept
<1>4. Spec => []IInv
  BY TypesAlways, ReplayAlways, LockAlways, PTL
<1>5. Spec => []([Next]_vars)
  BY PTL DEF Spec
<1>6. QED
  BY <1>1, <1>2, <1>3, <1>4, <1>5, PTL
  DEF NothingStaleIsAdmitted, ReentryIsJudged, TcpEntryIsFresh, LatchShutsOut,
      ExpiredTrustIsFinal

-----------------------------------------------------------------------------
(* The call that is out.                                                   *)

ArmedStates == {"generation", "loop", "send", "record", "unwind"}
ArmedIn(f) == {r \in Injectors : f[r].pc \in ArmedStates}

\* Requests that have read their generation.
HasGeneration == {"loop", "send", "record", "unwind"}

\* A call that is out keeps the gate injecting until it unwinds or shutdown resets
\* the gate; while injecting the phase is not off; a generation that was read is
\* not ahead of the gate's, and of an interrupted call about to record it is behind
\* it once the phase is off.
FlightInv ==
  /\ SettledTracksFlight
  /\ DriveIsCurrent
  /\ QueueOnlyInFlight
  /\ Armed # {} /\ stopping # "stopped" => gate.injecting
  /\ gate.injecting => gate.phase # "off"
  /\ \A r \in Injectors : inj[r].pc \in HasGeneration
                            => inj[r].generation <= gate.generation
  /\ \A r \in interrupted : inj[r].pc = "record" /\ gate.phase = "off"
                              => inj[r].generation < gate.generation

LEMMA ArmedHolder ==
  ASSUME NEW f, NEW h, \A p \in Injectors : h = p <=> f[p].pc \in Inside,
         NEW r \in Injectors, f[r].pc \in Inside
  PROVE  ArmedIn(f) = IF f[r].pc \in ArmedStates THEN {r} ELSE {}
<1>1. h = r /\ \A p \in Injectors : p # r => f[p].pc \notin Inside
  OBVIOUS
<1>2. ArmedStates \subseteq Inside
  BY DEF ArmedStates, Inside
<1>3. \A p \in ArmedIn(f) : p = r /\ f[r].pc \in ArmedStates
  BY <1>1, <1>2 DEF ArmedIn
<1>4. f[r].pc \in ArmedStates => r \in ArmedIn(f)
  BY DEF ArmedIn
<1>5. QED
  BY <1>3, <1>4

LEMMA ArmedNow == Armed = ArmedIn(inj) /\ Armed' = ArmedIn(inj')
BY DEF Armed, ArmedIn, ArmedStates

\* A step that leaves the call that is out in its place.
LEMMA FlightFrame ==
  ASSUME TypeInv, TypeInv', FlightInv,
         Armed' = Armed,
         \A p \in Armed : injection = p => injection' = p,
         Sound(gate, gate'),
         stopping' # "stopped" => stopping # "stopped",
         \A p \in Injectors : inj'[p].pc \in HasGeneration
                                => inj'[p].generation <= gate.generation,
         \A p \in interrupted' : inj'[p].pc = "record" /\ gate'.phase = "off" =>
            \/ p \in interrupted /\ inj[p].pc = "record"
                 /\ inj'[p].generation = inj[p].generation
            \/ gate'.generation > gate.generation
            \/ gate.injecting
  PROVE  FlightInv'
<1>1. /\ gate \in Gates /\ gate' \in Gates
      /\ \A p \in Injectors : /\ inj[p].generation \in Nat
                              /\ inj'[p].generation \in Nat
      /\ interrupted' \subseteq Injectors
  BY DEF TypeInv, TypeOK, Injections
<1>2. /\ gate.generation \in Nat /\ gate'.generation \in Nat
      /\ gate.injecting \in BOOLEAN /\ gate'.injecting \in BOOLEAN
  BY <1>1, GateFields
<1>3. /\ gate'.injectSeq = gate.injectSeq /\ gate'.settledSeq = gate.settledSeq
      /\ gate'.drive = {} \/ (gate'.drive = gate.drive /\ gate'.resumeSeq = gate.resumeSeq)
      /\ gate'.generation >= gate.generation
      /\ gate'.phase = "off" => gate.phase = "off" \/ gate'.generation > gate.generation
      /\ gate'.injecting = gate.injecting
      /\ ~gate.injecting /\ gate.deferred = << >> => gate'.deferred = << >>
      /\ gate.injecting /\ gate'.phase = "off" => gate.phase = "off"
  BY DEF Sound
<1>4. SettledTracksFlight'
  BY <1>3 DEF FlightInv, SettledTracksFlight
<1>5. DriveIsCurrent'
  BY <1>3 DEF FlightInv, DriveIsCurrent
<1>6. QueueOnlyInFlight'
  BY <1>3 DEF FlightInv, QueueOnlyInFlight
<1>7. Armed' # {} /\ stopping' # "stopped" => gate'.injecting
  BY <1>3 DEF FlightInv
<1>8. gate'.injecting => gate'.phase # "off"
  BY <1>3 DEF FlightInv
<1>9. ASSUME NEW p \in Injectors, inj'[p].pc \in HasGeneration
      PROVE  inj'[p].generation <= gate'.generation
  BY <1>1, <1>2, <1>3, <1>9
<1>10. ASSUME NEW p \in interrupted', inj'[p].pc = "record", gate'.phase = "off"
       PROVE  inj'[p].generation < gate'.generation
  <2>1. inj'[p].generation <= gate.generation
    BY <1>1, <1>10 DEF HasGeneration
  <2>2. CASE gate'.generation > gate.generation
    BY <1>1, <1>2, <2>1, <2>2
  <2>3. CASE gate.injecting
    BY <1>3, <1>10, <2>3 DEF FlightInv
  <2>4. CASE /\ p \in interrupted /\ inj[p].pc = "record"
             /\ inj'[p].generation = inj[p].generation
             /\ ~(gate'.generation > gate.generation)
    <3>1. gate.phase = "off"
      BY <1>3, <1>10, <2>4
    <3>2. inj[p].generation < gate.generation
      BY <2>4, <3>1 DEF FlightInv
    <3>3. QED
      BY <1>1, <1>2, <1>3, <2>4, <3>2
  <2>5. QED
    BY <1>10, <2>2, <2>3, <2>4
<1>11. QED
  BY <1>4, <1>5, <1>6, <1>7, <1>8, <1>9, <1>10 DEF FlightInv

\* Steps that leave every request where it is.
LEMMA FlightSteady ==
  ASSUME TypeInv, TypeInv', FlightInv, UNCHANGED inj,
         \A p \in Injectors : injection = p => injection' = p,
         Sound(gate, gate'),
         stopping' # "stopped" => stopping # "stopped",
         \/ interrupted' = interrupted
         \/ gate'.phase # "off" \/ gate'.generation > gate.generation
         \/ gate.injecting \/ Armed = {}
  PROVE  FlightInv'
<1>1. Armed' = Armed /\ Armed \subseteq Injectors
  BY DEF Armed
<1>2. \A p \in Injectors : inj'[p].pc \in HasGeneration
                             => inj'[p].generation <= gate.generation
  BY DEF FlightInv
<1>3. \A p \in interrupted' : inj'[p].pc = "record" /\ gate'.phase = "off" =>
            \/ p \in interrupted /\ inj[p].pc = "record"
                 /\ inj'[p].generation = inj[p].generation
            \/ gate'.generation > gate.generation
            \/ gate.injecting
  <2>1. interrupted' \subseteq Injectors
    BY DEF TypeInv, TypeOK
  <2>2. CASE Armed = {}
    BY <2>1, <2>2 DEF Armed
  <2>3. CASE Armed # {}
    BY <2>3
  <2>4. QED
    BY <2>2, <2>3
<1>4. QED
  BY <1>1, <1>2, <1>3, FlightFrame

\* The step of the request that holds the lock, before it arms or in its loop.
LEMMA FlightHolder ==
  ASSUME TypeInv, TypeInv', LockInv, LockInv', FlightInv,
         NEW r \in Injectors, NEW a, NEW b, Moved(r, a, b),
         a \in Inside, b \in Inside, a \in ArmedStates <=> b \in ArmedStates,
         injection' = injection, stopping' = stopping, interrupted' = interrupted,
         Sound(gate, gate'),
         b \in HasGeneration => inj'[r].generation <= gate.generation,
         b = "record" => r \notin interrupted
  PROVE  FlightInv'
<1>1. Armed' = Armed
  <2>1. ArmedIn(inj) = IF a \in ArmedStates THEN {r} ELSE {}
    BY ArmedHolder DEF LockInv, Moved
  <2>2. ArmedIn(inj') = IF b \in ArmedStates THEN {r} ELSE {}
    <3> DEFINE f == inj'
               h == injection'
    <3>1. /\ \A p \in Injectors : h = p <=> f[p].pc \in Inside
          /\ f[r].pc = b /\ f[r].pc \in Inside
      BY DEF LockInv, Moved
    <3> HIDE DEF f, h
    <3>2. ArmedIn(f) = IF f[r].pc \in ArmedStates THEN {r} ELSE {}
      BY <3>1, ArmedHolder
    <3>3. ArmedIn(f) = IF b \in ArmedStates THEN {r} ELSE {}
      BY <3>1, <3>2
    <3>4. QED
      BY <3>3 DEF f
  <2>3. QED
    BY <2>1, <2>2, ArmedNow
<1>2. \A p \in Injectors : inj'[p].pc \in HasGeneration
                             => inj'[p].generation <= gate.generation
  BY DEF FlightInv, Moved
<1>3. \A p \in interrupted' : inj'[p].pc = "record" =>
         p \in interrupted /\ inj[p].pc = "record"
           /\ inj'[p].generation = inj[p].generation
  BY DEF Moved, TypeInv, TypeOK
<1>4. QED
  BY <1>1, <1>2, <1>3, FlightFrame

\* The step of a request that holds no lock before or after.
LEMMA FlightOutside ==
  ASSUME TypeInv, TypeInv', FlightInv,
         NEW r \in Injectors, NEW a, NEW b, Moved(r, a, b),
         a \notin ArmedStates, b \notin ArmedStates, \A p \in Injectors \ {r} : injection = p => injection' = p,
         stopping' = stopping, Sound(gate, gate'),
         interrupted' \subseteq interrupted \/ gate'.phase # "off"
  PROVE  FlightInv'
<1>1. Armed' = Armed /\ r \notin Armed
  BY DEF Moved, Armed, ArmedStates
<1>2. HasGeneration \subseteq ArmedStates /\ "record" \in ArmedStates
  BY DEF HasGeneration, ArmedStates
<1>3. \A p \in Injectors : inj'[p].pc \in HasGeneration
                             => inj'[p].generation <= gate.generation
  BY <1>2 DEF FlightInv, Moved
<1>4. \A p \in interrupted' : inj'[p].pc = "record" /\ gate'.phase = "off" =>
         p \in interrupted /\ inj[p].pc = "record"
           /\ inj'[p].generation = inj[p].generation
  BY <1>2 DEF Moved, TypeInv, TypeOK
<1>5. \A p \in Armed : injection = p => injection' = p
  BY <1>1 DEF Armed
<1>6. QED
  BY <1>1, <1>3, <1>4, <1>5, FlightFrame

LEMMA HolderAlone ==
  ASSUME LockInv, NEW r \in Injectors, inj[r].pc \in Inside
  PROVE  /\ injection = r
         /\ Armed = IF inj[r].pc \in ArmedStates THEN {r} ELSE {}
         /\ \A p \in Injectors : p # r => inj[p].pc \notin Inside
<1>1. ArmedIn(inj) = IF inj[r].pc \in ArmedStates THEN {r} ELSE {}
  BY ArmedHolder DEF LockInv
<1>2. QED
  BY <1>1, ArmedNow DEF LockInv

\* Where the holder is after its step, and the request that has the lock then.
LEMMA HolderMoves ==
  ASSUME LockInv, LockInv', NEW r \in Injectors, NEW a, NEW b, Moved(r, a, b),
         a \in Inside, b \in Inside
  PROVE  /\ injection = r /\ injection' = r
         /\ Armed = IF a \in ArmedStates THEN {r} ELSE {}
         /\ Armed' = IF b \in ArmedStates THEN {r} ELSE {}
         /\ \A p \in Injectors : p # r => inj'[p].pc \notin Inside
<1>1. /\ injection = r /\ Armed = IF a \in ArmedStates THEN {r} ELSE {}
      /\ \A p \in Injectors : p # r => inj[p].pc \notin Inside
  BY HolderAlone DEF Moved
<1>2. \A p \in Injectors : p # r => inj'[p].pc \notin Inside
  BY <1>1 DEF Moved
<1>3. injection' = r
  BY DEF LockInv, Moved
<1>4. ArmedIn(inj') = IF b \in ArmedStates THEN {r} ELSE {}
  <2>1. ArmedStates \subseteq Inside
    BY DEF ArmedStates, Inside
  <2>2. \A p \in Injectors : inj'[p].pc \in ArmedStates <=> p = r /\ b \in ArmedStates
    BY <1>2, <2>1 DEF Moved
  <2>3. QED
    BY <2>2 DEF ArmedIn
<1>5. QED
  BY <1>1, <1>2, <1>3, <1>4, ArmedNow

\* begin_inject: nothing was out, and one call is now.
LEMMA FlightBegins ==
  ASSUME TypeInv, TypeInv', LockInv, LockInv', FlightInv,
         NEW r \in Injectors, Moved(r, "arm", "generation"),
         stopping' = stopping, interrupted' = interrupted,
         gate' = BeginInject(gate, inj[r].session)
  PROVE  FlightInv'
<1>1. /\ injection' = r /\ Armed = {} /\ Armed' = {r}
      /\ \A p \in Injectors : p # r => inj'[p].pc \notin Inside
  BY HolderMoves DEF Inside, ArmedStates
<1>2. /\ gate \in Gates /\ interrupted' \subseteq Injectors
  BY DEF TypeInv, TypeOK
<1>3. /\ gate.injectSeq \in Nat /\ gate.settledSeq \in Nat
  BY <1>2, GateFields
<1>4. gate.settledSeq = gate.injectSeq
  BY <1>1, <1>3 DEF FlightInv, SettledTracksFlight
<1> DEFINE h == gate'
<1> PICK g \in Gates : g = gate
  BY <1>2
<1> PICK s : s = inj[r].session
  OBVIOUS
<1>5. h = BeginInject(g, s)
  OBVIOUS
<1> HIDE DEF h
<1>6. /\ h.phase = "running" /\ h.resumeSeq = gate.resumeSeq
      /\ h.deferred = gate.deferred /\ h.drive = gate.drive
      /\ h.generation = gate.generation /\ h.injectSeq = gate.injectSeq + 1
      /\ h.settledSeq = gate.settledSeq /\ h.injecting
  <2>1. /\ h.phase = "running" /\ h.resumeSeq = g.resumeSeq
        /\ h.deferred = g.deferred /\ h.drive = g.drive
        /\ h.generation = g.generation /\ h.injectSeq = g.injectSeq + 1
        /\ h.settledSeq = g.settledSeq /\ h.injecting
    BY <1>5, BeginFields
  <2>2. QED
    BY <2>1
<1>7. /\ gate'.phase = "running" /\ gate'.resumeSeq = gate.resumeSeq
      /\ gate'.drive = gate.drive /\ gate'.injectSeq = gate.injectSeq + 1
      /\ gate'.settledSeq = gate.settledSeq /\ gate'.injecting
  BY <1>6 DEF h
<1>8. SettledTracksFlight'
  BY <1>1, <1>3, <1>4, <1>7 DEF SettledTracksFlight
<1>9. DriveIsCurrent'
  <2>1. \A d \in gate.drive : d.injectSeq \in Nat
    BY <1>2, GateFields DEF Drives
  <2>2. QED
    BY <1>3, <1>7, <2>1 DEF FlightInv, DriveIsCurrent
<1>10. QueueOnlyInFlight'
  BY <1>1, <1>7 DEF QueueOnlyInFlight
<1>11. \A p \in Injectors : inj'[p].pc \notin HasGeneration
  BY <1>1 DEF HasGeneration, Inside, Moved
<1>12. \A p \in interrupted' : inj'[p].pc # "record"
  BY <1>2, <1>11 DEF HasGeneration
<1>13. QED
  BY <1>7, <1>8, <1>9, <1>10, <1>11, <1>12 DEF FlightInv

\* The sample of the call that is out is stored, or dropped.
LEMMA FlightRecords ==
  ASSUME TypeInv, TypeInv', LockInv, LockInv', FlightInv,
         NEW r \in Injectors, Moved(r, "record", "unwind"),
         inj'[r].generation = inj[r].generation,
         stopping' = stopping, interrupted' = interrupted,
         gate' = StoreDrive(gate, inj[r].session)
  PROVE  FlightInv'
<1>1. /\ injection = r /\ injection' = r /\ Armed = {r} /\ Armed' = {r}
      /\ \A p \in Injectors : p # r => inj'[p].pc \notin Inside
  BY HolderMoves DEF Inside, ArmedStates
<1>2. /\ gate \in Gates /\ interrupted' \subseteq Injectors
  BY DEF TypeInv, TypeOK
<1>3. gate.injectSeq \in Nat
  BY <1>2, GateFields
<1> DEFINE h == gate'
<1>4. h = StoreDrive(gate, inj[r].session)
  OBVIOUS
<1> HIDE DEF h
<1>5. /\ h.phase = "running" /\ h.resumeSeq = gate.resumeSeq
      /\ h.deferred = gate.deferred
      /\ h.drive = {[resumeSeq |-> gate.resumeSeq, injectSeq |-> gate.injectSeq]}
      /\ h.generation = gate.generation /\ h.injectSeq = gate.injectSeq
      /\ h.settledSeq = gate.settledSeq /\ h.injecting = gate.injecting
  BY <1>2, <1>4, StoreFields
<1>6. SettledTracksFlight'
  BY <1>1, <1>5 DEF h, FlightInv, SettledTracksFlight
<1>7. DriveIsCurrent'
  BY <1>3, <1>5 DEF h, DriveIsCurrent
<1>8. QueueOnlyInFlight'
  BY <1>1, <1>5 DEF h, FlightInv, QueueOnlyInFlight
<1>9. Armed' # {} /\ stopping' # "stopped" => gate'.injecting
  BY <1>1, <1>5 DEF h, FlightInv
<1>10. ASSUME NEW p \in Injectors, inj'[p].pc \in HasGeneration
       PROVE  inj'[p].generation <= gate'.generation
  <2>1. p = r /\ inj[r].pc \in HasGeneration
    BY <1>1, <1>10 DEF HasGeneration, Inside, Moved
  <2>2. QED
    BY <1>5, <2>1 DEF h, FlightInv
<1>11. \A p \in interrupted' : inj'[p].pc # "record"
  BY <1>1, <1>2 DEF Inside, Moved
<1>12. gate'.phase # "off"
  BY <1>5 DEF h
<1>13. QED
  BY <1>6, <1>7, <1>8, <1>9, <1>10, <1>11, <1>12 DEF FlightInv

\* end_inject: nothing is out any more.
LEMMA FlightUnwinds ==
  ASSUME TypeInv, TypeInv', LockInv, LockInv', FlightInv,
         NEW r \in Injectors, Moved(r, "unwind", "replay"),
         gate' = SettleInject(gate)
  PROVE  FlightInv'
<1>1. /\ Armed = {r} /\ Armed' = {}
      /\ \A p \in Injectors : p # r => inj'[p].pc \notin Inside
  BY HolderMoves DEF Inside, ArmedStates
<1>2. /\ gate \in Gates /\ interrupted' \subseteq Injectors
  BY DEF TypeInv, TypeOK
<1>3. /\ gate.injectSeq \in Nat /\ gate.settledSeq \in Nat
  BY <1>2, GateFields
<1> DEFINE h == gate'
<1>4. h = SettleInject(gate)
  OBVIOUS
<1> HIDE DEF h
<1>5. /\ h.phase = gate.phase /\ h.resumeSeq = gate.resumeSeq
      /\ h.deferred = << >> /\ h.drive = gate.drive
      /\ h.generation = gate.generation /\ h.injectSeq = gate.injectSeq
      /\ h.settledSeq = IF gate.settledSeq < gate.injectSeq THEN gate.injectSeq
                        ELSE gate.settledSeq
      /\ h.injecting = FALSE
  BY <1>2, <1>4, SettleFields
<1>6. SettledTracksFlight'
  BY <1>1, <1>3, <1>5 DEF h, FlightInv, SettledTracksFlight
<1>7. DriveIsCurrent'
  BY <1>5 DEF h, FlightInv, DriveIsCurrent
<1>8. QueueOnlyInFlight'
  BY <1>5 DEF h, QueueOnlyInFlight
<1>9. \A p \in Injectors : inj'[p].pc \notin HasGeneration
  BY <1>1 DEF HasGeneration, Inside, Moved
<1>10. \A p \in interrupted' : inj'[p].pc # "record"
  BY <1>2, <1>9 DEF HasGeneration
<1>11. Armed' = {} /\ ~gate'.injecting
  BY <1>1, <1>5 DEF h
<1>12. QED
  BY <1>6, <1>7, <1>8, <1>9, <1>10, <1>11 DEF FlightInv

\* reset at the end of shutdown may come under a call that is out.
LEMMA FlightIsReset ==
  ASSUME TypeInv, TypeInv', FlightInv, StopReset
  PROVE  FlightInv'
<1>1. /\ inj' = inj /\ interrupted' = interrupted /\ stopping' = "stopped"
      /\ gate' = Reset(gate)
  BY DEF StopReset, GoStopping
<1>2. gate \in Gates /\ interrupted \subseteq Injectors
      /\ \A p \in Injectors : inj[p].generation \in Nat
  BY DEF TypeInv, TypeOK, Injections
<1>3. Armed' = Armed
  BY <1>1 DEF Armed
<1>4. gate.generation \in Nat
  BY <1>2, GateFields
<1> DEFINE h == gate'
<1>5. h = Reset(gate)
  BY <1>1
<1> HIDE DEF h
<1>6. /\ h.phase = "off" /\ h.deferred = << >> /\ h.drive = {}
      /\ h.generation = gate.generation + 1 /\ h.injectSeq = gate.injectSeq
      /\ h.settledSeq = gate.settledSeq /\ h.injecting = FALSE
  BY <1>2, <1>5, ResetFields
<1>7. SettledTracksFlight'
  BY <1>3, <1>6 DEF h, FlightInv, SettledTracksFlight
<1>8. DriveIsCurrent' /\ QueueOnlyInFlight'
  BY <1>6 DEF h, DriveIsCurrent, QueueOnlyInFlight
<1>9. \A p \in Injectors : inj[p].pc \in HasGeneration => inj[p].generation < gate'.generation
  BY <1>2, <1>4, <1>6 DEF h, FlightInv
<1>10. ~gate'.injecting /\ \A p \in interrupted : inj[p].pc = "record" => inj[p].pc \in HasGeneration
  BY <1>6 DEF h, HasGeneration
<1>11. gate'.generation \in Nat
  BY <1>4, <1>6 DEF h
<1>12. \A p \in Injectors : inj[p].pc \in HasGeneration => inj[p].generation <= gate'.generation
  BY <1>2, <1>9, <1>11
<1>13. QED
  BY <1>1, <1>2, <1>7, <1>8, <1>9, <1>10, <1>12 DEF FlightInv

LEMMA PausePhase ==
  ASSUME NEW g \in Gates, NEW h, h = Pause(g) PROVE h.phase = "paused"
BY DEF Pause, Publish, Defer, BumpEpoch, Gates

LEMMA StopGeneration ==
  ASSUME NEW g \in Gates, NEW h, h = Stop(g)
  PROVE  g.injecting \/ h.generation > g.generation
<1> SUFFICES ASSUME ~g.injecting PROVE h.generation > g.generation
  OBVIOUS
<1>1. h = Reset(BumpEpoch(g)) /\ BumpEpoch(g) \in Gates
      /\ BumpEpoch(g).generation = g.generation
  BY BumpFields DEF Stop
<1>2. h.generation = BumpEpoch(g).generation + 1
  BY <1>1, ResetFields
<1>3. g.generation \in Nat
  BY GateFields
<1>4. QED
  BY <1>1, <1>2, <1>3

LEMMA KeyboardPhase ==
  ASSUME NEW g \in Gates, g.phase # "off", NEW h, h = SetKeyboardUnavailable(g)
  PROVE  h.phase # "off"
BY DEF SetKeyboardUnavailable, Pause, Publish, Defer, BumpEpoch, Gates

LEMMA FlightInit == Init => FlightInv
<1> SUFFICES ASSUME Init PROVE FlightInv
  OBVIOUS
<1>1. \A r \in Injectors : inj[r].pc = "idle"
  BY DEF Init, InjectorAt
<1>2. /\ gate.injectSeq = 0 /\ gate.settledSeq = 0 /\ gate.drive = {}
      /\ gate.deferred = << >> /\ ~gate.injecting /\ interrupted = {}
  BY DEF Init, InitialGate
<1>3. Armed = {}
  BY <1>1 DEF Armed
<1>4. QED
  BY <1>1, <1>2, <1>3
  DEF FlightInv, SettledTracksFlight, DriveIsCurrent, QueueOnlyInFlight, HasGeneration

LEMMA FlightInjector ==
  ASSUME TypeInv, TypeInv', ReplayInv, LockInv, LockInv', EpochInv, FlightInv,
         NEW r \in Injectors,
         \/ \E s \in Sessions, n \in 1..MaxChunks : Arrive(r, s, n)
         \/ InjectorStep(r)
  PROVE  FlightInv'
<1>0. /\ gate \in Gates /\ interrupted \subseteq Injectors
      /\ NoOne \notin Injectors /\ Sound(gate, gate)
  BY SameInterrupting, AutomationAssumption DEF TypeInv, TypeOK, Interrupting
<1>1. ASSUME NEW a, NEW b, GoInj(r, a, b), a \notin ArmedStates, b \notin ArmedStates,
             OnlyInj
      PROVE  FlightInv'
  <2>1. Moved(r, a, b)
    BY <1>1, GoInjMoves
  <2>2. /\ injection' = injection /\ stopping' = stopping
        /\ interrupted' = interrupted /\ Sound(gate, gate')
    BY <1>0, <1>1 DEF OnlyInj, history
  <2>3. QED
    BY <1>1, <2>1, <2>2, FlightOutside
<1>2. ASSUME NEW s \in Sessions, NEW n \in 1..MaxChunks, Arrive(r, s, n)
      PROVE  FlightInv'
  <2>1. /\ Moved(r, "idle", "capture") /\ gate' = Watchdog(gate)
        /\ injection' = injection /\ stopping' = stopping
    BY <1>2, DataMoves DEF Arrive
  <2>2. Sound(gate, gate')
    BY <1>0, <2>1, PollInterrupting DEF Interrupting
  <2>3. interrupted' \subseteq interrupted \/ gate'.phase # "off"
    <3>1. CASE WatchdogFires(gate)
      BY <1>0, <2>1, <3>1, PausePhase DEF Watchdog
    <3>2. CASE ~WatchdogFires(gate)
      BY <1>2, <3>2 DEF Arrive, Interrupts
    <3>3. QED
      BY <3>1, <3>2
  <2>4. QED
    BY <2>1, <2>2, <2>3, FlightOutside DEF ArmedStates
<1>3. CASE Capture(r)
  <2>1. Moved(r, "capture", "keyboard")
    BY <1>3, DataMoves
  <2>2. /\ injection' = injection /\ stopping' = stopping
        /\ interrupted' = interrupted /\ Sound(gate, gate')
    BY <1>0, <1>3 DEF Capture, OnlyInj, history
  <2>3. QED
    BY <2>1, <2>2, FlightOutside DEF ArmedStates
<1>4. CASE KeyboardCheck(r)
  BY <1>1, <1>4 DEF KeyboardCheck, ArmedStates
<1>5. CASE Precheck(r)
  BY <1>1, <1>5 DEF Precheck, ArmedStates
<1>6. CASE StaleCheck(r)
  BY <1>1, <1>6 DEF StaleCheck, ArmedStates
<1>7. CASE MarkVerb(r)
  BY <1>1, <1>7 DEF MarkVerb, ArmedStates
<1>8. CASE PostCheck(r)
  BY <1>1, <1>8 DEF PostCheck, ArmedStates
<1>9. CASE StretchEnded(r)
  BY <1>1, <1>9 DEF StretchEnded, ArmedStates
<1>10. CASE Acquire(r)
  <2>1. PICK b \in {"check", "unlock"} : Moved(r, "wait", b)
    BY <1>10, GoInjMoves DEF Acquire
  <2>2. /\ \A p \in Injectors : injection # p
        /\ stopping' = stopping
        /\ interrupted' = interrupted /\ Sound(gate, gate')
    BY <1>0, <1>10 DEF Acquire, history
  <2>3. QED
    BY <2>1, <2>2, FlightOutside DEF ArmedStates
<1>11. CASE Arm(r)
  <2>1. /\ stopping' = stopping /\ interrupted' = interrupted
        /\ injection' = injection
    BY <1>11 DEF Arm, history
  <2>2. CASE MayBegin(gate, inj[r].epoch)
    <3>1. Moved(r, "arm", "generation") /\ gate' = BeginInject(gate, inj[r].session)
      BY <1>11, <2>2, GoInjMoves DEF Arm
    <3>2. QED
      BY <2>1, <3>1, FlightBegins
  <2>3. CASE ~MayBegin(gate, inj[r].epoch)
    <3>1. Moved(r, "arm", "unlock") /\ gate' = gate
      BY <1>11, <2>3, GoInjMoves DEF Arm
    <3>2. Sound(gate, gate')
      BY <1>0, <3>1
    <3>3. QED
      BY <2>1, <3>1, <3>2, FlightOutside DEF ArmedStates
  <2>4. QED
    BY <2>2, <2>3
<1>12. CASE ReadGeneration(r)
  <2>1. Moved(r, "generation", "loop") /\ inj'[r].generation = gate.generation
    BY <1>12, DataMoves
  <2>2. /\ injection' = injection /\ stopping' = stopping
        /\ interrupted' = interrupted /\ Sound(gate, gate')
    BY <1>0, <1>12 DEF ReadGeneration, OnlyInj, history
  <2>3. inj'[r].generation <= gate.generation
    BY <1>0, <2>1, GateFields
  <2>4. QED
    BY <2>1, <2>2, <2>3, FlightHolder DEF Inside, ArmedStates
<1>13. CASE ChunkCheck(r)
  <2>1. PICK b \in {"unwind", "send", "record"} :
          /\ Moved(r, "loop", b) /\ inj'[r].generation = inj[r].generation
          /\ b = "record" => ~IsCancelled(r)
    BY <1>13, GoInjMoves DEF ChunkCheck
  <2>2. /\ injection' = injection /\ stopping' = stopping
        /\ interrupted' = interrupted /\ Sound(gate, gate')
    BY <1>0, <1>13 DEF ChunkCheck, OnlyInj, history
  <2>3. inj'[r].generation <= gate.generation
    BY <2>1 DEF FlightInv, Moved, HasGeneration
  <2>4. b = "record" => r \notin interrupted
    <3>1. ~IsCancelled(r) => inj[r].epoch = gate.epoch
      BY DEF EpochInv, PublishedMatches, IsCancelled, Cancelled
    <3>2. r \in interrupted => inj[r].epoch < gate.epoch
      BY DEF EpochInv
    <3>3. inj[r].epoch \in Nat /\ gate.epoch \in Nat
      BY <1>0, GateFields DEF TypeInv, TypeOK, Injections
    <3>4. QED
      BY <2>1, <3>1, <3>2, <3>3
  <2>5. QED
    BY <2>1, <2>2, <2>3, <2>4, FlightHolder DEF Inside, ArmedStates
<1>14. CASE SendChunk(r)
  <2>1. PICK b \in {"loop", "unwind"} :
          Moved(r, "send", b) /\ inj'[r].generation = inj[r].generation
    BY <1>14, DataMoves
  <2>2. /\ injection' = injection /\ stopping' = stopping
        /\ interrupted' = interrupted /\ Sound(gate, gate')
    BY <1>0, <1>14 DEF SendChunk
  <2>3. inj'[r].generation <= gate.generation
    BY <2>1 DEF FlightInv, Moved, HasGeneration
  <2>4. QED
    BY <2>1, <2>2, <2>3, FlightHolder DEF Inside, ArmedStates
<1>15. CASE Record(r)
  <2>1. /\ Moved(r, "record", "unwind") /\ inj'[r].generation = inj[r].generation
        /\ injection' = injection /\ stopping' = stopping /\ interrupted' = interrupted
    BY <1>15, GoInjMoves DEF Record, history
  <2>2. CASE gate' = StoreDrive(gate, inj[r].session)
    BY <2>1, <2>2, FlightRecords
  <2>3. CASE gate' = gate
    <3>1. inj'[r].generation <= gate.generation /\ Sound(gate, gate')
      BY <1>0, <2>1, <2>3 DEF FlightInv, Moved, HasGeneration
    <3>2. QED
      BY <2>1, <3>1, FlightHolder DEF Inside, ArmedStates
  <2>4. QED
    BY <1>15, <2>2, <2>3 DEF Record
<1>16. CASE BeginUnwind(r)
  <2>1. Moved(r, "unwind", "replay") /\ gate' = SettleInject(gate)
    BY <1>16, GoInjMoves DEF BeginUnwind
  <2>2. QED
    BY <2>1, FlightUnwinds
<1>17. CASE ReplayOne(r)
  <2>1. /\ gate.injecting = FALSE /\ gate.deferred = << >>
        /\ replay.fresh \in BOOLEAN /\ Head(replay.rest) \in Deferred
        /\ gate' = ApplyDeferred(gate, Head(replay.rest), replay.fresh)
    BY <1>17, ReplayStep
  <2>2. Sound(gate, gate')
    BY <1>0, <2>1, ReplayedEntry
  <2>3. UNCHANGED << inj, injection, stopping, interrupted >>
    BY <1>17 DEF ReplayOne, history
  <2>4. QED
    BY <2>2, <2>3, FlightSteady
<1>18. CASE EndInject(r)
  <2>1. Moved(r, "replay", "unlock") /\ gate' = Publish(gate)
    BY <1>18, GoInjMoves DEF EndInject
  <2>2. Sound(gate, gate')
    BY <1>0, <2>1, PublishInterrupting DEF Interrupting
  <2>3. injection' = injection /\ stopping' = stopping /\ interrupted' = interrupted
    BY <1>18 DEF EndInject, history
  <2>4. QED
    BY <2>1, <2>2, <2>3, FlightOutside DEF ArmedStates
<1>19. CASE Unlock(r)
  <2>1. /\ Moved(r, "unlock", "done") /\ stopping' = stopping
        /\ interrupted' \subseteq interrupted /\ gate' = gate
    BY <1>19, GoInjMoves DEF Unlock
  <2>2. injection = r
    BY <2>1 DEF LockInv, Moved, Inside
  <2>3. Sound(gate, gate')
    BY <1>0, <2>1
  <2>4. QED
    BY <2>1, <2>2, <2>3, FlightOutside DEF ArmedStates
<1>20. QED
  BY <1>2, <1>3, <1>4, <1>5, <1>6, <1>7, <1>8, <1>9, <1>10, <1>11, <1>12, <1>13, <1>14,
     <1>15, <1>16, <1>17, <1>18, <1>19 DEF InjectorStep, Inject

LEMMA FlightController ==
  ASSUME TypeInv, TypeInv', ReplayInv, FlightInv, NEW c \in Controllers,
         ControlArrive(c) \/ ControlStep(c)
  PROVE  FlightInv'
<1>0. gate \in Gates /\ Sound(gate, gate)
  BY SameInterrupting DEF TypeInv, TypeOK, Interrupting
<1>1. UNCHANGED << inj, injection, stopping >>
  BY DEF ControlArrive, ControlStep, ControlPause, ControlStop, ControlKeyboardCheck,
         ControlLive, ControlSelect, ControlApply, OnlyCtl
<1>2. CASE gate' = gate /\ interrupted' = interrupted
  BY <1>0, <1>1, <1>2, FlightSteady
<1>3. CASE gate' = Pause(gate)
  <2>1. Sound(gate, gate') /\ gate'.phase = "paused"
    BY <1>0, <1>3, PauseInterrupting, PausePhase DEF Interrupting
  <2>2. QED
    BY <1>1, <2>1, FlightSteady
<1>4. CASE gate' = Stop(gate)
  <2>1. Sound(gate, gate')
    BY <1>0, <1>4, StopInterrupting DEF Interrupting
  <2>2. gate.injecting \/ gate'.generation > gate.generation
    BY <1>0, <1>4, StopGeneration
  <2>3. QED
    BY <1>1, <2>1, <2>2, FlightSteady
<1>5. CASE ControlApply(c) /\ gate' # gate
  <2>1. /\ ctl[c].action \in {"start", "resume"} /\ ctl[c].session \in MaybeSession
        /\ ctl[c].companion \in BOOLEAN
        /\ Admits(gate, ctl[c].action, ctl[c].session, ctl[c].companion)
        /\ gate' = Apply(gate, ctl[c].action, ctl[c].session, ctl[c].companion)
    BY <1>5, ApplyStep
  <2>2. Sound(gate, gate')
    BY <1>0, <2>1, AdmittedControl DEF ReplayInv
  <2>3. interrupted' = interrupted
    BY <1>5 DEF ControlApply, history
  <2>4. QED
    BY <1>1, <2>2, <2>3, FlightSteady
<1>6. ControlPause(c, TRUE) \/ ControlPause(c, FALSE) => gate' = Pause(gate)
  BY DEF ControlPause
<1>7. \A k \in BOOLEAN : ControlStop(c, k) =>
        gate' = Stop(gate) \/ (gate' = gate /\ interrupted' = interrupted)
  BY DEF ControlStop, history
<1>8. ControlApply(c) /\ gate' = gate => interrupted' = interrupted
  BY DEF ControlApply, history
<1>9. \A a, k : ControlKeyboardCheck(c, a, k) => gate' = gate /\ interrupted' = interrupted
  BY DEF ControlKeyboardCheck, OnlyCtl, history
<1>10. ControlLive(c) \/ ControlSelect(c) => gate' = gate /\ interrupted' = interrupted
  BY DEF ControlLive, ControlSelect, OnlyCtl, history
<1>11. QED
  BY <1>2, <1>3, <1>4, <1>5, <1>6, <1>7, <1>8, <1>9, <1>10 DEF ControlArrive, ControlStep

LEMMA FlightDaemon ==
  ASSUME TypeInv, TypeInv', FlightInv,
         \/ CompanionPoll \/ WatchdogTick \/ KeyboardReport \/ Tick
         \/ \E s \in Sessions : OpenSession(s) \/ CloseRemove(s) \/ CloseStep(s)
         \/ StopCancel \/ StopWait \/ StopClear
  PROVE  FlightInv'
<1>0. gate \in Gates /\ Sound(gate, gate) /\ NoOne \notin Injectors
  BY SameInterrupting, AutomationAssumption DEF TypeInv, TypeOK, Interrupting
<1>1. /\ UNCHANGED inj
      /\ \A p \in Injectors : injection = p => injection' = p
      /\ stopping' # "stopped" => stopping # "stopped"
  BY <1>0 DEF CompanionPoll, WatchdogTick, KeyboardReport, Tick, OnlyGate, OpenSession,
              CloseRemove, CloseStep, CloseNote, CloseFinish, OnlySessions, StopCancel,
              StopWait, StopClear, GoStopping
<1>2. CASE gate' = gate /\ interrupted' = interrupted
  BY <1>0, <1>1, <1>2, FlightSteady
<1>3. CASE CompanionPoll \/ WatchdogTick
  <2>1. Sound(gate, gate')
    BY <1>0, <1>3, PollInterrupting DEF CompanionPoll, WatchdogTick, Interrupting
  <2>2. CASE WatchdogFires(gate)
    <3>1. gate' = Pause(gate)
      BY <1>3, <2>2 DEF CompanionPoll, WatchdogTick, NotePoll, Watchdog
    <3>2. gate'.phase = "paused"
      BY <1>0, <3>1, PausePhase
    <3>3. QED
      BY <1>1, <2>1, <3>2, FlightSteady
  <2>3. CASE ~WatchdogFires(gate)
    <3>1. interrupted' = interrupted
      BY <1>3, <2>3 DEF CompanionPoll, WatchdogTick, Interrupts
    <3>2. QED
      BY <1>1, <2>1, <3>1, FlightSteady
  <2>4. QED
    BY <2>2, <2>3
<1>4. CASE KeyboardReport
  <2>1. gate' = SetKeyboardUnavailable(gate)
        /\ Interrupts(gate.phase = "running" \/ (gate.injecting /\ gate.keyboard))
    BY <1>4 DEF KeyboardReport
  <2>2. Sound(gate, gate')
    BY <1>0, <2>1, KeyboardInterrupting DEF Interrupting
  <2>3. interrupted' = interrupted \/ gate'.phase # "off"
    <3>1. CASE gate.phase = "running" \/ (gate.injecting /\ gate.keyboard)
      <4>1. gate.phase # "off"
        BY <3>1 DEF FlightInv
      <4>2. QED
        BY <1>0, <2>1, <4>1, KeyboardPhase
    <3>2. CASE ~(gate.phase = "running" \/ (gate.injecting /\ gate.keyboard))
      BY <2>1, <3>2 DEF Interrupts
    <3>3. QED
      BY <3>1, <3>2
  <2>4. QED
    BY <1>1, <2>2, <2>3, FlightSteady
<1>5. CASE Tick
  <2>1. /\ gate' = [gate EXCEPT !.trustedAt = Aged(@), !.lastPoll = Aged(@)]
        /\ interrupted' = interrupted
    BY <1>5 DEF Tick, history
  <2>2. Sound(gate, gate')
    BY <1>0, <2>1, TickInterrupting DEF Interrupting
  <2>3. QED
    BY <1>1, <2>1, <2>2, FlightSteady
<1>6. ASSUME NEW s \in Sessions, CloseNote(s) PROVE FlightInv'
  <2> DEFINE h == gate'
  <2>1. h = NoteSessionClosed(gate, s)
    BY <1>6 DEF CloseNote
  <2>2. Interrupts(gate.session = s /\ ~gate.injecting)
    BY <1>6 DEF CloseNote
  <2> HIDE DEF h
  <2>3. /\ Sound(gate, h)
        /\ gate.session = s /\ ~gate.injecting
             => h.phase = "paused" \/ h.generation > gate.generation
    BY <1>0, <2>1, CloseInterrupting DEF Interrupting
  <2>4. /\ Sound(gate, gate')
        /\ gate.session = s /\ ~gate.injecting
             => gate'.phase = "paused" \/ gate'.generation > gate.generation
    BY <2>3 DEF h
  <2>5. interrupted' = interrupted \/ (gate.session = s /\ ~gate.injecting)
    BY <2>2 DEF Interrupts
  <2>6. QED
    BY <1>1, <2>4, <2>5, FlightSteady
<1>7. ASSUME NEW s \in Sessions, CloseFinish(s) PROVE FlightInv'
  <2> DEFINE h == gate'
  <2>1. h = FinishClosedSession(gate, s)
    BY <1>7 DEF CloseFinish
  <2> HIDE DEF h
  <2>2. Sound(gate, h)
    BY <1>0, <2>1, CloseInterrupting DEF Interrupting
  <2>3. Sound(gate, gate') /\ interrupted' = interrupted
    BY <1>7, <2>2 DEF h, CloseFinish, history
  <2>4. QED
    BY <1>1, <2>3, FlightSteady
<1>8. CASE StopCancel
  <2>1. gate' = ShutdownCancel(gate) /\ stopping = "up"
    BY <1>8 DEF StopCancel, GoStopping
  <2>2. Sound(gate, gate')
    BY <1>0, <2>1, StopInterrupting DEF Interrupting
  <2>3. gate.injecting \/ Armed = {}
    BY <2>1 DEF FlightInv
  <2>4. QED
    BY <1>1, <2>2, <2>3, FlightSteady
<1>9. \A s \in Sessions : OpenSession(s) \/ CloseRemove(s)
        => gate' = gate /\ interrupted' = interrupted
  BY DEF OpenSession, CloseRemove, history
<1>10. StopWait \/ StopClear => gate' = gate /\ interrupted' = interrupted
  BY DEF StopWait, StopClear, history
<1>11. QED
  BY <1>2, <1>3, <1>4, <1>5, <1>6, <1>7, <1>8, <1>9, <1>10 DEF CloseStep

LEMMA FlightStep ==
  TypeInv /\ TypeInv' /\ ReplayInv /\ LockInv /\ LockInv' /\ EpochInv /\ FlightInv
    /\ [Next]_vars => FlightInv'
<1> SUFFICES ASSUME TypeInv, TypeInv', ReplayInv, LockInv, LockInv', EpochInv, FlightInv,
                    [Next]_vars
             PROVE  FlightInv'
  OBVIOUS
<1>1. CASE UNCHANGED vars
  <2>1. gate \in Gates /\ UNCHANGED << gate, inj, injection, stopping, interrupted >>
    BY <1>1 DEF vars, TypeInv, TypeOK
  <2>2. Sound(gate, gate')
    BY <2>1, SameInterrupting DEF Interrupting
  <2>3. QED
    BY <2>1, <2>2, FlightSteady
<1>2. CASE Next
  BY <1>2, FlightInjector, FlightController, FlightDaemon, FlightIsReset
  DEF Next, StoppingStep
<1>3. QED
  BY <1>1, <1>2

LEMMA FlightAlways == Spec => []FlightInv
<1>1. TypeInv /\ ReplayInv /\ LockInv /\ EpochInv /\ [Next]_vars
        => TypeInv' /\ LockInv'
  BY TypeStep, LockStep
<1>2. ChunkInv => EpochInv
  BY DEF ChunkInv
<1>3. QED
  BY <1>1, <1>2, FlightInit, FlightStep, TypesAlways, ReplayAlways, LockAlways, ChunkAlways,
     PTL DEF Spec

\* The sample of an interrupted call does not bring back a phase that is off: its
\* generation is behind the gate's.
LEMMA DroppedStep ==
  TypeInv /\ FlightInv
    => (\A r \in interrupted : Record(r) /\ gate.phase = "off" => gate'.phase = "off")
<1> SUFFICES ASSUME TypeInv, FlightInv, NEW r \in interrupted, Record(r),
                    gate.phase = "off"
             PROVE  gate'.phase = "off"
  OBVIOUS
<1>1. inj[r].pc = "record" /\ r \in Injectors
  BY DEF Record, GoInj, TypeInv, TypeOK
<1>2. inj[r].generation < gate.generation
  BY <1>1 DEF FlightInv
<1>3. inj[r].generation \in Nat /\ gate.generation \in Nat
  BY <1>1, GateFields DEF TypeInv, TypeOK, Injections
<1>4. ~Accepts(gate, inj[r].generation)
  BY <1>2, <1>3 DEF Accepts
<1>5. QED
  BY <1>4 DEF Record

\* What is recorded of a call is of that call and of the stretch the gate is in:
\* a queue only while a call is out to replay it, an unsettled sequence exactly
\* while one is out, a sample of the present stretch, and nothing from a call that
\* outlived the reset of a shutdown (Gate::begin_inject, finish_inject, accepts,
\* reset).
THEOREM CallsAccountedFor == Spec => CallsAreAccountedFor
<1> DEFINE IInv == TypeInv /\ FlightInv
<1>1. IInv => FlightsAreAccountedFor
  BY DEF FlightInv, FlightsAreAccountedFor
<1>2. IInv /\ [Next]_vars
        => [\A r \in interrupted : Record(r) /\ gate.phase = "off" => gate'.phase = "off"]_vars
  BY DroppedStep
<1>3. Spec => []IInv
  BY TypesAlways, FlightAlways, PTL
<1>4. Spec => []([Next]_vars)
  BY PTL DEF Spec
<1>5. QED
  BY <1>1, <1>2, <1>3, <1>4, PTL DEF CallsAreAccountedFor, InterruptedRecordIsDropped

-----------------------------------------------------------------------------
(* A closed session.                                                       *)

\* A start or resume that has ended picked the session.
Vouched(s) == \E c \in Controllers : ctl[c].session = s /\ ctl[c].pc = "done"

\* The sessions that queued starts and resumes are for.
Asked(q) == {s \in Sessions : \E i \in 1..Len(q) : /\ q[i].kind \in {"start", "resume"}
                                                  /\ q[i].session = s}

Working == Inside \ {"unlock"}

\* Whatever can put the gate on a closed session was asked for by a control that
\* picked it: the gate itself, the queue, and the queue being replayed.  A call
\* that holds the injection lock keeps its session from being closed.
ClosedInv ==
  /\ ClosedSessionLosesGate
  /\ \A s \in Asked(gate.deferred) \cup Asked(replay.rest) : Vouched(s)
  /\ \A r \in Injectors : inj[r].pc \in Working =>
       inj[r].session \in Sessions /\ sessions[inj[r].session] # "closed"

LEMMA AskedAppend ==
  ASSUME NEW q \in Seq(Deferred), NEW e \in Deferred
  PROVE  \A s \in Asked(Append(q, e)) :
            s \in Asked(q) \/ (e.kind \in {"start", "resume"} /\ s = e.session)
<1> SUFFICES ASSUME NEW s \in Asked(Append(q, e)), s \notin Asked(q)
             PROVE  e.kind \in {"start", "resume"} /\ s = e.session
  OBVIOUS
<1>1. PICK i \in 1..Len(Append(q, e)) : /\ Append(q, e)[i].kind \in {"start", "resume"}
                                        /\ Append(q, e)[i].session = s
  BY DEF Asked
<1>2. CASE i = Len(q) + 1
  BY <1>1, <1>2
<1>3. CASE i # Len(q) + 1
  <2>1. i \in 1..Len(q) /\ Append(q, e)[i] = q[i]
    BY <1>1, <1>3
  <2>2. s \in Asked(q)
    BY <1>1, <2>1 DEF Asked
  <2>3. QED
    BY <2>2
<1>4. QED
  BY <1>2, <1>3

LEMMA AskedTail ==
  ASSUME NEW q \in Seq(Deferred), q # << >>
  PROVE  /\ Asked(Tail(q)) \subseteq Asked(q)
         /\ Head(q).kind \in {"start", "resume"} /\ Head(q).session \in Sessions
              => Head(q).session \in Asked(q)
<1>1. ASSUME NEW s \in Asked(Tail(q)) PROVE s \in Asked(q)
  <2>1. PICK i \in 1..Len(Tail(q)) : /\ Tail(q)[i].kind \in {"start", "resume"}
                                     /\ Tail(q)[i].session = s
    BY DEF Asked
  <2>2. i + 1 \in 1..Len(q) /\ Tail(q)[i] = q[i + 1]
    BY <2>1
  <2>3. QED
    BY <2>1, <2>2 DEF Asked
<1>2. 1 \in 1..Len(q) /\ Head(q) = q[1]
  OBVIOUS
<1>3. QED
  BY <1>1, <1>2 DEF Asked

LEMMA AskedNone == Asked(<< >>) = {}
BY DEF Asked

\* A control that ended has ended for good.
LEMMA VouchStays ==
  ASSUME TypeInv, [Next]_vars, NEW s, Vouched(s)
  PROVE  Vouched(s)'
<1>1. PICK c \in Controllers : ctl[c].session = s /\ ctl[c].pc = "done"
  BY DEF Vouched
<1>2. ctl \in [Controllers -> ControlRequests]
  BY DEF TypeInv, TypeOK
<1>3. ASSUME NEW k \in Controllers, ControlArrive(k) \/ ControlStep(k)
      PROVE  ctl'[c] = ctl[c]
  <2>1. k # c
    BY <1>1, <1>3 DEF ControlArrive, ControlStep, ControlPause, ControlStop,
       ControlKeyboardCheck, ControlLive, ControlSelect, ControlApply, EndCtl
  <2>2. \E v : ctl' = [ctl EXCEPT ![k] = v]
    <3>1. ASSUME NEW from, EndCtl(k, from) PROVE \E v : ctl' = [ctl EXCEPT ![k] = v]
      BY <3>1 DEF EndCtl
    <3>2. \A companion : ControlPause(k, companion) \/ ControlStop(k, companion)
                           => EndCtl(k, "idle")
      BY DEF ControlPause, ControlStop
    <3>3. ASSUME NEW a, NEW companion, ControlKeyboardCheck(k, a, companion)
          PROVE  \E v : ctl' = [ctl EXCEPT ![k] = v]
      <4>1. CASE gate.keyboard
        BY <3>3, <4>1 DEF ControlKeyboardCheck
      <4>2. CASE ~gate.keyboard
        BY <3>1, <3>3, <4>2 DEF ControlKeyboardCheck
      <4>3. QED
        BY <4>1, <4>2
    <3>4. ASSUME ControlLive(k) PROVE \E v : ctl' = [ctl EXCEPT ![k] = v]
      BY <3>4 DEF ControlLive
    <3>5. ASSUME ControlSelect(k) PROVE \E v : ctl' = [ctl EXCEPT ![k] = v]
      BY <3>5 DEF ControlSelect
    <3>6. ControlApply(k) => EndCtl(k, "apply")
      BY DEF ControlApply
    <3>7. QED
      BY <1>3, <3>1, <3>2, <3>3, <3>4, <3>5, <3>6 DEF ControlArrive, ControlStep
  <2>3. QED
    BY <1>2, <2>1, <2>2
<1>4. CASE UNCHANGED ctl
  BY <1>1, <1>4 DEF Vouched
<1>5. ASSUME NEW k \in Controllers, ControlArrive(k) \/ ControlStep(k)
      PROVE  Vouched(s)'
  BY <1>1, <1>3, <1>5 DEF Vouched
<1>6. UNCHANGED ctl \/ \E k \in Controllers : ControlArrive(k) \/ ControlStep(k)
  BY DEF Next, vars, Arrive, InjectorStep, Inject, Capture, KeyboardCheck, Precheck,
     StaleCheck, MarkVerb, Acquire, PostCheck, StretchEnded, Arm, ReadGeneration,
     ChunkCheck, SendChunk, Record, BeginUnwind, ReplayOne, EndInject, Unlock, OnlyInj,
     CompanionPoll, WatchdogTick, KeyboardReport, Tick, OnlyGate, OpenSession, CloseRemove,
     CloseStep, CloseNote, CloseFinish, OnlySessions, StopCancel, StoppingStep, StopWait,
     StopClear, StopReset
<1>7. QED
  BY <1>4, <1>5, <1>6

\* A step of the gate: what it puts on the gate, and what it queues, was vouched for.
LEMMA ClosedFrame ==
  ASSUME TypeInv, TypeInv', [Next]_vars, ClosedInv,
         \A s \in Sessions : sessions'[s] = "closed" =>
            sessions[s] = "closed" \/ gate'.session # s,
         \A s \in Sessions : gate'.session = s /\ gate.session # s =>
            sessions[s] # "closed" \/ Vouched(s)',
         \A s \in Asked(gate'.deferred) \cup Asked(replay'.rest) :
            s \in Asked(gate.deferred) \cup Asked(replay.rest) \/ Vouched(s)',
         \A r \in Injectors : inj'[r].pc \in Working =>
            inj'[r].session \in Sessions /\ sessions'[inj'[r].session] # "closed"
  PROVE  ClosedInv'
<1>1. \A s : Vouched(s) => Vouched(s)'
  BY VouchStays
<1>2. ASSUME NEW s \in Sessions, sessions'[s] = "closed", gate'.session = s
      PROVE  Vouched(s)'
  <2>1. sessions[s] = "closed"
    BY <1>2
  <2>2. CASE gate.session = s
    BY <1>1, <2>1, <2>2 DEF ClosedInv, ClosedSessionLosesGate, Vouched
  <2>3. CASE gate.session # s
    BY <1>2, <2>1, <2>3
  <2>4. QED
    BY <2>2, <2>3
<1>3. \A s \in Asked(gate'.deferred) \cup Asked(replay'.rest) : Vouched(s)'
  BY <1>1 DEF ClosedInv
<1>4. ClosedSessionLosesGate'
  BY <1>2 DEF ClosedSessionLosesGate, Vouched
<1>5. (Asked(gate.deferred))' = Asked(gate'.deferred)
      /\ (Asked(replay.rest))' = Asked(replay'.rest)
  BY DEF Asked
<1>6. QED
  BY <1>3, <1>4, <1>5 DEF ClosedInv

\* A detached step asks for nothing.
LEMMA DetachedAsks ==
  ASSUME NEW g \in Gates, NEW h, Detached(g, h)
  PROVE  /\ Asked(h.deferred) \subseteq Asked(g.deferred)
         /\ \A s \in Sessions : h.session = s => g.session = s
<1>1. g.deferred \in Seq(Deferred)
  BY GateFields
<1>2. CASE h.deferred = << >>
  BY <1>2, AskedNone, GateAssumption DEF Detached
<1>3. CASE h.deferred = g.deferred
  BY <1>3, GateAssumption DEF Detached
<1>4. ASSUME NEW e \in Deferred, e.kind \notin {"start", "resume"},
             h.deferred = Append(g.deferred, e)
      PROVE  Asked(h.deferred) \subseteq Asked(g.deferred)
  BY <1>1, <1>4, AskedAppend
<1>5. QED
  BY <1>2, <1>3, <1>4, GateAssumption DEF Detached

\* Steps of the daemon and of controls that leave requests and replay alone.
LEMMA ClosedDetached ==
  ASSUME TypeInv, TypeInv', [Next]_vars, ClosedInv, UNCHANGED << inj, replay >>,
         Detached(gate, gate'),
         \A s \in Sessions : sessions'[s] = "closed" => sessions[s] = "closed"
  PROVE  ClosedInv'
<1>1. gate \in Gates
  BY DEF TypeInv, TypeOK
<1>2. /\ Asked(gate'.deferred) \subseteq Asked(gate.deferred)
      /\ \A s \in Sessions : gate'.session = s => gate.session = s
  BY <1>1, DetachedAsks
<1>3. \A r \in Injectors : inj'[r].pc \in Working =>
         inj'[r].session \in Sessions /\ sessions'[inj'[r].session] # "closed"
  BY DEF ClosedInv
<1>4. QED
  BY <1>2, <1>3, ClosedFrame

\* A request whose step leaves the gate on its session, or takes it off.
LEMMA ClosedMove ==
  ASSUME TypeInv, TypeInv', [Next]_vars, ClosedInv,
         NEW r \in Injectors, NEW a, NEW b, Moved(r, a, b), UNCHANGED sessions,
         b \in Working => \/ a \in Working /\ inj'[r].session = inj[r].session
                          \/ HasSession(inj'[r].session),
         \A s \in Sessions : gate'.session = s /\ gate.session # s =>
            sessions[s] # "closed" \/ Vouched(s),
         \A s \in Asked(gate'.deferred) \cup Asked(replay'.rest) :
            s \in Asked(gate.deferred) \cup Asked(replay.rest)
  PROVE  ClosedInv'
<1>1. \A s : Vouched(s) => Vouched(s)'
  BY VouchStays
<1>2. ASSUME NEW p \in Injectors, inj'[p].pc \in Working
      PROVE  inj'[p].session \in Sessions /\ sessions'[inj'[p].session] # "closed"
  <2>1. CASE p # r
    BY <1>2, <2>1 DEF Moved, ClosedInv
  <2>2. CASE p = r
    <3>1. b \in Working
      BY <1>2, <2>2 DEF Moved
    <3>2. CASE a \in Working /\ inj'[r].session = inj[r].session
      BY <2>2, <3>2 DEF Moved, ClosedInv
    <3>3. CASE HasSession(inj'[r].session)
      BY <2>2, <3>3 DEF HasSession
    <3>4. QED
      BY <3>1, <3>2, <3>3
  <2>3. QED
    BY <2>1, <2>2
<1>3. QED
  BY <1>1, <1>2, ClosedFrame

LEMMA ClosedInjector ==
  ASSUME TypeInv, TypeInv', [Next]_vars, ReplayInv, LockInv, ClosedInv,
         NEW r \in Injectors,
         \/ \E s \in Sessions, n \in 1..MaxChunks : Arrive(r, s, n)
         \/ InjectorStep(r)
  PROVE  ClosedInv'
<1>0. gate \in Gates /\ gate.deferred \in Seq(Deferred) /\ NoSession \notin Sessions
  BY GateFields, GateAssumption DEF TypeInv, TypeOK
<1>1. ASSUME NEW a, NEW b, GoInj(r, a, b), OnlyInj, b \in Working => a \in Working
      PROVE  ClosedInv'
  <2>1. Moved(r, a, b) /\ (b # "done" => inj'[r].session = inj[r].session)
    BY <1>1, GoInjMoves
  <2>2. UNCHANGED << sessions, gate, replay >> /\ "done" \notin Working
    BY <1>1 DEF OnlyInj, Working, Inside
  <2>3. QED
    BY <1>1, <2>1, <2>2, ClosedMove
<1>2. ASSUME NEW s \in Sessions, NEW n \in 1..MaxChunks, Arrive(r, s, n)
      PROVE  ClosedInv'
  <2>1. Moved(r, "idle", "capture") /\ UNCHANGED << sessions, replay >>
        /\ gate' = Watchdog(gate)
    BY <1>2, DataMoves DEF Arrive
  <2>2. Detached(gate, gate')
    BY <1>0, <2>1, PollInterrupting DEF Interrupting
  <2>3. /\ Asked(gate'.deferred) \subseteq Asked(gate.deferred)
        /\ \A q \in Sessions : gate'.session = q => gate.session = q
    BY <1>0, <2>2, DetachedAsks
  <2>4. QED
    BY <2>1, <2>3, ClosedMove DEF Working, Inside
<1>3. CASE Capture(r)
  <2>1. Moved(r, "capture", "keyboard") /\ UNCHANGED << sessions, gate, replay >>
    BY <1>3, DataMoves DEF Capture, OnlyInj
  <2>2. QED
    BY <2>1, ClosedMove DEF Working, Inside
<1>4. CASE KeyboardCheck(r)
  BY <1>1, <1>4 DEF KeyboardCheck, Working, Inside
<1>5. CASE Precheck(r)
  BY <1>1, <1>5 DEF Precheck, Working, Inside
<1>6. CASE StaleCheck(r)
  BY <1>1, <1>6 DEF StaleCheck, Working, Inside
<1>7. CASE MarkVerb(r)
  BY <1>1, <1>7 DEF MarkVerb, Working, Inside
<1>8. CASE Acquire(r)
  <2>1. PICK b \in {"check", "unlock"} :
          /\ Moved(r, "wait", b) /\ inj'[r].session = inj[r].session
          /\ b = "check" => HasSession(inj[r].session)
    BY <1>8, GoInjMoves DEF Acquire
  <2>2. UNCHANGED << sessions, gate, replay >>
    BY <1>8 DEF Acquire
  <2>3. QED
    BY <2>1, <2>2, ClosedMove DEF Working, Inside
<1>9. CASE PostCheck(r)
  BY <1>1, <1>9 DEF PostCheck, Working, Inside
<1>10. CASE StretchEnded(r)
  BY <1>1, <1>10 DEF StretchEnded, Working, Inside
<1>11. CASE Arm(r) \/ Record(r)
  <2>1. PICK a \in {"arm", "record"}, b \in {"generation", "unwind", "unlock"} :
          Moved(r, a, b) /\ inj'[r].session = inj[r].session
    BY <1>11, GoInjMoves DEF Arm, Record
  <2>2. UNCHANGED << sessions, replay >>
    BY <1>11 DEF Arm, Record
  <2> PICK s : s = inj[r].session
    OBVIOUS
  <2>3. gate' = gate \/ gate' = BeginInject(gate, s) \/ gate' = StoreDrive(gate, s)
    BY <1>11 DEF Arm, Record
  <2>4. gate'.deferred = gate.deferred /\ gate'.session \in {gate.session, s}
    <3>1. CASE gate' = BeginInject(gate, s)
      BY <1>0, <3>1 DEF BeginInject, Publish, Gates
    <3>2. CASE gate' = StoreDrive(gate, s)
      BY <1>0, <3>2, StoreFields
    <3>3. QED
      BY <2>3, <3>1, <3>2
  <2>5. s \in Sessions /\ sessions[s] # "closed"
    BY <2>1 DEF ClosedInv, Moved, Working, Inside
  <2>6. QED
    BY <2>1, <2>2, <2>4, <2>5, ClosedMove DEF Working, Inside
<1>12. CASE ReadGeneration(r)
  <2>1. /\ Moved(r, "generation", "loop") /\ inj'[r].session = inj[r].session
        /\ UNCHANGED << sessions, gate, replay >>
    BY <1>12, DataMoves DEF ReadGeneration, OnlyInj
  <2>2. QED
    BY <2>1, ClosedMove DEF Working, Inside
<1>13. CASE ChunkCheck(r)
  BY <1>1, <1>13 DEF ChunkCheck, Working, Inside
<1>14. CASE SendChunk(r)
  <2>1. PICK b \in {"loop", "unwind"} :
          Moved(r, "send", b) /\ inj'[r].session = inj[r].session
    BY <1>14, DataMoves
  <2>2. UNCHANGED << sessions, gate, replay >>
    BY <1>14 DEF SendChunk
  <2>3. QED
    BY <2>1, <2>2, ClosedMove DEF Working, Inside
<1>15. CASE BeginUnwind(r)
  <2>1. /\ Moved(r, "unwind", "replay") /\ inj'[r].session = inj[r].session
        /\ UNCHANGED sessions /\ gate' = SettleInject(gate)
        /\ replay'.rest = gate.deferred
    BY <1>15, GoInjMoves DEF BeginUnwind
  <2>2. gate'.session = gate.session /\ gate'.deferred = << >>
    BY <1>0, <2>1, SettleFields
  <2>3. QED
    BY <2>1, <2>2, AskedNone, ClosedMove DEF Working, Inside
<1>16. CASE ReplayOne(r)
  <2>1. /\ gate.injecting = FALSE /\ gate.deferred = << >>
        /\ replay.rest \in Seq(Deferred) /\ replay.rest # << >>
        /\ replay.fresh \in BOOLEAN /\ Head(replay.rest) \in Deferred
        /\ gate' = ApplyDeferred(gate, Head(replay.rest), replay.fresh)
        /\ replay'.rest = Tail(replay.rest)
    BY <1>16, ReplayStep
  <2> PICK e \in Deferred : e = Head(replay.rest)
    BY <2>1
  <2>2. Sound(gate, gate') /\ SessionKept(gate, gate', e)
    BY <1>0, <2>1, ReplayedEntry
  <2>3. gate'.deferred = << >>
    BY <2>1, <2>2 DEF Sound
  <2>4. /\ Asked(replay'.rest) \subseteq Asked(replay.rest)
        /\ e.kind \in {"start", "resume"} /\ e.session \in Sessions
             => e.session \in Asked(replay.rest)
    BY <2>1, AskedTail
  <2>5. \A s \in Sessions : gate'.session = s /\ gate.session # s => Vouched(s)'
    BY <1>0, <2>2, <2>4, VouchStays DEF ClosedInv, SessionKept
  <2>6. UNCHANGED << inj, sessions >>
    BY <1>16 DEF ReplayOne
  <2>7. QED
    BY <2>3, <2>4, <2>5, <2>6, AskedNone, ClosedFrame DEF ClosedInv
<1>17. CASE EndInject(r)
  <2>1. /\ Moved(r, "replay", "unlock") /\ UNCHANGED sessions
        /\ gate' = Publish(gate) /\ replay' = NoReplay
    BY <1>17, GoInjMoves DEF EndInject
  <2>2. gate'.session = gate.session /\ gate'.deferred = gate.deferred
    BY <1>0, <2>1 DEF Publish, Gates
  <2>3. replay'.rest = << >>
    BY <2>1 DEF NoReplay
  <2>4. QED
    BY <2>1, <2>2, <2>3, AskedNone, ClosedMove DEF Working, Inside
<1>18. CASE Unlock(r)
  <2>1. Moved(r, "unlock", "done") /\ UNCHANGED << sessions, gate, replay >>
    BY <1>18, GoInjMoves DEF Unlock
  <2>2. QED
    BY <2>1, ClosedMove DEF Working, Inside
<1>19. QED
  BY <1>2, <1>3, <1>4, <1>5, <1>6, <1>7, <1>8, <1>9, <1>10, <1>11, <1>12, <1>13, <1>14,
     <1>15, <1>16, <1>17, <1>18 DEF InjectorStep, Inject

LEMMA ClosedController ==
  ASSUME TypeInv, TypeInv', [Next]_vars, ReplayInv, ClosedInv, NEW c \in Controllers,
         ControlArrive(c) \/ ControlStep(c)
  PROVE  ClosedInv'
<1>0. gate \in Gates /\ gate.deferred \in Seq(Deferred) /\ NoSession \notin Sessions
  BY GateFields, GateAssumption DEF TypeInv, TypeOK
<1>1. UNCHANGED << inj, replay, sessions >>
  BY DEF ControlArrive, ControlStep, ControlPause, ControlStop, ControlKeyboardCheck,
         ControlLive, ControlSelect, ControlApply, OnlyCtl
<1>2. CASE gate' = gate \/ gate' = Pause(gate) \/ gate' = Stop(gate)
  <2>1. Detached(gate, gate')
    BY <1>0, <1>2, SameInterrupting, PauseInterrupting, StopInterrupting DEF Interrupting
  <2>2. QED
    BY <1>1, <2>1, ClosedDetached
<1>3. CASE ControlApply(c) /\ gate' # gate
  <2> PICK action \in {"start", "resume"}, s \in MaybeSession, companion \in BOOLEAN :
        /\ action = ctl[c].action /\ s = ctl[c].session /\ companion = ctl[c].companion
    BY <1>3, ApplyStep
  <2>1. /\ Admits(gate, action, s, companion)
        /\ gate' = Apply(gate, action, s, companion)
    BY <1>3, ApplyStep
  <2>2. /\ gate'.session \in {gate.session, NoSession, s}
        /\ \/ gate'.deferred \in {gate.deferred, << >>}
           \/ gate'.deferred = Append(gate.deferred, ReentryEntry(action, s, companion))
    BY <1>0, <2>1, AdmittedControl DEF ReplayInv
  <2>3. Vouched(s)'
    <3>1. /\ ctl \in [Controllers -> ControlRequests]
          /\ ctl' = [ctl EXCEPT ![c] = ControllerAt("done", ctl[c].session)]
      BY <1>3 DEF ControlApply, EndCtl, TypeInv, TypeOK
    <3>2. ctl'[c].session = s /\ ctl'[c].pc = "done"
      BY <3>1 DEF ControllerAt
    <3>3. QED
      BY <3>2 DEF Vouched
  <2>4. /\ ReentryEntry(action, s, companion) \in Deferred
        /\ ReentryEntry(action, s, companion).session = s
    BY DEF ReentryEntry, Entry, Deferred, Kinds, MaybeSession
  <2>5. \A q \in Asked(gate'.deferred) : q \in Asked(gate.deferred) \/ q = s
    <3>1. CASE gate'.deferred \in {gate.deferred, << >>}
      BY <3>1, AskedNone
    <3> PICK e \in Deferred : e = ReentryEntry(action, s, companion)
      BY <2>4
    <3>2. CASE gate'.deferred = Append(gate.deferred, e)
      BY <1>0, <2>4, <3>2, AskedAppend
    <3>3. QED
      BY <2>2, <3>1, <3>2
  <2>6. QED
    BY <1>0, <1>1, <2>2, <2>3, <2>5, ClosedFrame DEF ClosedInv
<1>4. \/ gate' = gate \/ gate' = Pause(gate) \/ gate' = Stop(gate)
      \/ ControlApply(c)
  BY DEF ControlArrive, ControlStep, ControlPause, ControlStop, ControlKeyboardCheck,
         ControlLive, ControlSelect, OnlyCtl
<1>5. QED
  BY <1>2, <1>3, <1>4

LEMMA ClosedDaemon ==
  ASSUME TypeInv, TypeInv', [Next]_vars, LockInv, FlightInv, ClosedInv,
         \/ CompanionPoll \/ WatchdogTick \/ KeyboardReport \/ Tick
         \/ \E s \in Sessions : OpenSession(s) \/ CloseRemove(s) \/ CloseStep(s)
         \/ StopCancel \/ StoppingStep
  PROVE  ClosedInv'
<1>0. /\ gate \in Gates /\ sessions \in [Sessions -> SessionStates]
      /\ NoOne \notin Injectors /\ Detached(gate, gate)
  BY SameInterrupting, AutomationAssumption DEF TypeInv, TypeOK, Interrupting
<1>1. UNCHANGED << inj, replay >>
  BY DEF CompanionPoll, WatchdogTick, KeyboardReport, Tick, OnlyGate, OpenSession,
         CloseRemove, CloseStep, CloseNote, CloseFinish, OnlySessions, StopCancel,
         StoppingStep, StopWait, StopClear, StopReset
<1>2. CASE CompanionPoll \/ WatchdogTick \/ KeyboardReport \/ Tick
  <2>1. Detached(gate, gate') /\ UNCHANGED sessions
    BY <1>0, <1>2, PollInterrupting, KeyboardInterrupting, TickInterrupting
    DEF CompanionPoll, WatchdogTick, KeyboardReport, Tick, OnlyGate, Interrupting
  <2>2. QED
    BY <1>1, <2>1, ClosedDetached
<1>3. ASSUME NEW s \in Sessions, OpenSession(s) \/ CloseRemove(s) PROVE ClosedInv'
  <2>1. gate' = gate /\ \E v \in {"open", "removed"} : sessions' = [sessions EXCEPT ![s] = v]
    BY <1>3 DEF OpenSession, CloseRemove
  <2>2. \A q \in Sessions : sessions'[q] = "closed" => sessions[q] = "closed"
    BY <1>0, <2>1
  <2>3. QED
    BY <1>0, <1>1, <2>1, <2>2, ClosedDetached
<1>4. ASSUME NEW s \in Sessions, CloseNote(s) PROVE ClosedInv'
  <2> DEFINE h == gate'
  <2>1. h = NoteSessionClosed(gate, s)
    BY <1>4 DEF CloseNote
  <2>2. sessions' = [sessions EXCEPT ![s] = "noted"]
    BY <1>4 DEF CloseNote
  <2> HIDE DEF h
  <2>3. Detached(gate, h)
    BY <1>0, <2>1, CloseInterrupting DEF Interrupting
  <2>4. \A q \in Sessions : sessions'[q] = "closed" => sessions[q] = "closed"
    BY <1>0, <2>2
  <2>5. Detached(gate, gate')
    BY <2>3 DEF h
  <2>6. QED
    BY <1>1, <2>4, <2>5, ClosedDetached
<1>5. ASSUME NEW s \in Sessions, CloseFinish(s) PROVE ClosedInv'
  <2> DEFINE h == gate'
  <2>1. h = FinishClosedSession(gate, s)
    BY <1>5 DEF CloseFinish
  <2>2. sessions' = [sessions EXCEPT ![s] = "closed"] /\ injection = NoOne
    BY <1>5 DEF CloseFinish
  <2> HIDE DEF h
  <2>3. ~gate.injecting
    BY <1>0, <2>2 DEF FlightInv, QueueOnlyInFlight, Armed
  <2>4. Detached(gate, h) /\ h.session # s
    BY <1>0, <2>1, <2>3, CloseInterrupting DEF Interrupting
  <2>5. /\ Asked(gate'.deferred) \subseteq Asked(gate.deferred)
        /\ \A q \in Sessions : gate'.session = q => gate.session = q
        /\ gate'.session # s
    BY <1>0, <2>4, DetachedAsks DEF h
  <2>6. \A q \in Sessions : sessions'[q] = "closed" => sessions[q] = "closed" \/ q = s
    BY <1>0, <2>2
  <2>7. \A r \in Injectors : inj'[r].pc \notin Working
    BY <1>0, <1>1, <2>2 DEF LockInv, Working
  <2>8. QED
    BY <1>1, <2>5, <2>6, <2>7, ClosedFrame
<1>6. CASE StopCancel
  <2>1. Detached(gate, gate') /\ UNCHANGED sessions
    BY <1>0, <1>6, StopInterrupting DEF StopCancel, Interrupting
  <2>2. QED
    BY <1>1, <2>1, ClosedDetached
<1>7. CASE StopWait
  BY <1>0, <1>1, <1>7, ClosedDetached DEF StopWait
<1>8. CASE StopClear
  <2>1. \A q \in Sessions : sessions'[q] = "closed" => sessions[q] = "closed"
    BY <1>8 DEF StopClear
  <2>2. QED
    BY <1>0, <1>1, <1>8, <2>1, ClosedDetached DEF StopClear
<1>9. CASE StopReset
  <2>1. gate' = Reset(gate) /\ UNCHANGED sessions
    BY <1>9 DEF StopReset
  <2>2. gate'.session = NoSession /\ gate'.deferred = << >>
    BY <1>0, <2>1, ResetFields
  <2>3. QED
    BY <1>1, <2>1, <2>2, ClosedDetached DEF Detached
<1>10. QED
  BY <1>2, <1>3, <1>4, <1>5, <1>6, <1>7, <1>8, <1>9 DEF CloseStep, StoppingStep

LEMMA ClosedInit == Init => ClosedInv
<1> SUFFICES ASSUME Init PROVE ClosedInv
  OBVIOUS
<1>1. \A r \in Injectors : inj[r].pc \notin Working
  BY DEF Init, InjectorAt, Working, Inside
<1>2. gate.deferred = << >> /\ replay.rest = << >> /\ gate.session = NoSession
  BY DEF Init, InitialGate, NoReplay
<1>3. \A s \in Sessions : gate.session # s
  BY <1>2, GateAssumption
<1>4. QED
  BY <1>1, <1>2, <1>3, AskedNone DEF ClosedInv, ClosedSessionLosesGate

LEMMA ClosedStep ==
  TypeInv /\ TypeInv' /\ ReplayInv /\ LockInv /\ FlightInv /\ ClosedInv /\ [Next]_vars
    => ClosedInv'
<1> SUFFICES ASSUME TypeInv, TypeInv', ReplayInv, LockInv, FlightInv, ClosedInv, [Next]_vars
             PROVE  ClosedInv'
  OBVIOUS
<1>1. CASE UNCHANGED vars
  <2>1. gate \in Gates /\ UNCHANGED << gate, inj, replay, sessions >>
    BY <1>1 DEF vars, TypeInv, TypeOK
  <2>2. Detached(gate, gate')
    BY <2>1, SameInterrupting DEF Interrupting
  <2>3. QED
    BY <2>1, <2>2, ClosedDetached
<1>2. CASE Next
  BY <1>2, ClosedInjector, ClosedController, ClosedDaemon DEF Next
<1>3. QED
  BY <1>1, <1>2

\* Once a session is closed no call puts the gate back on it; only a start or resume
\* that picked it beforehand does (Gate::note_session_closed, finish_closed_session;
\* api.rs close_session).
THEOREM ClosedLosesGate == Spec => []ClosedSessionLosesGate
<1>1. ClosedInv => ClosedSessionLosesGate
  BY DEF ClosedInv
<1>2. QED
  BY <1>1, ClosedInit, ClosedStep, TypesAlways, ReplayAlways, LockAlways, FlightAlways, PTL
  DEF Spec
=============================================================================
