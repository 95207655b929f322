-------------------------------- MODULE Portal --------------------------------
(***************************************************************************)
(* A view of a Wayland desktop (wayland.rs): one call of the screenshot    *)
(* portal, its answer as a signal on a path of this call's own, and a file *)
(* the portal leaves for the visor to read and remove.  Views overlap,     *)
(* each with a connection of its own.                                      *)
(*                                                                         *)
(* A screen is a number that grows as the desktop changes; a path is the   *)
(* view whose token it carries.  The uri and what the file holds are kinds.*)
(* The decoding of a uri is left out, and so is WaylandInput, which        *)
(* nothing calls.                                                          *)
(***************************************************************************)
EXTENDS Integers, FiniteSets

CONSTANTS Views,      \* calls of capture
          MaxScreens  \* bound: how often the screen changes

VARIABLES
  screen, \* what is on the desktop
  view,   \* the views: how far, the screen they began with, what they were sent
  portal, \* what the portal does about each
  file    \* the files it wrote: the screen on them and their kind, or NoFile

portalVars == << screen, view, portal, file >>

NoFile == [shot |-> 0, kind |-> "none"]
Unasked == [pc |-> "connect", began |-> 0, subscribed |-> FALSE, signal |-> "none", frame |-> 0]
Kinds == {"png", "other", "unreadable"}
Uris == {"local", "remote", "missing"}
Failed(v) == view' = [view EXCEPT ![v].pc = "failed", ![v].subscribed = FALSE]
StepsTo(v, pc) == view' = [view EXCEPT ![v].pc = pc]

PortalInit ==
  /\ screen = 1 /\ view = [v \in Views |-> Unasked]
  /\ portal = [v \in Views |-> "idle"] /\ file = [v \in Views |-> NoFile]

IsIn(v, pc) == view[v].pc = pc

-----------------------------------------------------------------------------
(* The visor.                                                              *)

ConnectsToBus(v) ==
  /\ IsIn(v, "connect")
  /\ \/ view' = [view EXCEPT ![v].pc = "subscribe", ![v].began = screen]
     \/ Failed(v)
  /\ UNCHANGED << screen, portal, file >>

SkipsSubscription(v) ==
  /\ IsIn(v, "subscribe") /\ StepsTo(v, "call")
  /\ UNCHANGED << screen, portal, file >>

\* receive_signal, on the path the answer will come on, before anything is asked.
Subscribes(v) ==
  /\ IsIn(v, "subscribe")
  /\ view' = [view EXCEPT ![v].pc = "call", ![v].subscribed = TRUE]
  /\ UNCHANGED << screen, portal, file >>

\* portal.call: the answer may be given before the call returns.
AsksPortal(v) ==
  /\ IsIn(v, "call") /\ StepsTo(v, "called")
  /\ portal' = [portal EXCEPT ![v] = "asked"]
  /\ UNCHANGED << screen, file >>

\* The call returns the path it will answer on, an error, or the path of an old portal's
\* own, on which nobody listens; then the answer is of no use.
CallReturns(v) ==
  /\ IsIn(v, "called")
  /\ StepsTo(v, "wait") \/ Failed(v)
  /\ UNCHANGED << screen, portal, file >>

\* The Response: a code, and on success a uri.
Waits(v) ==
  /\ IsIn(v, "wait") /\ view[v].signal # "none"
  /\ IF view[v].signal = "local" THEN StepsTo(v, "read") ELSE Failed(v)
  /\ UNCHANGED << screen, portal, file >>

\* read_local_uri: read, and then remove; a file that cannot be removed is not used.
ReadsFile(v) ==
  /\ IsIn(v, "read")
  /\ IF file[v].kind = "unreadable" THEN Failed(v)
     ELSE view' = [view EXCEPT ![v].pc = "remove", ![v].frame = file[v].shot]
  /\ UNCHANGED << screen, portal, file >>

Removes(v) ==
  /\ IsIn(v, "remove")
  /\ \/ /\ file' = [file EXCEPT ![v] = NoFile]
        /\ IF file[v].kind = "png" THEN StepsTo(v, "done") ELSE Failed(v)
     \/ Failed(v) /\ UNCHANGED file
  /\ UNCHANGED << screen, portal >>

-----------------------------------------------------------------------------
(* The desktop and its portal.                                             *)

ScreenChanges ==
  /\ screen < MaxScreens /\ screen' = screen + 1
  /\ UNCHANGED << view, portal, file >>

\* Allowed: the screen is written to a file of its own.  A signal nobody subscribed to
\* is gone.
Answers(v) ==
  /\ portal[v] = "asked" /\ portal' = [portal EXCEPT ![v] = "answered"]
  /\ \E answer \in Uris \cup {"denied"} :
       /\ view' = [view EXCEPT ![v].signal = IF view[v].subscribed THEN answer ELSE @]
       /\ IF answer = "local"
          THEN \E kind \in Kinds : file' = [file EXCEPT ![v] = [shot |-> screen, kind |-> kind]]
          ELSE UNCHANGED file
  /\ UNCHANGED screen

\* The bus or the portal ends: no signal comes, and next() says so.
Hangs(v) ==
  /\ portal[v] = "asked" /\ portal' = [portal EXCEPT ![v] = "gone"]
  /\ view' = [view EXCEPT ![v].signal = "denied"]
  /\ UNCHANGED << screen, file >>

PortalNext ==
  \/ \E v \in Views :
       \/ ConnectsToBus(v) \/ Subscribes(v) \/ AsksPortal(v) \/ CallReturns(v) \/ Waits(v) \/ ReadsFile(v)
       \/ Removes(v) \/ Answers(v) \/ Hangs(v)
  \/ ScreenChanges

PortalSpec == PortalInit /\ [][PortalNext]_portalVars

-----------------------------------------------------------------------------
\* Every variable keeps its type (capture, portal_roundtrip).
PortalTypeOK ==
  /\ screen \in 1..MaxScreens
  /\ \A v \in Views :
       /\ view[v].pc \in {"connect", "subscribe", "call", "called", "wait", "read", "remove",
                          "done", "failed"}
       /\ portal[v] \in {"idle", "asked", "answered", "gone"}

\* A view is answered by its own screenshot or fails: it never waits for an answer that
\* was given already; its frame is a picture made after it began, whatever other views did
\* meanwhile; and the file is gone, so that one is left only by a view that failed.
ViewsAreOfNow ==
  \A v \in Views :
    /\ IsIn(v, "wait") /\ portal[v] \in {"answered", "gone"} => view[v].signal # "none"
    /\ IsIn(v, "done") => /\ view[v].frame \in view[v].began..screen
                          /\ file[v] = NoFile
    /\ file[v] # NoFile => ~IsIn(v, "done")
=============================================================================
