--------------------------- MODULE Configuration ---------------------------
(***************************************************************************)
(* The MCP configuration files, their editors and what a profile resolves  *)
(* to (src/mcp/profiles.rs, src/mcp/servers.rs, src/mcp/config.rs; the     *)
(* dialogs of companion/src/mcp_profiles.rs and mcp_servers.rs).  A dialog *)
(* is shown a file and its revision, asks the user for a while, and sends  *)
(* one edit back; other dialogs, and text editors that know no lock, write *)
(* meanwhile.                                                              *)
(*                                                                         *)
(* A file is its parsed content and a revision is that content, as the     *)
(* digest is.  What a server runs is a model value; validation of names    *)
(* and fields, the size limits and the links of a file are left out.  The  *)
(* trust an edit blocks before it writes is module Trust's; here the step  *)
(* is where the file may change under the editor.                          *)
(***************************************************************************)
EXTENDS Integers, FiniteSets

CONSTANTS Dialogs,        \* editors in the companion
          ProfileNames, ServerNames,
          Commands,       \* what a server may run
          Own,            \* what an override of a profile makes it run
          Project,        \* the file HYPERMESH_MCP_PROJECT selects
          MostProfiles,   \* the graphical editor's limit
          MaxEdits,       \* edits that reach the visor
          MaxOutsiders    \* writes that take no lock

Gateway == "docker-gateway"
Specs == [run : Commands \cup {Own, Gateway}, on : BOOLEAN]
ServerFiles == UNION {[S -> Specs] : S \in SUBSET (ServerNames \cup {Gateway})}
Profiles == [servers : SUBSET ServerNames, gateway : BOOLEAN, own : SUBSET ServerNames]
ProfileFiles ==
  [active : ProfileNames, profiles : UNION {[S -> Profiles] : S \in SUBSET ProfileNames}]

ASSUME ConfigurationAssumption ==
  /\ Project \in ServerFiles
  /\ MostProfiles \in Nat \ {0} /\ {MaxEdits, MaxOutsiders} \subseteq Nat

VARIABLES
  profiles,  \* mcp-profiles.json
  servers,   \* mcp.json
  dialog,    \* what each dialog was shown and how far its edit is
  locked,    \* .mcp-profiles.lock: the dialog whose edit holds it, at most one
  edits, outsiders, \* how many there were
  stray      \* history: a text editor has written the profiles

ConfigurationVars == << profiles, servers, dialog, locked, edits, outsiders, stray >>

NoProfiles == [p \in {} |-> {}]
NoDialog == [pc |-> "closed", file |-> "profiles", shown |-> {}, read |-> {},
             others |-> {}, next |-> {}, raced |-> FALSE]

\* Neither file is there, or the user wrote one server and gave it an override.
ConfigurationInit ==
  /\ dialog = [d \in Dialogs |-> NoDialog] /\ locked = {}
  /\ edits = 0 /\ outsiders = 0 /\ stray = FALSE
  /\ \E p \in ProfileNames, s \in ServerNames, c \in Commands :
       \/ /\ profiles = [active |-> p, profiles |-> NoProfiles]
          /\ servers = [n \in {} |-> {}]
       \/ /\ profiles = [active |-> p, profiles |->
                           [n \in {p} |-> [servers |-> {s}, gateway |-> FALSE, own |-> {s}]]]
          /\ servers = [n \in {s} |-> [run |-> c, on |-> TRUE]]

-----------------------------------------------------------------------------
(* resolve.                                                                *)

Winner(n) == IF n \in DOMAIN servers THEN servers[n] ELSE Project[n]

Known == DOMAIN servers \cup DOMAIN Project
GatewaySpec == [run |-> Gateway, on |-> TRUE]

Members(p) == IF p.gateway THEN {Gateway} ELSE p.servers

\* apply_config.
Overridden(p, n, spec) == IF n \in p.own THEN [spec EXCEPT !.run = Own] ELSE spec

Resolves(p) == p.gateway \/ p.servers \subseteq Known

\* The servers a session of profile p attaches.
Resolved(p) ==
  LET spec(n) == Overridden(p, n, IF n \in Known THEN Winner(n) ELSE GatewaySpec)
  IN  {[name |-> n, spec |-> spec(n)] : n \in {m \in Members(p) : spec(m).on}}

\* What a review shows of every candidate, and what becomes of it.
Candidates(p) ==
  {[name |-> n, spec |-> servers[n], shadowed |-> FALSE] : n \in DOMAIN servers}
    \cup {[name |-> n, spec |-> Project[n], shadowed |-> n \in DOMAIN servers] :
            n \in DOMAIN Project}
    \cup {[name |-> n, spec |-> GatewaySpec, shadowed |-> FALSE] :
            n \in IF p.gateway THEN {Gateway} \ Known ELSE {}}

ReviewedSpec(p, c) ==
  IF ~c.shadowed /\ c.name \in Members(p) THEN Overridden(p, c.name, c.spec) ELSE c.spec

Status(p, c) ==
  CASE c.shadowed -> "shadowed"
    [] ~c.shadowed /\ c.name \notin Members(p) -> "not_in_profile"
    [] ~c.shadowed /\ c.name \in Members(p) ->
         IF ReviewedSpec(p, c).on THEN "selected" ELSE "disabled"

-----------------------------------------------------------------------------
(* One edit of a file as the user confirmed it, made of the shown file.    *)

With(f, n, v) == [m \in DOMAIN f \cup {n} |-> IF m = n THEN v ELSE f[m]]
Without(f, n) == [m \in DOMAIN f \ {n} |-> f[m]]

\* Save: the first profile becomes the active one, overrides stay as they are.
Saved(doc, n, members, gateway, create) ==
  LET known == DOMAIN doc.profiles
      own == IF n \in known THEN doc.profiles[n].own ELSE {}
      next == With(doc.profiles, n, [servers |-> members, gateway |-> gateway, own |-> own])
  IN  IF create = (n \in known) \/ (create /\ Cardinality(known) >= MostProfiles) THEN {}
      ELSE {[active |-> IF DOMAIN next = {n} THEN n ELSE doc.active, profiles |-> next]}

\* Delete: not the active one.
Deleted(doc, n) ==
  IF n = doc.active \/ n \notin DOMAIN doc.profiles THEN {}
  ELSE {[doc EXCEPT !.profiles = Without(doc.profiles, n)]}

Activated(doc, n) == IF n \in DOMAIN doc.profiles THEN {[doc EXCEPT !.active = n]} ELSE {}

\* What an edit may turn the profiles, or the servers, into.
ProfileEdits(doc) ==
  UNION {Deleted(doc, n) \cup Activated(doc, n)
           \cup UNION {Saved(doc, n, S, gateway, create) :
                         S \in SUBSET ServerNames, gateway, create \in BOOLEAN}
         : n \in ProfileNames}

ServerEdits(doc) ==
  {With(doc, n, spec) : n \in ServerNames, spec \in [run : Commands, on : BOOLEAN]}
    \cup {Without(doc, n) : n \in DOMAIN doc \cap ServerNames}

-----------------------------------------------------------------------------
(* The dialogs.                                                            *)

Content(file) == IF file = "profiles" THEN {profiles} ELSE {servers}

\* list: the file and its revision.
Opens(d, file) ==
  /\ dialog[d].pc = "closed" /\ edits < MaxEdits
  /\ dialog' = [dialog EXCEPT ![d] =
       [NoDialog EXCEPT !.pc = "asks", !.file = file, !.shown = Content(file)]]
  /\ UNCHANGED << profiles, servers, locked, edits, outsiders, stray >>

\* The revision the dialog names is that of the file as it is read now.
IsCurrent(d) == dialog[d].shown = Content(dialog[d].file)

\* edit up to the trust store: the lock is there or the edit is refused, the
\* file is read, its revision compared, and the new content made.
Edits(d) ==
  /\ dialog[d].pc = "asks" /\ locked = {} /\ IsCurrent(d)
  /\ edits < MaxEdits /\ edits' = edits + 1 /\ locked' = {d}
  /\ \E next \in IF dialog[d].file = "profiles" THEN ProfileEdits(profiles)
                 ELSE ServerEdits(servers) :
       dialog' = [dialog EXCEPT ![d].pc = "blocks", ![d].next = {next},
                                ![d].read = Content(dialog[d].file),
                                ![d].others = {profiles}]
  /\ UNCHANGED << profiles, servers, outsiders, stray >>

\* Refused, or the user cancels: the dialog is shown the file again, if at all.
Gives(d) ==
  /\ dialog[d].pc = "asks" /\ dialog' = [dialog EXCEPT ![d] = NoDialog]
  /\ UNCHANGED << profiles, servers, locked, edits, outsiders, stray >>

WrittenAnyway(d) == TRUE

\* After the trust store has blocked what the edit affects, the file has to be
\* what was read; an edit of the servers also compares the profiles.
IsUnchanged(d) ==
  /\ dialog[d].read = Content(dialog[d].file)
  /\ dialog[d].file = "servers" => dialog[d].others = {profiles}

Rechecks(d) ==
  /\ dialog[d].pc = "blocks" /\ IsUnchanged(d)
  /\ dialog' = [dialog EXCEPT ![d].pc = "writes"]
  /\ UNCHANGED << profiles, servers, locked, edits, outsiders, stray >>

\* The trust store or the comparison refused, or writing failed.
EditFails(d) ==
  /\ dialog[d].pc \in {"blocks", "writes"} /\ locked' = {}
  /\ dialog' = [dialog EXCEPT ![d] = NoDialog]
  /\ UNCHANGED << profiles, servers, edits, outsiders, stray >>

\* atomic_write: the rename replaces the file.  Syncing the directory may fail
\* after it, and the dialog is then told of an error.
Writes(d) ==
  /\ dialog[d].pc = "writes" /\ locked' = {}
  /\ \E next \in dialog[d].next :
       IF dialog[d].file = "profiles"
       THEN profiles' = next /\ UNCHANGED servers
       ELSE servers' = next /\ UNCHANGED profiles
  /\ dialog' = [dialog EXCEPT ![d] = NoDialog]
  /\ UNCHANGED << edits, outsiders, stray >>

\* A text editor.  One that writes between the comparison and the rename races.
WritesOutside ==
  /\ outsiders < MaxOutsiders /\ outsiders' = outsiders + 1
  /\ \/ /\ \E next \in ProfileEdits(profiles) : profiles' = next
        /\ stray' = TRUE /\ UNCHANGED servers
     \/ /\ \E next \in ServerEdits(servers) : servers' = next
        /\ UNCHANGED << profiles, stray >>
  /\ dialog' = [d \in Dialogs |-> [dialog[d] EXCEPT !.raced = @ \/ dialog[d].pc = "writes"]]
  /\ UNCHANGED << locked, edits >>

ConfigurationNext ==
  \/ WritesOutside
  \/ \E d \in Dialogs :
       \/ \E file \in {"profiles", "servers"} : Opens(d, file)
       \/ Edits(d) \/ Gives(d) \/ Rechecks(d) \/ EditFails(d) \/ Writes(d)

ConfigurationSpec == ConfigurationInit /\ [][ConfigurationNext]_ConfigurationVars

-----------------------------------------------------------------------------
(* Properties.                                                             *)

\* Every variable keeps its type (config.rs, profiles.rs), and only one edit
\* is past its lock.
ConfigurationTypeOK ==
  /\ profiles \in ProfileFiles /\ servers \in ServerFiles
  /\ edits \in 0..MaxEdits /\ outsiders \in 0..MaxOutsiders /\ stray \in BOOLEAN
  /\ \A d \in Dialogs :
       /\ dialog[d].pc \in {"closed", "asks", "blocks", "writes"}
       /\ dialog[d].pc \in {"blocks", "writes"} <=> d \in locked

\* A dialog's edit replaces only the content the user was shown when deciding
\* it, so no edit of another dialog or of a text editor is undone unseen
\* (edit, config_lock).  Only a text editor that writes between the last
\* comparison and the rename escapes it.
NoEditIsLost ==
  \A d \in Dialogs :
    dialog[d].pc = "writes" /\ ~dialog[d].raced =>
      /\ dialog[d].shown = Content(dialog[d].file)
      /\ dialog[d].file = "servers" => dialog[d].others = {profiles}

\* However the dialogs race, the active profile is one that exists, as long as
\* there is one and no text editor wrote the file (edit).
ActiveProfileExists ==
  stray \/ DOMAIN profiles.profiles = {} \/ profiles.active \in DOMAIN profiles.profiles

\* However dialogs and text editors race, no edit is lost and none leaves the
\* profiles without the active one.
EditsAreSound == NoEditIsLost /\ ActiveProfileExists

\* What a review calls selected is exactly what a session attaches, whichever
\* file it is from and whatever overrides it (resolve).
ReviewShowsWhatRuns ==
  \A n \in DOMAIN profiles.profiles :
    LET p == profiles.profiles[n]
        selected == {c \in Candidates(p) : Status(p, c) = "selected"}
    IN  Resolves(p) =>
          Resolved(p) = {[name |-> c.name, spec |-> ReviewedSpec(p, c)] : c \in selected}

\* The files hold what the user edited last, and run what a review of them shows.
ConfigurationIsSound == EditsAreSound /\ ReviewShowsWhatRuns
=============================================================================
