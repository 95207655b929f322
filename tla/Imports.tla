------------------------------- MODULE Imports -------------------------------
(***************************************************************************)
(* What the visor makes of a configuration another program wrote for its   *)
(* own MCP servers (normalize and normalize_opencode of sources.rs), and   *)
(* how it reads the result (ServerSpec of config.rs).                      *)
(*                                                                         *)
(* A document holds one map of servers with one entry, and grows field by  *)
(* field.  A text is one of a few that differ in what is in them: nothing, *)
(* a variable of the visor, of another program, or neither.                *)
(***************************************************************************)
EXTENDS Naturals, FiniteSets

CONSTANTS Offered,   \* by field: the values an entry is tried with
          MaxFields  \* bound: fields of one entry and other settings of its document

Maps == {"mcpServers", "servers", "context_servers", "mcp"}
OtherSettings == {"schema", "theme", "policy", "second_map"}

VARIABLE document  \* the map's key, the other settings at its root, and its entry

importVars == << document >>

NoText == {"blank"}
Dollars == {"env_var", "dollar_var"}   \* texts with "${" in them, the first as "${env:NAME}"
Braces == {"env_var", "brace_var"}     \* texts with "{env:" or "{file:" in them
Arrays == {"list"}                      \* an array where a text is expected

Refused == [f \in {"refused"} |-> TRUE]
Lacking(e, f) == [g \in DOMAIN e \ {f} |-> e[g]]
Having(e, f, v) == [g \in DOMAIN e \cup {f} |-> IF g = f THEN v ELSE e[g]]
Moved(e, f, g) == IF f \in DOMAIN e THEN Having(Lacking(e, f), g, e[f]) ELSE e
IsSaid(e, f) == f \in DOMAIN e /\ e[f] \notin NoText \cup Arrays

-----------------------------------------------------------------------------
(* normalize: an entry of a map that is not OpenCode's.                    *)

RootFits(d) ==
  /\ "second_map" \notin d.others
  /\ d.others \subseteq CASE d.map = "context_servers" -> {"schema", "theme"}
                          [] OTHER -> {"schema"}

AnyTransport(e) == "transport" \in DOMAIN e => e.transport = "http"

TransportFits(e) ==
  "transport" \in DOMAIN e => "type" \notin DOMAIN e /\ e.transport = "http"

\* A name for the transport is put as type, and streamable-http is http.
Typed(e) ==
  LET named == Moved(e, "transport", "type")
  IN IF "type" \in DOMAIN named /\ named.type = "streamable-http"
     THEN Having(named, "type", "http") ELSE named

TypeFits(e) == "type" \in DOMAIN Typed(e) => Typed(e).type \in {"stdio", "http"}

ServerUrlFits(map, e) ==
  "serverUrl" \in DOMAIN e =>
    /\ map = "mcpServers" /\ IsSaid(e, "serverUrl")
    /\ {"url", "command"} \cap DOMAIN e = {}
    /\ "type" \in DOMAIN Typed(e) => Typed(e).type = "http"

Rerouted(e) ==
  IF "serverUrl" \in DOMAIN e
  THEN Having(Moved(Typed(e), "serverUrl", "url"), "type", "http") ELSE Typed(e)

ZedFits(map, e) ==
  map = "context_servers" =>
    /\ IsSaid(e, "command") # IsSaid(e, "url")
    /\ \A f \in {"command", "url"} \cap DOMAIN e : e[f] \notin Arrays

KnownFields == {"type", "command", "args", "env", "url", "headers", "cwd", "enabled", "disabled"}

FlagsFit(e) ==
  "disabled" \in DOMAIN e => "enabled" \notin DOMAIN e /\ e.disabled \in {"true", "false"}

Negated(word) == IF word = "true" THEN "false" ELSE "true"

WithoutDisabled(e) ==
  IF "disabled" \in DOMAIN e
  THEN Having(Lacking(e, "disabled"), "enabled", Negated(e.disabled)) ELSE e

VariablesFit(e) ==
  \A f \in DOMAIN e : e[f] \in Dollars => f = "env" /\ e[f] = "env_var"

Normalized(map, e) ==
  IF /\ TransportFits(e) /\ TypeFits(e) /\ ServerUrlFits(map, e) /\ ZedFits(map, Rerouted(e))
     /\ DOMAIN Rerouted(e) \subseteq KnownFields /\ FlagsFit(e) /\ VariablesFit(Rerouted(e))
  THEN WithoutDisabled(Rerouted(e)) ELSE Refused

-----------------------------------------------------------------------------
(* normalize_opencode: a list is a command with its arguments.             *)

LocalFits(e) ==
  /\ DOMAIN e \subseteq {"type", "command", "environment", "enabled"}
  /\ "command" \in DOMAIN e /\ e.command \in Arrays

RemoteFits(e) ==
  /\ DOMAIN e \subseteq {"type", "url", "headers", "enabled", "oauth"}
  /\ "oauth" \in DOMAIN e /\ e.oauth = "false"
  /\ IsSaid(e, "url")

FromOpenCode(e) ==
  IF "type" \notin DOMAIN e THEN Refused
  ELSE CASE e.type = "local" /\ LocalFits(e) ->
              Having(Moved(e, "environment", "env"), "args", "plain")
         [] e.type = "remote" /\ RemoteFits(e) -> Lacking(e, "oauth")
         [] OTHER -> Refused

OpenCodeNormalized(d) ==
  LET e == FromOpenCode(d.entry)
      put == CASE e.type = "local" -> Having(Having(e, "type", "stdio"), "command", "plain")
               [] e.type = "remote" -> Having(e, "type", "http")
  IN IF ~(d.others \subseteq {"schema"}) \/ e = Refused THEN Refused
     ELSE IF \E f \in DOMAIN put : put[f] \in Dollars \cup Braces THEN Refused
     ELSE Normalized("mcpServers", put)

Imported(d) ==
  IF d.map = "mcp" /\ "second_map" \notin d.others THEN OpenCodeNormalized(d)
  ELSE IF d.map # "mcp" /\ RootFits(d) THEN Normalized(d.map, d.entry) ELSE Refused

-----------------------------------------------------------------------------
(* How the visor reads what was imported; it refuses a list for a text.    *)

Readable(e) == e # Refused /\ \A f \in DOMAIN e : e[f] \notin Arrays

Transport(e) ==
  IF "type" \in DOMAIN e THEN e.type ELSE IF IsSaid(e, "url") THEN "http" ELSE "stdio"

IsEnabled(e) == "enabled" \in DOMAIN e => e.enabled = "true"

\* resolve_env, when a server is started: env values alone have their variables put in.
Expands(f, value) == f = "env" /\ value = "env_var"

-----------------------------------------------------------------------------
ImportsInit == document \in [map : Maps, others : {{}}, entry : {<< >>}]

RoomForMore == Cardinality(DOMAIN document.entry) + Cardinality(document.others) < MaxFields

AddsField(f, v) ==
  /\ RoomForMore /\ f \notin DOMAIN document.entry
  /\ document' = [document EXCEPT !.entry = Having(@, f, v)]

AddsSetting(s) ==
  /\ RoomForMore /\ s \notin document.others
  /\ document' = [document EXCEPT !.others = @ \cup {s}]

ImportsNext ==
  \/ \E f \in DOMAIN Offered : \E v \in Offered[f] : AddsField(f, v)
  \/ \E s \in OtherSettings : AddsSetting(s)

ImportsSpec == ImportsInit /\ [][ImportsNext]_importVars

ImportsTypeOK ==
  /\ document.map \in Maps /\ document.others \subseteq OtherSettings
  /\ DOMAIN document.entry \subseteq DOMAIN Offered
  /\ \A f \in DOMAIN document.entry : document.entry[f] \in Offered[f]

-----------------------------------------------------------------------------
\* What the file says of how a server is reached, and of whether it is on.
SaidTransports(e) ==
  {CASE e[f] = "local" -> "stdio" [] e[f] \in {"remote", "streamable-http"} -> "http"
     [] OTHER -> e[f] : f \in {"type", "transport"} \cap DOMAIN e}
  \cup {"http" : f \in {"serverUrl"} \cap DOMAIN e}

SaidEnabled(e) ==
  {e[f] = "true" : f \in {"enabled"} \cap DOMAIN e}
  \cup {e[f] = "false" : f \in {"disabled"} \cap DOMAIN e}

\* A server that is imported (normalize, normalize_opencode) is reached and enabled as the
\* other program would, no text of its entry is lost or changed, a variable stands only
\* where the visor puts in what the file means, and no setting is dropped that could
\* restrict it.
ImportsKeepTheirMeaning ==
  LET e == document.entry
      got == Imported(document)
      texts == {"command", "args", "env", "url", "headers", "cwd"}
      Put(f) == CASE f = "serverUrl" -> "url" [] f = "environment" -> "env" [] OTHER -> f
  IN Readable(got) =>
     /\ SaidTransports(e) \subseteq {Transport(got)}
     /\ SaidTransports(e) = {} => (Transport(got) = "http" <=> IsSaid(e, "url"))
     /\ SaidEnabled(e) \subseteq {IsEnabled(got)}
     /\ SaidEnabled(e) = {} => IsEnabled(got)
     /\ \A f \in DOMAIN e : Put(f) \in texts =>
          got[Put(f)] = IF e[f] \in Arrays THEN "plain" ELSE e[f]
     /\ \A f \in DOMAIN e :
          (e[f] \in Dollars \/ (document.map = "mcp" /\ e[f] \in Braces)) =>
            Expands(Put(f), e[f]) /\ document.map # "mcp"
     /\ document.others \subseteq {"schema", "theme"}
     /\ DOMAIN e \ {"type", "transport", "enabled", "disabled"}
          \subseteq texts \cup {"serverUrl", "environment"}
                    \cup {f \in {"oauth"} \cap DOMAIN e : document.map = "mcp" /\ e[f] = "false"}
=============================================================================
