------------------------------ MODULE MCParts ------------------------------
(***************************************************************************)
(* Instances for TLC of the parts that share no variable.  A behaviour of  *)
(* this module is one of a single part, chosen at first; the others rest   *)
(* in an initial state.                                                    *)
(***************************************************************************)
EXTENDS Fallback, PromptPass, Startup, Release, Feed, Pointer, Cursor, Routing,
        Configuration, Login, Settings, Outsiders, TLC

CONSTANTS r1, r2, v, h1, h2, m

-----------------------------------------------------------------------------
(* PromptPass: no door, one, two without a route, a failover with a        *)
(* repeated host, and the two experts; two of these are refused.           *)

Setup(second, route, experts, chosen) ==
  [primary |-> h1, second |-> second, routes |-> [x \in Models |-> route],
   experts |-> experts, answers |-> [x \in Models |-> chosen]]
MCSetups ==
  {[Setup(NoPrompt, << >>, {}, NoPrompt) EXCEPT !.primary = NoPrompt],
   Setup(NoPrompt, << >>, {}, NoPrompt), Setup(NoPrompt, << h1 >>, {}, NoPrompt),
   Setup(h1, << >>, {}, NoPrompt), Setup(h2, << >>, {}, NoPrompt),
   Setup(h2, << h2, h1, h2 >>, {}, NoPrompt), Setup(h2, << >>, {m}, h2)}

SaysLine(text) == [kind |-> "prompt", text |-> text, model |-> m]
File == [kind |-> "file", text |-> {v}]
Secret(source) == [kind |-> "secret", value |-> v, source |-> source]
MCBodies ==
  {<< >>, << Bad >>, << SaysLine({}), SaysLine({v}) >>, << SaysLine({v}), Secret("mcp") >>,
   << Secret("local"), SaysLine({v}) >>, << Secret("mcp"), File >>, << Secret("other") >>}

-----------------------------------------------------------------------------
(* Routing: a known and an unknown window, an ambiguous file and none.     *)

Seen(class) == [class |-> class, exe |-> NoName]
MCIdentities == {Seen("editor"), Seen(NoName)}
Bind(s, class) == [server |-> s, class |-> class, exe |-> NoName]
MCBindingFiles == {<< Bind("one", "editor"), Bind("two", "editor") >>, << >>}

\* Configuration: the project's file names one server.
MCProject == [n \in ServerNames |-> [run |-> "c2", on |-> TRUE]]

-----------------------------------------------------------------------------
(* Plans: drags of every length and direction up to and past the limits.   *)

Request(action, at, to, delta) == [action |-> action, at |-> at, to |-> to, delta |-> delta]
Xs == {-6, -5, 0, 1, 4, 5, 6}
Ys == {-6, 0, 3}
Drags == {Request("drag", << x, y >>, << p, q >>, << 0, 0 >>) :
            x \in Xs, p \in Xs, y \in Ys, q \in Ys}
Wheels == {Request("scroll", << x, 0 >>, << x, 0 >>, << d, e >>) :
             x \in {0, 6}, d \in -3..3, e \in -3..3}
Points == {Request(a, << x, y >>, << x, y >>, << 0, 0 >>) : a \in {"move", "click"}, x \in Xs, y \in Ys}
MCRequestsTried == Drags \cup Wheels \cup Points
FirstTried == CHOOSE r \in MCRequestsTried : TRUE
MCRootSize == << 6, 6 >>
MCAxisMin == -5

-----------------------------------------------------------------------------
(* Adapter: every kind of line, and arguments at the limits.               *)

Still == Request("move", << 0, 0 >>, << 0, 0 >>, << 0, 0 >>)
Tool(name, args, length) ==
  [method |-> "tools/call", id |-> "id", tool |-> name, shaped |-> TRUE, args |-> args,
   length |-> length]
Wheel(d, e) == Tool("mouse_scroll", [Still EXCEPT !.action = "scroll", !.delta = << d, e >>], 0)
Line(method, id) == [Tool("view", Still, 0) EXCEPT !.method = method, !.id = id]
MCAgentLines ==
  {Line(me, i) : me \in {"initialize", "tools/call"}, i \in {"id", "none", "odd"}}
  \cup {Line("other", "id"), Line("none", "none"), Tool("other", Still, 0),
        Wheel(3, 0), Wheel(3, -1), Wheel(0, 0)}
  \cup {Tool("type_text", Still, n) : n \in {2, 3}}
  \cup {Tool("mouse_move", Request("move", << x, 0 >>, << x, 0 >>, << 0, 0 >>), 0) : x \in {-1, 6}}

-----------------------------------------------------------------------------
(* Imports: values of every kind for every field.                          *)

MCOffered ==
  [type |-> {"stdio", "http", "streamable-http", "sse", "local", "remote"},
   transport |-> {"http", "sse"}, url |-> {"plain", "blank", "dollar_var"},
   serverUrl |-> {"plain", "blank"}, command |-> {"plain", "blank", "list", "brace_var"},
   args |-> {"plain", "env_var"}, env |-> {"plain", "env_var", "dollar_var"},
   environment |-> {"plain", "brace_var"}, enabled |-> {"true", "false"},
   disabled |-> {"true", "false", "odd"}, oauth |-> {"true", "false"}, other |-> {"plain"}]

-----------------------------------------------------------------------------
VARIABLE part

Parts == {"fallback", "prompt", "startup", "release", "feed", "pointer", "cursor",
          "routing", "configuration", "login", "plans", "adapter", "review", "settings",
          "options", "imports", "sources"}

FolderOfNobody == places.home = "absent" /\ places.xdg = "absent" /\ folder.kind = "missing"

PartsInit ==
  /\ part \in Parts
  /\ PlansInit /\ (part # "plans" => request = FirstTried)
  /\ FallbackInit /\ PromptInit /\ StartupInit /\ ReleaseInit /\ FeedInit
  /\ PointerInit /\ CursorInit /\ RoutingInit /\ ConfigurationInit
  /\ part # "routing" =>
       /\ world.focus = CHOOSE i \in Identities : TRUE
       /\ world.file = CHOOSE f \in BindingFiles : TRUE
       /\ world.latest = CHOOSE s \in RentedSessions : TRUE
  /\ profiles.active = CHOOSE p \in ProfileNames : TRUE
  /\ \A n \in DOMAIN servers : servers[n].run = "c1"
  /\ part # "configuration" => profiles.profiles = NoProfiles
  /\ LoginInit /\ (part # "login" => entry = NoToken)
  /\ AdapterInit /\ ReviewInit /\ SettingsInit /\ OptionsInit
  /\ ImportsInit /\ (part # "imports" => document.map = "mcpServers")
  /\ SourcesInit /\ (part # "sources" => FolderOfNobody)

PartsNext ==
  /\ UNCHANGED part
  /\ IF part = "fallback" THEN FallbackNext ELSE UNCHANGED FallbackVars
  /\ IF part = "prompt" THEN PromptNext ELSE UNCHANGED PromptVars
  /\ IF part = "startup" THEN StartupNext ELSE UNCHANGED startupVars
  /\ IF part = "release" THEN ReleaseNext ELSE UNCHANGED releaseVars
  /\ IF part = "feed" THEN FeedNext ELSE UNCHANGED feedVars
  /\ IF part = "pointer" THEN PointerNext ELSE UNCHANGED PointerVars
  /\ IF part = "cursor" THEN CursorNext ELSE UNCHANGED CursorVars
  /\ IF part = "routing" THEN RoutingNext ELSE UNCHANGED RoutingVars
  /\ IF part = "configuration" THEN ConfigurationNext ELSE UNCHANGED ConfigurationVars
  /\ IF part = "login" THEN LoginNext ELSE UNCHANGED loginVars
  /\ IF part = "plans" THEN PlansNext ELSE UNCHANGED planVars
  /\ IF part = "adapter" THEN AdapterNext ELSE UNCHANGED adapterVars
  /\ IF part = "review" THEN ReviewNext ELSE UNCHANGED ReviewVars
  /\ IF part = "settings" THEN SettingsNext ELSE UNCHANGED SettingsVars
  /\ IF part = "options" THEN OptionsNext ELSE UNCHANGED optionVars
  /\ IF part = "imports" THEN ImportsNext ELSE UNCHANGED importVars
  /\ IF part = "sources" THEN SourcesNext ELSE UNCHANGED sourceVars

PartsSpec == PartsInit /\ [][PartsNext]_<< part, FallbackVars, PromptVars, startupVars, releaseVars,
                                feedVars, PointerVars, CursorVars, RoutingVars, ConfigurationVars,
                                loginVars, planVars, adapterVars, ReviewVars, SettingsVars,
                                optionVars, importVars, sourceVars >>

-----------------------------------------------------------------------------
\* Every variable of the part that moves keeps its type: FallbackTrack, the parked
\* requests of PromptPass, the launches of serve, the plan of a request, frames,
\* Watch, BugCursor, BindingCache, the configuration files and the sign-ins, MouseOp,
\* the adapter's lines, the screens, the settings, Options, and the files and places of
\* other programs.
PartsTypeOK ==
  CASE part = "fallback" -> FallbackTypeOK
    [] part = "prompt" -> PromptTypeOK
    [] part = "startup" -> StartupTypeOK
    [] part = "release" -> ReleaseTypeOK
    [] part = "feed" -> FeedTypeOK
    [] part = "pointer" -> PointerTypeOK
    [] part = "cursor" -> CursorTypeOK
    [] part = "routing" -> RoutingTypeOK
    [] part = "configuration" -> ConfigurationTypeOK
    [] part = "login" -> LoginTypeOK
    [] part = "plans" -> PlansTypeOK
    [] part = "adapter" -> AdapterTypeOK
    [] part = "review" -> ReviewTypeOK
    [] part = "settings" -> SettingsTypeOK
    [] part = "options" -> OptionsTypeOK
    [] part = "imports" -> ImportsTypeOK
    [] part = "sources" -> SourcesTypeOK
=============================================================================
