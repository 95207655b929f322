------------------------------- MODULE Sources -------------------------------
(***************************************************************************)
(* The list of places where other programs keep their MCP configuration    *)
(* (list, platform_locations, add_profiles and selected of sources.rs).    *)
(*                                                                         *)
(* The places of one user on Linux, and the directory of the profiles of   *)
(* one editor, in which entries appear.  The visor makes the list again    *)
(* for every question, so it has no state of its own.                      *)
(***************************************************************************)
EXTENDS Naturals, FiniteSets

CONSTANTS Names,       \* names of entries of the profiles directory, in the order of ids
          Unfit,       \* those of them that are no id
          ListMost,    \* how many profiles of one editor are listed
          EntriesMost  \* how many entries of the directory are looked at

ASSUME SourcesAssumption ==
  Names \subseteq Nat /\ IsFiniteSet(Names) /\ {ListMost, EntriesMost} \subseteq Nat

InHome == {"cursor_global", "devin_user", "junie_user", "windsurf_user", "windsurf_next_user",
           "windsurf_insiders_user", "opencode_user", "kiro_user", "antigravity_user"}
InConfig == {"vscode_user", "vscode_insiders_user", "zed_user"}
Id(name) == << name, 0 >>
ProfileId(n) == << "profile", n >>
NoticeId == Id("use_explicit_path")

VARIABLES
  places,  \* HOME and XDG_CONFIG_HOME: absent, relative or absolute
  folder   \* the profiles directory: what it is, and by name what its entry is

sourceVars == << places, folder >>

-----------------------------------------------------------------------------
(* add_profiles.                                                           *)

EntryKinds == {"none", "profile", "no file", "link", "unreadable"}
Present == {n \in Names : folder.entries[n] # "none"}
ProfilesThere == {n \in Names \ Unfit : folder.entries[n] = "profile"}
FirstOf(found) == {n \in found : Cardinality({m \in found : m < n}) < ListMost}

\* Too many to look at, or one that cannot be read: none is listed.
Unlistable ==
  \/ folder.kind # "directory" \/ Cardinality(Present) > EntriesMost
  \/ \E n \in Present : folder.entries[n] = "unreadable"

OverflowsEntries(found) == Cardinality(found) > EntriesMost

Overflows(found) == Cardinality(found) > ListMost

ListedProfiles == IF folder.kind = "missing" \/ Unlistable THEN {} ELSE FirstOf(ProfilesThere)
Noticed == folder.kind # "missing" /\ (Unlistable \/ Overflows(ProfilesThere))

-----------------------------------------------------------------------------
(* platform_locations: what is below the home, and below the configuration *)
(* directory, which is XDG's, or else the home's.                          *)

ConfigRoot ==
  IF places.xdg = "absolute" THEN "xdg" ELSE IF places.home = "absolute" THEN "home" ELSE "none"

Locations ==
  {<< Id(i), "home" >> : i \in {j \in InHome : places.home = "absolute"}}
  \cup {<< Id(i), ConfigRoot >> : i \in {j \in InConfig : ConfigRoot # "none"}}
  \cup {<< ProfileId(n), ConfigRoot >> : n \in {m \in ListedProfiles : ConfigRoot # "none"}}
  \cup {<< NoticeId, ConfigRoot >> : c \in {m \in {ConfigRoot} : m # "none" /\ Noticed}}

\* selected: no choice is made of the notice, which shows the directory's own path.
Selected(locations, id) == {l \in locations : l[1] = id /\ id # NoticeId}

-----------------------------------------------------------------------------
FolderKinds == {"missing", "directory", "link", "unreadable"}

SourcesInit ==
  /\ places \in [{"home", "xdg"} -> {"absent", "relative", "absolute"}]
  /\ folder \in [kind : FolderKinds, entries : {[n \in Names |-> "none"]}]

\* Entries only come: the list depends on nothing but what is there.
EntryComes(n, k) ==
  /\ folder.entries[n] = "none"
  /\ folder' = [folder EXCEPT !.entries[n] = k] /\ UNCHANGED places

SourcesNext == \E n \in Names, k \in EntryKinds \ {"none"} : EntryComes(n, k)

SourcesSpec == SourcesInit /\ [][SourcesNext]_sourceVars

SourcesTypeOK ==
  /\ places \in [{"home", "xdg"} -> {"absent", "relative", "absolute"}]
  /\ folder \in [kind : FolderKinds, entries : [Names -> EntryKinds]]

\* What is listed can be chosen and is below a directory that is known and absolute; a
\* profile that is there and is not listed is announced by the notice (add_profiles), and
\* then the listed ones are the first by id; nothing but a profile with its file is listed.
ListLeavesNothingOutUnsaid ==
  LET listed == Locations
      found == {n \in Names : << ProfileId(n), ConfigRoot >> \in listed}
      there == {n \in Names \ Unfit : folder.kind = "directory" /\ folder.entries[n] = "profile"}
  IN /\ \A l \in listed : l[1] # NoticeId => Selected(listed, l[1]) = {l}
     /\ \A l \in listed : places[l[2]] = "absolute"
     /\ found \subseteq there /\ Cardinality(found) <= ListMost
     /\ ConfigRoot # "none" => (there = found \/ << NoticeId, ConfigRoot >> \in listed)
     /\ \A n \in found, m \in there \ found : n < m
=============================================================================
