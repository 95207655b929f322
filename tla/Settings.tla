------------------------------- MODULE Settings -------------------------------
(***************************************************************************)
(* The companion's two files (companion/src/settings.rs): companion.toml,  *)
(* which menu clicks and the user's editor write and the next companion    *)
(* reads, and companion-notice, which an updater writes and the window     *)
(* reads when its mtime has changed.  Neither file is locked or replaced   *)
(* atomically: between any two system calls the other side may write.  So  *)
(* a save that falls into a click's write is lost in part or whole; doubt  *)
(* says for which keys, and the property is that nothing else is lost.     *)
(*                                                                         *)
(* companion.toml is a function from keys to values, or Torn, what no      *)
(* parser takes.  An mtime counts the writes of the notice; times between  *)
(* two of them are only "due or not".                                      *)
(***************************************************************************)
EXTENDS Integers

CONSTANTS Keys,      \* those the menu sets, and others
          MenuKeys,
          MaxClicks, MaxSaves, MaxNotices, MaxKills  \* bounds

VARIABLES
  toml,     \* companion.toml
  click,    \* write_value under way: its key, what it read, the keys saved meanwhile
  accepted, \* history: by key, the last value a click or the editor has set
  doubt,    \* history: the keys a save and a click's write, overlapping, may have lost
  budget,   \* how many clicks, saves, notices and kills were made
  notice,   \* companion-notice: says it upgrading, and its mtime; 0 when missing
  cache,    \* NoticeCache: filled or not, mtime, upgrading
  look      \* NoticeCache::current under way: the mtime it has seen

SettingsVars == << toml, click, accepted, doubt, budget, notice, cache, look >>

Torn == [k \in Keys |-> "torn"]
NoSettings == [k \in Keys |-> "unset"]
NoClick == [at |-> "none", key |-> CHOOSE k \in MenuKeys : TRUE, was |-> NoSettings,
            missed |-> {}]
NoLook == -1

SettingsInit ==
  /\ toml = NoSettings /\ click = NoClick /\ accepted = NoSettings /\ doubt = {}
  /\ budget = [clicks |-> 0, saves |-> 0, notices |-> 0, kills |-> 0]
  /\ notice = [upgrading |-> FALSE, mtime |-> 0]
  /\ cache = [filled |-> FALSE, mtime |-> 0, upgrading |-> FALSE] /\ look = NoLook

Spends(what, most) == budget[what] < most /\ budget' = [budget EXCEPT ![what] = @ + 1]

-----------------------------------------------------------------------------
(* companion.toml.                                                         *)

\* write_value: the file is read; one that does not parse is left as it is.
Clicks ==
  /\ click.at = "none" /\ Spends("clicks", MaxClicks)
  /\ \E k \in MenuKeys :
       click' = IF toml = Torn THEN click
                ELSE [at |-> "read", key |-> k, was |-> toml, missed |-> {}]
  /\ UNCHANGED << toml, accepted, doubt, notice, cache, look >>

OnlyItsKey == [NoSettings EXCEPT ![click.key] = "menu"]
Written == [click.was EXCEPT ![click.key] = "menu"]

\* fs::write empties the file, which reads as no setting at all, and fills it.
Truncates ==
  /\ click.at = "read" /\ toml' = NoSettings /\ click' = [click EXCEPT !.at = "emptied"]
  /\ UNCHANGED << accepted, doubt, budget, notice, cache, look >>

\* What a part of its text, alone or over what is there, may read as.
Mixed == {f \in [Keys -> {"unset", "menu", "editor"}] : \A k \in Keys : f[k] \in {toml[k], Written[k]}}

\* Over a file somebody saved meanwhile it goes nowhere (a file put in its place),
\* replaces it, or leaves the end of a longer one behind its own text.
Fills ==
  /\ click.at = "emptied" /\ click' = NoClick
  /\ accepted' = [accepted EXCEPT ![click.key] = "menu"]
  /\ \/ /\ toml = NoSettings /\ toml' = Written
        /\ doubt' = (doubt \cup click.missed) \ {click.key}
     \/ /\ toml # NoSettings /\ toml' \in Mixed \cup {Torn}
        /\ doubt' = Keys
  /\ UNCHANGED << budget, notice, cache, look >>

\* The companion is killed, in between or halfway through the text.
CompanionIsKilled ==
  /\ Spends("kills", MaxKills) /\ click' = NoClick
  /\ \/ click.at # "emptied" /\ UNCHANGED << toml, accepted, doubt >>
     \/ /\ click.at = "emptied" /\ toml' \in Mixed \cup {Torn}
        /\ accepted' = toml' /\ doubt' = {}
  /\ cache' = [filled |-> FALSE, mtime |-> 0, upgrading |-> FALSE] /\ look' = NoLook
  /\ UNCHANGED notice

\* An editor saves, at any moment, what it sees of the file with one key changed; one
\* that opened the file before it was emptied sees what the click has read.
Saves ==
  /\ Spends("saves", MaxSaves)
  /\ \E k \in Keys, seen \in {toml} \cup (IF click.at = "emptied" THEN {click.was} ELSE {}) :
       /\ toml' = [IF seen = Torn THEN NoSettings ELSE seen EXCEPT ![k] = "editor"]
       /\ accepted' = toml'
       /\ IF click.at = "none" THEN doubt' = {} /\ UNCHANGED click
          ELSE click' = [click EXCEPT !.missed = @ \cup {k}] /\ UNCHANGED doubt
  /\ UNCHANGED << notice, cache, look >>

-----------------------------------------------------------------------------
(* companion-notice.                                                       *)

Publishes ==
  /\ Spends("notices", MaxNotices)
  /\ notice' \in [upgrading : BOOLEAN, mtime : {budget.notices + 1}] \cup
                 {[upgrading |-> FALSE, mtime |-> 0]}
  /\ UNCHANGED << toml, click, accepted, doubt, cache, look >>

\* current: not more than once a second.
Stats ==
  /\ look = NoLook /\ look' = notice.mtime
  /\ UNCHANGED << toml, click, accepted, doubt, budget, notice, cache >>

Filled == [filled |-> TRUE, mtime |-> look, upgrading |-> notice.upgrading]

\* refresh_cached_notice: the text is read if the mtime seen is another.
RefreshesCache ==
  /\ look # NoLook /\ look' = NoLook
  /\ cache' = IF cache.filled /\ cache.mtime = look THEN cache ELSE Filled
  /\ UNCHANGED << toml, click, accepted, doubt, budget, notice >>

SettingsNext ==
  \/ Clicks \/ Truncates \/ Fills \/ CompanionIsKilled \/ Saves \/ Publishes \/ Stats \/ RefreshesCache
SettingsSpec == SettingsInit /\ [][SettingsNext]_SettingsVars

-----------------------------------------------------------------------------
\* Every variable keeps its type (toml::Table, NoticeCache).
SettingsTypeOK ==
  /\ toml \in [Keys -> {"unset", "menu", "editor", "torn"}]
  /\ click.at \in {"none", "read", "emptied"} /\ click.key \in MenuKeys
  /\ click.missed \cup doubt \subseteq Keys
  /\ look \in -1..MaxNotices /\ notice.mtime \in 0..MaxNotices

\* No setting is lost but to a write that overlaps, and no notice is missed.  Between
\* two clicks the file holds what was set last for every key, also those of others ("A
\* write replaces the root key in the parsed table and saves it, so a trailing table
\* keeps its own keys"), except: a key that an editor saved after a click had read the
\* file and before it wrote (nothing locks it), any key once an editor saved while a
\* click was filling it, and what a kill cut.  A save that overlaps no click puts the
\* file right, and so does a click for its key.  A cache with the mtime of a notice that
\* is there holds its text, so that a notice written between the stat and the read is
\* read at the next look.  (Of a file that is missing again at that look this would not
\* be so.)
SettingsAreCurrent ==
  /\ click.at = "none" => \A k \in Keys \ doubt : toml[k] = accepted[k]
  /\ notice.mtime # 0 /\ cache.filled /\ cache.mtime = notice.mtime =>
       cache.upgrading = notice.upgrading
=============================================================================
