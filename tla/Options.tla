-------------------------------- MODULE Options --------------------------------
(***************************************************************************)
(* What a visor is told when it is started (parse_args_from and main of    *)
(* main.rs, parse_listen of bind.rs): words of the command line read one   *)
(* after the other, then the environment, then the checks that let it      *)
(* serve or not.                                                           *)
(*                                                                         *)
(* A word is a flag or one of a few values; every word may stand where a   *)
(* value is wanted.  The text of a value is left out but for what is asked *)
(* of it: is it blank, a pair, an address of this machine.                 *)
(***************************************************************************)
EXTENDS Integers, Sequences, FiniteSets

CONSTANTS ValueWords, \* words that are no flag
          BlankWords,      \* those of them with nothing in them
          Pairs,      \* those that are two names with "=" between
          Loopback,   \* those that are an address of this machine
          FlagWords,  \* the flags that are tried
          MaxWords    \* bound: words of one command line

\* What a flag wants to follow it.
TakesNext(flag) ==
  CASE flag \in {"--tcp", "--fixture", "--help"} -> "nothing"
    [] flag \in {"--listen", "--fixture-log"} -> "anything"
    [] flag \in {"--supervisor-url", "--supervisor-url-2", "--default-model", "--experts"} -> "text"
    [] flag \in {"--route", "--expert-answer"} -> "pair"
    [] OTHER -> "error"

TakesValue(flag) == TakesNext(flag) \in {"anything", "text", "pair"}

ListFlags == {"--route", "--experts", "--expert-answer"}
DefaultListen == "127.0.0.1:9847"
Absent == "absent"

\* The flags that main asks for are among those tried, and a value is none.
ASSUME OptionsAssumption ==
  /\ {"--tcp", "--listen", "--fixture", "--fixture-log", "--supervisor-url"} \subseteq FlagWords
  /\ \A word \in ValueWords : TakesNext(word) = "error"
  /\ {Absent, "env"} \cap (FlagWords \cup ValueWords \cup BlankWords) = {} /\ MaxWords \in Nat

VARIABLES
  words,  \* the command line as far as it is read (a history)
  given,  \* by flag: the values the visor keeps, or whether the flag was there
  wanting,\* the flag that is to be followed by a value, or Absent
  start   \* how far main is, and what it starts with

optionVars == << words, given, wanting, start >>

Reading == [pc |-> "reading", tcpEnv |-> FALSE, port |-> Absent, desktop |-> "real", url |-> Absent]

OptionsInit ==
  /\ words = << >> /\ wanting = Absent /\ start = Reading
  /\ given = [f \in FlagWords |-> << >>]

Says(pc) == start' = [start EXCEPT !.pc = pc]

-----------------------------------------------------------------------------
(* parse_args_from.                                                        *)

SettlesFirst(f, word) ==
  IF f \in ListFlags THEN Append(given[f], word)
  ELSE IF given[f] = << >> THEN << word >> ELSE given[f]

\* A later value takes the place of an earlier one, but in a list.
Settles(f, word) == IF f \in ListFlags THEN Append(given[f], word) ELSE << word >>

\* Help ends it, whatever follows; so does a word that is no flag.
ReadsFlag(word) ==
  /\ start.pc = "reading" /\ wanting = Absent /\ Len(words) < MaxWords
  /\ words' = Append(words, word)
  /\ CASE word = "--help" -> Says("helped") /\ UNCHANGED << given, wanting >>
       [] TakesNext(word) = "error" -> Says("refused") /\ UNCHANGED << given, wanting >>
       [] word # "--help" /\ TakesNext(word) = "nothing" ->
            given' = [given EXCEPT ![word] = << word >>] /\ UNCHANGED << wanting, start >>
       [] OTHER -> wanting' = word /\ UNCHANGED << given, start >>

IsFit(word, wanted) ==
  CASE wanted = "anything" -> TRUE
    [] wanted = "text" -> word \notin BlankWords
    [] wanted = "pair" -> word \in Pairs

\* required_value and split_pair.  A flag that stands here is a value.
ReadsValue(word) ==
  /\ start.pc = "reading" /\ wanting # Absent /\ Len(words) < MaxWords
  /\ words' = Append(words, word)
  /\ IF IsFit(word, TakesNext(wanting))
     THEN /\ given' = [given EXCEPT ![wanting] = Settles(wanting, word)]
          /\ wanting' = Absent /\ UNCHANGED start
     ELSE Says("refused") /\ UNCHANGED << given, wanting >>

\* The words are over.  A fixture needs a log, and a log a fixture.
EndsWords ==
  /\ start.pc = "reading"
  /\ Says(IF wanting # Absent \/ (given["--fixture"] = << >>) # (given["--fixture-log"] = << >>)
          THEN "refused" ELSE "parsed")
  /\ UNCHANGED << words, given, wanting >>

-----------------------------------------------------------------------------
(* main.                                                                   *)

LastGiven(f, otherwise) == IF given[f] = << >> THEN otherwise ELSE given[f][Len(given[f])]

\* resolve_supervisor_url: a flag is never blank, the environment may be.
OrElse(f, env) == LastGiven(f, IF env \in BlankWords THEN Absent ELSE env)

TcpEnabled(env) == given["--tcp"] # << >> \/ env

\* parse_listen.
IsHere(listen) == listen \in Loopback \cup {DefaultListen}

\* The address is looked at only for a port.
Starts ==
  /\ start.pc = "parsed"
  /\ \E root \in BOOLEAN, tcpEnv \in BOOLEAN, urlEnv \in {Absent, "env"} \cup BlankWords :
       LET tcp == TcpEnabled(tcpEnv)
           listen == LastGiven("--listen", DefaultListen)
       IN IF root \/ (tcp /\ ~IsHere(listen)) THEN Says("refused")
          ELSE start' = [pc |-> "serving", tcpEnv |-> tcpEnv,
                         port |-> IF tcp THEN listen ELSE Absent,
                         desktop |-> IF given["--fixture-log"] # << >> THEN "fixture" ELSE "real",
                         url |-> OrElse("--supervisor-url", urlEnv)]
  /\ UNCHANGED << words, given, wanting >>

\* The log of a fixture cannot be opened, or a door is not one (module PromptPass).
FailsToStart == start.pc = "parsed" /\ Says("refused") /\ UNCHANGED << words, given, wanting >>

OptionsNext ==
  \/ \E word \in FlagWords \cup ValueWords : ReadsFlag(word) \/ ReadsValue(word)
  \/ EndsWords \/ Starts \/ FailsToStart

OptionsSpec == OptionsInit /\ [][OptionsNext]_optionVars

-----------------------------------------------------------------------------
\* Every variable keeps its type (Options, parse_args_from).
OptionsTypeOK ==
  /\ Len(words) <= MaxWords /\ wanting \in FlagWords \cup {Absent}
  /\ start.pc \in {"reading", "helped", "refused", "parsed", "serving"}

\* What the word after the first i of those said is read as.
ReadAs(said) ==
  LET read[i \in 0..Len(said)] ==
        IF i = 0 THEN "flag"
        ELSE IF read[i - 1] = "flag" /\ TakesValue(said[i]) THEN "value" ELSE "flag"
  IN  read

StandsAsValue(i) == ReadAs(words)[i - 1] = "value"

FlagsAt(f) == {i \in DOMAIN words : words[i] = f /\ ~StandsAsValue(i)}
LastOf(f) == LET at == FlagsAt(f) IN words[1 + CHOOSE i \in at : \A j \in at : j <= i]
Listened == IF FlagsAt("--listen") = {} THEN DefaultListen ELSE LastOf("--listen")

\* A visor serves only if every word was understood, and then as the words say, read from
\* left to right: a port only if a flag or the environment asks for one, which is not the
\* same as the word being there, on the address given last, and always on this machine; the
\* real desktop unless a fixture is asked for; the supervisor given last; and every route and
\* expert of the words.
StartsAsTold ==
  /\ start.pc = "serving" =>
       /\ FlagsAt("--help") = {}
       /\ \A i \in DOMAIN words : StandsAsValue(i) => IsFit(words[i], TakesNext(words[i - 1]))
       /\ \A i \in DOMAIN words : ~StandsAsValue(i) => TakesNext(words[i]) # "error"
       /\ (start.port # Absent) <=> (start.tcpEnv \/ FlagsAt("--tcp") # {})
       /\ start.port # Absent => /\ start.port = Listened
                                 /\ IsHere(start.port)
       /\ start.desktop = "fixture" <=> FlagsAt("--fixture") # {}
       /\ FlagsAt("--supervisor-url") # {} => start.url = LastOf("--supervisor-url")
       /\ start.url \notin BlankWords
       /\ \A f \in ListFlags \cap FlagWords : Len(given[f]) = Cardinality(FlagsAt(f))
  /\ start.pc = "helped" => FlagsAt("--help") = {Len(words)}
=============================================================================
