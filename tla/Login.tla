-------------------------------- MODULE Login --------------------------------
(***************************************************************************)
(* Signing in, refreshing and signing out: the library of session/src      *)
(* (oauth.rs, store.rs) and the companion's log-in button (window.rs,      *)
(* credentials.rs).  The operations of one machine share one keychain      *)
(* entry; nothing but the companion's busy flag keeps two of them apart.   *)
(*                                                                         *)
(* A token is the issuer's session it belongs to and its generation: a     *)
(* refresh may rotate it.  Session o is the one operation o is granted; 0  *)
(* is of a sign-in before these.  State and verifier of a browser request  *)
(* are its operation.  Of the clock only the device grant's is modelled:   *)
(* the time left, and how long it has waited since the issuer answered.    *)
(***************************************************************************)
EXTENDS Integers, FiniteSets, FiniteSetsExt

CONSTANTS MaxOps,     \* operations begun
          Ports,      \* loopback ports the system hands out
          Interval,   \* what a device grant asks for between two polls, and adds by slow_down
          Expiry,     \* how long the user has, in the same ticks
          MaxRotations

ASSUME LoginAssumption == {MaxOps, Interval, Expiry, MaxRotations} \subseteq Nat

LoginOps == 1..MaxOps
NoToken == [session |-> -1, gen |-> 0]

VARIABLES
  op,         \* the operations
  busy,       \* login_busy
  entry,      \* the keychain entry
  granted,    \* the issuer's sessions: the newest generation; -1 before and after its life
  redirects,  \* a browser's answers on their way to the loopback port
  keyFile     \* a leftover file with a plaintext key

loginVars == << op, busy, entry, granted, redirects, keyFile >>

NoOp == [kind |-> "none", pc |-> "idle", port |-> 0, user |-> "none", outcome |-> "none",
         token |-> NoToken, answer |-> "none", left |-> 0, interval |-> 0, waited |-> 0,
         asked |-> 0]

First == [session |-> 0, gen |-> 0]
Lives(t) == t.session >= 0 /\ granted[t.session] = t.gen

LoginInit ==
  /\ op = [o \in LoginOps |-> NoOp]
  /\ busy = FALSE /\ redirects = {} /\ keyFile = TRUE
  /\ entry \in {NoToken, First}
  /\ granted = [s \in 0..MaxOps |-> IF s = 0 /\ entry = First THEN 0 ELSE -1]

Doing(o, pc) == op[o].pc = pc
Proceeds(o, pc) == op' = [op EXCEPT ![o].pc = pc]

\* The operation returns; the companion's thread clears the flag.
OpReturns(o, outcome) ==
  /\ op' = [op EXCEPT ![o] = [NoOp EXCEPT !.kind = op[o].kind, !.pc = "over",
                              !.port = op[o].port, !.user = op[o].user, !.outcome = outcome]]
  /\ busy' = (busy /\ op[o].kind # "click")

\* start_login does nothing while a sign-in of the companion runs.
BeginsOp(o) ==
  /\ Doing(o, "idle") /\ \A p \in 1..(o - 1) : ~Doing(p, "idle")
  /\ \E kind \in {"click", "sign_in", "refresh", "logout"} :
       /\ kind = "click" => ~busy
       /\ busy' = (busy \/ kind = "click")
       /\ \E pc \in IF kind \in {"click", "sign_in"} THEN {"binds", "device"} ELSE {"reads"} :
            op' = [op EXCEPT ![o] = [NoOp EXCEPT !.kind = kind, !.pc = pc]]
  /\ UNCHANGED << entry, granted, redirects, keyFile >>

-----------------------------------------------------------------------------
(* Through the browser.                                                    *)

Listeners(port) == {o \in LoginOps : Doing(o, "listens") /\ op[o].port = port}

\* bind_loopback, then xdg-open; without a browser the listener is dropped and
\* the device grant is tried.
OpensTab(o) ==
  /\ Doing(o, "binds")
  /\ \/ \E port \in {p \in Ports : Listeners(p) = {}} :
          op' = [op EXCEPT ![o].pc = "listens", ![o].port = port, ![o].user = "asked"]
     \/ Proceeds(o, "device")
  /\ UNCHANGED << busy, entry, granted, redirects, keyFile >>

\* The user answers in the tab, whenever; the browser calls the port.
AnswersInTab(o) ==
  /\ op[o].user = "asked" /\ op[o].port # 0
  /\ \E word \in {"approved", "declined"} : op' = [op EXCEPT ![o].user = word]
  /\ redirects' = redirects \cup {o}
  /\ UNCHANGED << busy, entry, granted, keyFile >>

CallbackOfErrorFirst(o, r) ==
  IF op[r].user = "declined" THEN "denied" ELSE IF r # o THEN "mismatch" ELSE "code"

\* callback_code: the state is compared before anything the redirect says.
Callback(o, r) ==
  IF r # o THEN "mismatch" ELSE IF op[r].user = "declined" THEN "denied" ELSE "code"

\* accept_callback takes one /callback, whoever's it is, and closes.
TakesCallback(o) ==
  /\ Doing(o, "listens")
  /\ \E r \in redirects :
       /\ op[r].port = op[o].port /\ redirects' = redirects \ {r}
       /\ LET judged == Callback(o, r)
          IN IF judged = "code" THEN Proceeds(o, "exchanges") /\ UNCHANGED busy
             ELSE OpReturns(o, judged)
  /\ UNCHANGED << entry, granted, keyFile >>

\* A redirect no listener takes.
IsRefused(r) ==
  /\ r \in redirects /\ Listeners(op[r].port) = {} /\ redirects' = redirects \ {r}
  /\ UNCHANGED << op, busy, entry, granted, keyFile >>

TimesOut(o) ==
  /\ Doing(o, "listens") /\ OpReturns(o, "timeout")
  /\ UNCHANGED << entry, granted, redirects, keyFile >>

\* What the issuer grants operation o, with a refresh token or without.
Grants(o) ==
  /\ granted' = [granted EXCEPT ![o] = 0]
  /\ \E t \in {NoToken, [session |-> o, gen |-> 0]} :
       op' = [op EXCEPT ![o].pc = "stores", ![o].token = t]
  /\ UNCHANGED busy

\* exchange_code.
Exchanges(o) ==
  /\ Doing(o, "exchanges")
  /\ \/ Grants(o)
     \/ OpReturns(o, "failed") /\ UNCHANGED granted
  /\ UNCHANGED << entry, redirects, keyFile >>

-----------------------------------------------------------------------------
(* The device grant.                                                       *)

StartsDevice(o) ==
  /\ Doing(o, "device")
  /\ \/ /\ op' = [op EXCEPT ![o].pc = "waits", ![o].user = "asked", ![o].left = Expiry,
                            ![o].interval = Interval, ![o].asked = Interval]
        /\ UNCHANGED busy
     \/ OpReturns(o, "failed")
  /\ UNCHANGED << entry, granted, redirects, keyFile >>

AnswersOnDevice(o) ==
  /\ op[o].user = "asked" /\ op[o].pc \in {"waits", "polls"}
  /\ \E word \in {"approved", "declined"} : op' = [op EXCEPT ![o].user = word]
  /\ UNCHANGED << busy, entry, granted, redirects, keyFile >>

\* The sleep is the interval or what is left; it may take longer.
Sleeps(o) ==
  /\ Doing(o, "waits")
  /\ \E late \in 0..1 :
       LET waited == Min({op[o].interval, op[o].left}) + late
       IN IF waited >= op[o].left THEN OpReturns(o, "expired")
          ELSE /\ op' = [op EXCEPT ![o].pc = "polls", ![o].left = @ - waited,
                                   ![o].waited = waited]
               /\ UNCHANGED busy
  /\ UNCHANGED << entry, granted, redirects, keyFile >>

SlowedDown(o) == op[o].interval + Interval

\* One poll of the token endpoint and the time it takes.
PollsIssuer(o) ==
  /\ Doing(o, "polls")
  /\ \/ /\ op[o].user = "approved" /\ Grants(o)
     \/ /\ op[o].user = "declined" /\ OpReturns(o, "denied") /\ UNCHANGED granted
     \/ /\ OpReturns(o, "failed") /\ UNCHANGED granted
     \/ /\ op[o].user = "asked" /\ UNCHANGED << busy, granted >>
        /\ \E took \in 0..1, slow \in BOOLEAN :
             LET left == op[o].left - took
             IN op' = [op EXCEPT ![o].pc = "waits", ![o].left = left, ![o].waited = 0,
                                 ![o].interval = IF slow THEN SlowedDown(o) ELSE @,
                                 ![o].asked = IF slow THEN @ + Interval ELSE @]
  /\ UNCHANGED << entry, redirects, keyFile >>

-----------------------------------------------------------------------------
(* The keychain entry.                                                     *)

\* store_refresh; the keychain may refuse.
StoresToken(o) ==
  /\ Doing(o, "stores")
  /\ \/ /\ op[o].token # NoToken /\ entry' = op[o].token
        /\ Proceeds(o, "has access") /\ UNCHANGED busy
     \/ OpReturns(o, "failed") /\ UNCHANGED entry
  /\ UNCHANGED << granted, redirects, keyFile >>

\* on_access and what start_login does after: the tenant, and no plaintext key.
TakesAccess(o) ==
  /\ Doing(o, "has access") /\ OpReturns(o, "in")
  /\ keyFile' \in IF op[o].kind = "click" THEN {keyFile, FALSE} ELSE {keyFile}
  /\ UNCHANGED << entry, granted, redirects >>

\* The entry as refresh_session or logout reads it; without one a logout still deletes.
ReadsToken(o) ==
  /\ Doing(o, "reads")
  /\ \/ /\ entry # NoToken /\ UNCHANGED busy
        /\ op' = [op EXCEPT ![o].pc = op[o].kind, ![o].token = entry]
     \/ /\ entry = NoToken /\ op[o].kind = "logout" /\ Proceeds(o, "deletes") /\ UNCHANGED busy
     \/ OpReturns(o, "failed")
  /\ UNCHANGED << entry, granted, redirects, keyFile >>

\* refresh: a new token, the same, invalid_grant, or no answer of either kind,
\* whatever the issuer did.
RefreshesToken(o) ==
  /\ Doing(o, "refresh")
  /\ LET t == op[o].token
         next == granted[t.session] + 1
     IN \/ /\ Lives(t) /\ OpReturns(o, "in") /\ UNCHANGED granted
        \/ /\ granted[t.session] >= 0 /\ next <= MaxRotations
           /\ granted' = [granted EXCEPT ![t.session] = next]
           /\ \/ op' = [op EXCEPT ![o].pc = "puts", ![o].token.gen = next] /\ UNCHANGED busy
              \/ OpReturns(o, "failed")
        \/ ~Lives(t) /\ Proceeds(o, "deletes") /\ UNCHANGED << busy, granted >>
        \/ OpReturns(o, "failed") /\ UNCHANGED granted
  /\ UNCHANGED << entry, redirects, keyFile >>

Puts(o) ==
  /\ Doing(o, "puts")
  /\ \/ entry' = op[o].token /\ OpReturns(o, "in")
     \/ OpReturns(o, "failed") /\ UNCHANGED entry
  /\ UNCHANGED << granted, redirects, keyFile >>

\* revoke: an error that says there is nothing to revoke counts as done; any
\* other ends the logout with the entry in place.
AfterRevoke(said) == IF said = "failed" THEN "over" ELSE "deletes"

RevokesToken(o) ==
  /\ Doing(o, "logout")
  /\ \E said \in {"revoked", "refused", "failed"}, ends \in BOOLEAN :
       /\ said = "revoked" => ends
       /\ said = "refused" => ~ends
       /\ granted' = IF ends THEN [granted EXCEPT ![op[o].token.session] = -1] ELSE granted
       /\ op' = [op EXCEPT ![o].pc = AfterRevoke(said), ![o].answer = said]
  /\ UNCHANGED << busy, entry, redirects, keyFile >>

\* delete takes whatever the entry holds by now.
Deletes(o) ==
  /\ Doing(o, "deletes") /\ entry' \in {NoToken, entry} /\ OpReturns(o, "out")
  /\ UNCHANGED << granted, redirects, keyFile >>

\* The issuer's session ends by itself.
SessionEnds(s) ==
  /\ granted[s] >= 0 /\ granted' = [granted EXCEPT ![s] = -1]
  /\ UNCHANGED << op, busy, entry, redirects, keyFile >>

LoginNext ==
  \/ \E o \in LoginOps :
       \/ BeginsOp(o) \/ OpensTab(o) \/ AnswersInTab(o) \/ TakesCallback(o) \/ IsRefused(o)
       \/ TimesOut(o) \/ Exchanges(o) \/ StartsDevice(o) \/ AnswersOnDevice(o) \/ Sleeps(o)
       \/ PollsIssuer(o) \/ StoresToken(o) \/ TakesAccess(o) \/ ReadsToken(o) \/ RefreshesToken(o)
       \/ Puts(o) \/ RevokesToken(o) \/ Deletes(o)
  \/ \E s \in 0..MaxOps : SessionEnds(s)

LoginSpec == LoginInit /\ [][LoginNext]_loginVars

-----------------------------------------------------------------------------
\* Every variable keeps its type (oauth.rs, store.rs, App::login_busy), and the
\* companion runs one sign-in at a time.
LoginTypeOK ==
  /\ \A o \in LoginOps : op[o].port \in Ports \cup {0} /\ op[o].left \in 0..Expiry
  /\ busy \in BOOLEAN /\ keyFile \in BOOLEAN /\ redirects \subseteq LoginOps
  /\ granted \in [0..MaxOps -> -1..MaxRotations]
  /\ entry.session \in -1..MaxOps /\ entry.gen \in 0..MaxRotations
  /\ Cardinality({o \in LoginOps : op[o].kind = "click" /\ ~Doing(o, "over")}) =
       IF busy THEN 1 ELSE 0

\* The issuer is polled no sooner than it asked, its slow_downs added up, and
\* never once the user's time is over ("sign-in expired before it was approved").
PollsWhenAsked(o) ==
  Doing(o, "polls") => op[o].waited >= op[o].asked /\ op[o].left > 0

\* A sign-in is declined, or signs in, only by what the user answered to that
\* very request, though an old tab may call a port that is a newer one's by now.
OutcomeIsItsOwn(o) ==
  /\ op[o].outcome = "denied" => op[o].user = "declined"
  /\ op[o].pc = "has access" => op[o].user = "approved"

\* A token the issuer still honours leaves the entry only for another, by a
\* logout whose revocation the issuer refused to make, or because an operation
\* deletes what another stored since it read: "It is still in the keychain."
LiveTokenIsKept ==
  Lives(entry) /\ entry' = NoToken =>
    \E o \in LoginOps :
      Doing(o, "deletes") /\ (op[o].token # entry \/ op[o].answer = "refused")

\* What holds of one keychain entry between operations that may overlap.
SignInIsSound ==
  /\ [](\A o \in LoginOps : PollsWhenAsked(o) /\ OutcomeIsItsOwn(o))
  /\ [](~keyFile => \E o \in LoginOps : op[o].kind = "click" /\ op[o].outcome = "in")
  /\ [][LiveTokenIsKept]_loginVars
=============================================================================
