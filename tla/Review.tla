-------------------------------- MODULE Review --------------------------------
(***************************************************************************)
(* The screens on which the user trusts, revokes and reconnects: the       *)
(* terminal (mcp_trust.rs), the dialogs (mcp_trust_gui.rs, mcp_dialog.rs,  *)
(* mcp_connections.rs) and their requests to the visor (visor.rs), which   *)
(* may still be done after the screen has stopped waiting for them.        *)
(*                                                                         *)
(* Each screen is a process of its own and shows what the visor said some  *)
(* time ago.  The contents of the sources are a number.  Of the visor only *)
(* the reviews and the grants are here; Trust is its model.  What a screen *)
(* prints, and the choice of a source, are left out.                       *)
(***************************************************************************)
EXTENDS Integers, Sequences, FiniteSets

CONSTANTS Screens,              \* processes that show a screen
          ReviewedProfiles,
          MaxChangesOfSources,  \* bound: how often the sources change
          MaxReviewed,          \* bound: reviews made
          MaxActions,           \* bound: reviews, revocations, and connection actions twice
          MaxSessions           \* bound: sessions one after the other

VARIABLES
  dialogs,    \* the screens: where they are, and what they show
  made,       \* the reviews the visor made: profile and contents
  undecided,  \* those it would still take
  grants,     \* the contents each profile is trusted with, or None
  sources,    \* the contents now
  rented,     \* the visor's session, by number
  posts       \* what was sent: the action, the word typed for it and the contents on
              \* the screen then (a history), and what became of it

ReviewVars == << dialogs, made, undecided, grants, sources, rented, posts >>

None == 0
Idle == [pc |-> "menu", profile |-> "", review |-> 0, post |-> 0, told |-> ""]

ReviewInit ==
  /\ dialogs = [s \in Screens |-> Idle]
  /\ made = << >> /\ undecided = {} /\ posts = << >> /\ sources = 1 /\ rented = 1
  /\ grants = [p \in ReviewedProfiles |-> None]

IsAt(s, pc) == dialogs[s].pc = pc
OnScreen(s) == made[dialogs[s].review]

Posted(action) == Cardinality({n \in DOMAIN posts : posts[n].action = action})
Chosen == Cardinality({s \in Screens : IsAt(s, "chosen")})
Aimed == Cardinality({s \in Screens : IsAt(s, "target")})
Spare(cost) ==
  Len(made) + Posted("revoke") + Chosen + 2 * (Posted("connect") + Aimed) + cost <= MaxActions

-----------------------------------------------------------------------------
(* The screens.                                                            *)

ScreenFails(s) == dialogs' = [dialogs EXCEPT ![s] = [Idle EXCEPT !.pc = "closed", !.told = "error"]]

\* screen: every round begins with the trust as it is.
Closes(s) ==
  /\ dialogs[s].pc \in {"menu", "chosen"} /\ ScreenFails(s)
  /\ UNCHANGED << made, undecided, grants, sources, rented, posts >>

\* discovery: the visor stages a review.  Its answer may be lost, and the review stays.
Previews(s, p) ==
  /\ IsAt(s, "menu") /\ Len(made) < MaxReviewed /\ Spare(1)
  /\ made' = Append(made, [profile |-> p, contents |-> sources])
  /\ undecided' = undecided \cup {Len(made')}
  /\ \/ dialogs' = [dialogs EXCEPT ![s] = [Idle EXCEPT !.pc = "shown", !.profile = p,
                                                   !.review = Len(made')]]
     \/ ScreenFails(s)
  /\ UNCHANGED << grants, sources, rented, posts >>

\* A profile on the list; the list may be old by now.
ChoosesGrant(s, p) ==
  /\ IsAt(s, "menu") /\ grants[p] # None /\ Spare(1)
  /\ dialogs' = [dialogs EXCEPT ![s] = [Idle EXCEPT !.pc = "chosen", !.profile = p]]
  /\ UNCHANGED << made, undecided, grants, sources, rented, posts >>

Post(s, action, word) ==
  /\ posts' = Append(posts, [action |-> action, word |-> word, was |-> "sent",
                   review |-> dialogs[s].review, profile |-> dialogs[s].profile,
                   saw |-> IF IsAt(s, "shown") THEN OnScreen(s).contents ELSE dialogs[s].review])
  /\ dialogs' = [dialogs EXCEPT ![s].pc = "waits", ![s].post = Len(posts')]

ApprovesUnlessRefused(word) == word # "other"

\* review: the whole word, read without an error.
Approves(word) == word = "TRUST"

\* The decision is sent in any case, before an error of the review is reported.
Reviews(s) ==
  /\ IsAt(s, "shown")
  /\ \E word \in {"TRUST", "other", "unreadable"} :
       Post(s, IF Approves(word) THEN "approve" ELSE "cancel", word)
  /\ UNCHANGED << made, undecided, grants, sources, rented >>

WordsRevocation(s) ==
  /\ IsAt(s, "chosen")
  /\ \/ Post(s, "revoke", "REVOKE")
     \/ dialogs' = [dialogs EXCEPT ![s] = Idle] /\ UNCHANGED posts
  /\ UNCHANGED << made, undecided, grants, sources, rented >>

\* mcp_connections: an attachment of the session listed, confirmed, or not.
ChoosesAttachment(s) ==
  /\ IsAt(s, "menu") /\ Spare(2)
  /\ dialogs' = [dialogs EXCEPT ![s] = [Idle EXCEPT !.pc = "target", !.review = rented]]
  /\ UNCHANGED << made, undecided, grants, sources, rented, posts >>

Connects(s) ==
  /\ IsAt(s, "target")
  /\ \/ Post(s, "connect", "yes")
     \/ ScreenFails(s) /\ UNCHANGED posts
  /\ UNCHANGED << made, undecided, grants, sources, rented >>

\* The visor's answer: back to the menu, or an error that ends the screen.
IsToldResult(s) ==
  /\ IsAt(s, "waits") /\ posts[dialogs[s].post].was \in {"done", "refused"}
  /\ IF posts[dialogs[s].post].was = "refused" THEN ScreenFails(s)
     ELSE dialogs' = [dialogs EXCEPT ![s].pc = "menu", ![s].told = posts[dialogs[s].post].action]
  /\ UNCHANGED << made, undecided, grants, sources, rented, posts >>

\* exchange_read_timeout: no connection, another user's socket, or 5 seconds.  What
\* has been sent may still be done.
GivesUpWaiting(s) ==
  /\ IsAt(s, "waits") /\ ScreenFails(s)
  /\ \/ UNCHANGED posts
     \/ posts[dialogs[s].post].was = "sent" /\ posts' = [posts EXCEPT ![dialogs[s].post].was = "lost"]
  /\ UNCHANGED << made, undecided, grants, sources, rented >>

-----------------------------------------------------------------------------
(* The visor.                                                              *)

IsDecided(n, how) == posts' = [posts EXCEPT ![n].was = how]

\* A ledger that cannot be saved refuses too.
Decides(n) ==
  /\ posts[n].was = "sent"
  /\ UNCHANGED << dialogs, made, sources, rented >>
  /\ \/ /\ posts[n].action = "approve" /\ undecided' = undecided \ {posts[n].review}
        /\ \/ /\ posts[n].review \in undecided /\ made[posts[n].review].contents = sources
              /\ IsDecided(n, "done") /\ grants' = [grants EXCEPT ![posts[n].profile] = sources]
           \/ IsDecided(n, "refused") /\ UNCHANGED grants
     \/ /\ posts[n].action = "cancel" /\ undecided' = undecided \ {posts[n].review}
        /\ IsDecided(n, "done") /\ UNCHANGED grants
     \/ /\ posts[n].action = "revoke" /\ UNCHANGED undecided
        /\ \/ IsDecided(n, "done") /\ grants' = [grants EXCEPT ![posts[n].profile] = None]
           \/ IsDecided(n, "refused") /\ UNCHANGED grants

\* mcp_refresh of api.rs: the session is known, and the attachment answers.
Reattaches(n) ==
  /\ posts[n].was = "sent" /\ posts[n].action = "connect"
  /\ \/ posts[n].review = rented /\ IsDecided(n, "done")
     \/ IsDecided(n, "refused")
  /\ UNCHANGED << dialogs, made, undecided, grants, sources, rented >>

AnotherSession ==
  /\ rented < MaxSessions /\ rented' = rented + 1
  /\ UNCHANGED << dialogs, made, undecided, grants, sources, posts >>

\* Five minutes, or a restart.
Forgets ==
  /\ \E r \in undecided : undecided' = undecided \ {r}
  /\ UNCHANGED << dialogs, made, grants, sources, rented, posts >>

\* A changed source takes the trust away at the next look.
SourcesChange ==
  /\ sources < MaxChangesOfSources + 1 /\ sources' = sources + 1
  /\ \/ grants' = [p \in ReviewedProfiles |-> None]
     \/ UNCHANGED grants
  /\ UNCHANGED << dialogs, made, undecided, rented, posts >>

ReviewNext ==
  \/ \E s \in Screens :
       \/ \E p \in ReviewedProfiles : Previews(s, p) \/ ChoosesGrant(s, p)
       \/ Closes(s) \/ Reviews(s) \/ WordsRevocation(s) \/ ChoosesAttachment(s) \/ Connects(s)
       \/ IsToldResult(s) \/ GivesUpWaiting(s)
  \/ (\E n \in DOMAIN posts : Decides(n) \/ Reattaches(n))
  \/ Forgets \/ SourcesChange \/ AnotherSession
ReviewSpec == ReviewInit /\ [][ReviewNext]_ReviewVars

-----------------------------------------------------------------------------
\* Every variable keeps its type (Preview, the pending reviews, the grants).
ReviewTypeOK ==
  /\ \A s \in Screens : dialogs[s].pc \in {"menu", "shown", "chosen", "target", "waits", "closed"}
  /\ undecided \subseteq DOMAIN made /\ DOMAIN grants = ReviewedProfiles
  /\ \A n \in DOMAIN posts : posts[n].was \in {"sent", "done", "refused", "lost"}

Said(n, action, word) == posts[n].action = action => posts[n].word = word
Deciding(r) ==
  {n \in DOMAIN posts : posts[n].review = r /\ posts[n].action \in {"approve", "cancel"}}

\* Trust is the user's word, however late it reaches the visor and whatever else the
\* screens do: a profile is trusted with the very contents on the screen on which TRUST
\* was typed ("Type TRUST to approve this exact snapshot; anything else cancels"); a
\* revocation was typed for that profile; a review gets one decision, and gets it as
\* soon as its screen is left, so that a screen that says cancelled speaks of a review
\* that nothing approves.
TrustIsTheUsersWord ==
  /\ \A p \in ReviewedProfiles :
       grants[p] # None =>
         \E n \in DOMAIN posts : /\ posts[n].word = "TRUST" /\ posts[n].profile = p
                                /\ posts[n].saw = grants[p]
  /\ \A n \in DOMAIN posts :
       /\ Said(n, "approve", "TRUST") /\ Said(n, "revoke", "REVOKE") /\ Said(n, "connect", "yes")
       /\ posts[n].action \in {"approve", "cancel"} => Deciding(posts[n].review) = {n}
  /\ \A s \in Screens :
       /\ dialogs[s].told \notin {"", "error"} =>
            posts[dialogs[s].post].was = "done" /\ posts[dialogs[s].post].action = dialogs[s].told
       /\ dialogs[s].told = "cancel" => dialogs[s].review \notin undecided
       /\ dialogs[s].pc = "waits" /\ dialogs[s].review # 0 =>
            posts[dialogs[s].post].review = dialogs[s].review
=============================================================================
