-------------------------------- MODULE Feed --------------------------------
(***************************************************************************)
(* The picture of a session's feed: views and watches capture the screen   *)
(* on a thread of their own and store what they got under the frames lock, *)
(* after a test of the session under another lock.  The desktop, the       *)
(* readers and the close move between any two of these steps.              *)
(***************************************************************************)
EXTENDS Naturals

CONSTANTS Views, Watches,  \* the requests
          Images,          \* what the screen may show
          FirstImage,
          MaxChanges       \* of the screen

VARIABLES
  renting,  \* the session: not opened, open, removed, removed with its frame
  screen,
  feed,     \* AppState::frames for the session: [image, seq]
  reader,   \* how far each request has got, what it captured and sent last
  changes,
  storedBy  \* history: the request that stored last

feedVars == <<renting, screen, feed, reader, changes, storedBy>>

Readers == Views \union Watches
NoImage == "none"
NoFrame == [image |-> NoImage, seq |-> 0]

FeedInit ==
  /\ renting = "unborn" /\ screen = FirstImage
  /\ feed = NoFrame
  /\ reader = [r \in Readers |-> [at |-> "idle", got |-> NoImage, last |-> NoImage]]
  /\ changes = 0 /\ storedBy = NoImage

FeedGoes(r, from, to) == reader[r].at = from /\ reader' = [reader EXCEPT ![r].at = to]

Rents ==
  /\ renting = "unborn" /\ renting' = "open"
  /\ UNCHANGED <<screen, feed, reader, changes, storedBy>>
Changes ==
  /\ changes < MaxChanges /\ changes' = changes + 1
  /\ screen' \in Images \ {screen}
  /\ UNCHANGED <<renting, feed, reader, storedBy>>

\* mark_verb finds the session, or a watch that slept looks for it again.
Looks(r) ==
  /\ renting = "open"
  /\ \/ FeedGoes(r, "idle", "capturing")
     \/ FeedGoes(r, "sleeping", "capturing")
  /\ UNCHANGED <<renting, screen, feed, changes, storedBy>>
Captures(r) ==
  /\ reader[r].at = "capturing"
  /\ reader' = [reader EXCEPT ![r].at = "captured", ![r].got = screen]
  /\ UNCHANGED <<renting, screen, feed, changes, storedBy>>
LooksAgain(r) ==
  /\ renting = "open"
  /\ FeedGoes(r, "captured", "storing")
  /\ UNCHANGED <<renting, screen, feed, changes, storedBy>>

\* No session, or a desktop that fails, ends the request.
Leaves(r) ==
  /\ \/ renting # "open" /\ (FeedGoes(r, "captured", "gone") \/ FeedGoes(r, "sleeping", "gone"))
     \/ FeedGoes(r, "capturing", "gone")
  /\ UNCHANGED <<renting, screen, feed, changes, storedBy>>

\* remember_frame counts only a frame unlike the one it replaces.
RememberFirst(image) == IF feed = NoFrame THEN [image |-> image, seq |-> 1] ELSE feed
Remember(image) ==
  [image |-> image, seq |-> IF feed.image = image THEN feed.seq ELSE feed.seq + 1]

ViewStores(r) ==
  /\ r \in Views /\ FeedGoes(r, "storing", "gone")
  /\ feed' = Remember(reader[r].got) /\ storedBy' = r
  /\ UNCHANGED <<renting, screen, changes>>

\* A watch stores and sends what differs from what it sent before; a client
\* that has left ends it there.
WatchStores(r) ==
  /\ r \in Watches /\ reader[r].at = "storing"
  /\ IF reader[r].last = reader[r].got
     THEN /\ reader' = [reader EXCEPT ![r].at = "sleeping"]
          /\ UNCHANGED <<feed, storedBy>>
     ELSE /\ feed' = Remember(reader[r].got) /\ storedBy' = r
          /\ \/ reader' = [reader EXCEPT ![r].at = "sleeping", ![r].last = reader[r].got]
             \/ reader' = [reader EXCEPT ![r].at = "gone"]
  /\ UNCHANGED <<renting, screen, changes>>

\* close_session, and shutdown, empty the two tables one after the other.
Removes ==
  /\ renting = "open" /\ renting' = "removed"
  /\ UNCHANGED <<screen, feed, reader, changes, storedBy>>
RemovesFrame ==
  /\ renting = "removed" /\ renting' = "closed"
  /\ feed' = NoFrame
  /\ UNCHANGED <<screen, reader, changes, storedBy>>

FeedNext ==
  \/ Rents \/ Changes \/ Removes \/ RemovesFrame
  \/ \E r \in Readers :
       Looks(r) \/ Captures(r) \/ LooksAgain(r) \/ Leaves(r) \/ ViewStores(r) \/ WatchStores(r)
FeedSpec == FeedInit /\ [][FeedNext]_feedVars

-----------------------------------------------------------------------------

\* Every variable keeps its type (FeedFrame, watch_loop).
FeedTypeOK ==
  /\ renting \in {"unborn", "open", "removed", "closed"}
  /\ screen \in Images /\ feed.image \in Images \union {NoImage}
  /\ \A r \in Readers : reader[r].at \in {"idle", "capturing", "captured", "storing", "sleeping", "gone"}

\* Once every watch has sent the screen as it is and sleeps, and nothing else is
\* under way, the feed shows that screen -- unless what it holds was stored last
\* by a request that has ended, which no watch corrects.  Captures overtake each
\* other, and a watch does not look at what the feed holds.
WatchedFeedIsCurrent ==
  /\ \E w \in Watches : reader[w].at = "sleeping"
  /\ \A r \in Readers :
       \/ reader[r].at \in {"idle", "gone"}
       \/ reader[r].at = "sleeping" /\ reader[r].last = screen
  /\ storedBy \in Readers /\ reader[storedBy].at = "sleeping"
  /\ renting = "open"
  => feed.image = screen
=============================================================================
