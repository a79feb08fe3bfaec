----------------------------- MODULE MCLiveFeed ------------------------------
(* LiveFeed, watched, with a timer and a request that change the feeds. *)
EXTENDS FeedWatch, TLC

CONSTANTS w1, w2, s1, tv1

MCWriters == {w1, w2}
MCChanges == (w1 :> {"tables"}) @@ (w2 :> Feeds)   \* a timer, and a request
StaffPage == {s1}
BothPages == {s1, tv1}
MCChanSize == [f \in Feeds |-> 1]
==============================================================================
