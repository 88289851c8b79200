----------------------------- MODULE StreamFeed -----------------------------
(***************************************************************************)
(* What the Go side promises the webview about one stream: any number of   *)
(* chunks, then one farewell, then silence.  A farewell is "stopped",      *)
(* "eof", or an error followed by the close "failed" (the code's status    *)
(* "error").  KubeStreams implements this; StreamBridge consumes it.       *)
(***************************************************************************)
EXTENDS Naturals, Sequences

CONSTANT Streams
VARIABLE feed    \* for each stream the events emitted for it, in order

FeedCloses == {"stopped", "eof", "failed"}
Farewells  == {<<"stopped">>, <<"eof">>, <<"error", "failed">>}

FeedClosed(s) == feed[s] # <<>> /\ feed[s][Len(feed[s])] \in FeedCloses

FeedInit == feed = [s \in Streams |-> <<>>]

Emit(s, es) ==
  /\ ~FeedClosed(s)
  /\ feed' = [feed EXCEPT ![s] = @ \o es]

EmitChunk(s)    == Emit(s, <<"chunk">>)
EmitFarewell(s) == \E es \in Farewells : Emit(s, es)

FeedNext == \E s \in Streams : EmitChunk(s) \/ EmitFarewell(s)
FeedSpec == FeedInit /\ [][FeedNext]_feed
=============================================================================
