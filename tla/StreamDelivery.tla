--------------------------- MODULE StreamDelivery ---------------------------
(***************************************************************************)
(* What a subscriber is promised: it hears the events of its own stream,   *)
(* in order, none of them lost or doubled, from the first one on, until    *)
(* the stream closes or the subscriber stops it; then it hears nothing     *)
(* more.  How an event travels, and that the stream's id is unknown when   *)
(* the first events arrive, is not visible here.                           *)
(***************************************************************************)
EXTENDS StreamFeed

VARIABLES
  heard,     \* for each stream the events its handler was given
  outcome    \* "open", the close the handler was given, or "never"

deliveryVars == <<feed, heard, outcome>>

(* The first n events of a stream: an event is its stream and position. *)
Transcript(s, n) == [i \in 1..n |-> [id |-> s, at |-> i]]

DeliveryInit ==
  /\ FeedInit
  /\ heard = [s \in Streams |-> <<>>]
  /\ outcome = [s \in Streams |-> "open"]

(* Several events may be handed over at once. *)
Hear(s) ==
  /\ outcome[s] = "open"
  /\ \E n \in Len(heard[s]) + 1 .. Len(feed[s]) :
       /\ heard' = [heard EXCEPT ![s] = Transcript(s, n)]
       /\ outcome' = [outcome EXCEPT ![s] =
            IF feed[s][n] \in FeedCloses THEN feed[s][n] ELSE "open"]
  /\ UNCHANGED feed

(* The subscriber stopped the stream and hears of no close of its own. *)
GiveUp(s) ==
  /\ outcome[s] = "open"
  /\ outcome' = [outcome EXCEPT ![s] = "stopped"]
  /\ UNCHANGED <<feed, heard>>

(* The stream could not be started: its handler is never called. *)
Abandon(s) ==
  /\ outcome[s] = "open" /\ heard[s] = <<>>
  /\ outcome' = [outcome EXCEPT ![s] = "never"]
  /\ UNCHANGED <<feed, heard>>

Speak == FeedNext /\ UNCHANGED <<heard, outcome>>

DeliveryNext ==
  Speak \/ \E s \in Streams : Hear(s) \/ GiveUp(s) \/ Abandon(s)

DeliverySpec == DeliveryInit /\ [][DeliveryNext]_deliveryVars
=============================================================================
