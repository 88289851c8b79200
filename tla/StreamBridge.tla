---------------------------- MODULE StreamBridge ----------------------------
(***************************************************************************)
(* The webview's half of a stream: KubeStreamTransport.begin and the       *)
(* subscription it makes, with the bridge between them and the Go side.    *)
(*                                                                         *)
(* A member of Streams is one begin() call, its subscription and the       *)
(* stream the Go side may open for it.  The Go side emits the feed of      *)
(* StreamFeed.  The events of a stream cross the bridge in the order they  *)
(* were emitted and every listener gets each one; the answer of a call     *)
(* crosses on its own, before or after events that were emitted earlier.   *)
(* How events of different streams interleave is left open: accept drops   *)
(* or keeps an event by its stream alone, so no handler can tell.  A       *)
(* microtask of the webview runs to its end, so an action is one callback  *)
(* or continuation.                                                        *)
(***************************************************************************)
EXTENDS StreamFeed

CONSTANTS
  MaxChunks,  \* bound: chunk events one stream may emit
  MaxStops    \* bound: stop() calls on one subscription

ASSUME BoundsAssumption == MaxChunks \in Nat /\ MaxStops \in Nat

VARIABLES
  runtime,    \* IRuntime.isAvailable: whether there is a Wails bridge
  call,       \* how far begin() has come
  answer,     \* StartStream's result, which crosses the bridge on its own
  bus,        \* for each stream, events not yet dispatched to the listeners
  listening,  \* subscriptions with their three listeners in place
  pending,    \* KubeStreamSubscriptionBase.pending, by the stream of the event
  heard,      \* what the handler of a subscription was given, in order
  closed,     \* KubeStreamSubscriptionBase.closed
  outcome,    \* history: what onClosed was given
  stops,      \* stop() calls waiting for StopStream's answer
  stopsMade   \* stop() calls that went to the Go side

goVars   == <<feed, answer, bus>>
subVars  == <<call, listening, pending, heard, closed, outcome>>
haltVars == <<stops, stopsMade>>
vars     == <<runtime, goVars, subVars, haltVars>>

Message == [id : Streams, at : Nat \ {0}]
Kind(m) == feed[m.id][m.at]

(* streamId = '' until attach. *)
Known(s) == call[s] = "attached"

Init ==
  /\ runtime \in BOOLEAN
  /\ FeedInit
  /\ call = [s \in Streams |-> "idle"]
  /\ answer = [s \in Streams |-> "none"]
  /\ bus = [t \in Streams |-> <<>>]
  /\ listening = {}
  /\ pending = [s \in Streams |-> [t \in Streams |-> <<>>]]
  /\ heard = [s \in Streams |-> <<>>]
  /\ closed = {}
  /\ outcome = [s \in Streams |-> "open"]
  /\ stops = [s \in Streams |-> 0]
  /\ stopsMade = [s \in Streams |-> 0]

-----------------------------------------------------------------------------
(* The Go side, as far as the webview can tell.                            *)

(* StartStream opens the stream, or answers with an error. *)
GoStarts(s) ==
  /\ call[s] = "waiting" /\ answer[s] = "none"
  /\ \E r \in {"id", "error"} : answer' = [answer EXCEPT ![s] = r]
  /\ UNCHANGED <<runtime, feed, bus, subVars, haltVars>>

Travel(s, es) == [i \in 1..Len(es) |-> [id |-> s, at |-> Len(feed[s]) + i]]

GoEmits(s, es) ==
  /\ answer[s] = "id"
  /\ Emit(s, es)
  /\ bus' = [bus EXCEPT ![s] = @ \o Travel(s, es)]
  /\ UNCHANGED <<runtime, answer, subVars, haltVars>>

GoChunk(s) == Len(feed[s]) < MaxChunks /\ GoEmits(s, <<"chunk">>)
GoCloses(s) == \E es \in Farewells : GoEmits(s, es)

-----------------------------------------------------------------------------
(* begin().                                                                *)

(* listen() and the StartStream call; without a runtime begin() returns    *)
(* the bare subscription.                                                  *)
Begin(s) ==
  /\ call[s] = "idle"
  /\ call' = [call EXCEPT ![s] = IF runtime THEN "waiting" ELSE "offline"]
  /\ listening' = IF runtime THEN listening \cup {s} ELSE listening
  /\ UNCHANGED <<runtime, goVars, pending, heard, closed, outcome, haltVars>>

(* The positions of the close events. *)
ClosesAt(ms) == {i \in 1..Len(ms) : Kind(ms[i]) \in FeedCloses}

(* dispatch() over messages that are all the subscription's own: it stops  *)
(* taking them at the first close.                                         *)
UpToClose(ms) ==
  IF ClosesAt(ms) = {} THEN ms
  ELSE SubSeq(ms, 1, CHOOSE i \in ClosesAt(ms) : \A j \in ClosesAt(ms) : i <= j)

Dispatch(s, ms) ==
  LET taken == UpToClose(ms) IN
  /\ heard' = [heard EXCEPT ![s] = @ \o taken]
  /\ IF ClosesAt(ms) = {}
     THEN UNCHANGED <<closed, listening, outcome>>
     ELSE /\ closed' = closed \cup {s}
          /\ listening' = listening \ {s}
          /\ outcome' = [outcome EXCEPT ![s] = Kind(taken[Len(taken)])]

(* Mutant: attach replays what was buffered without looking at the ids. *)
AttachAll(s) ==
  /\ call[s] = "waiting" /\ answer[s] = "id"
  /\ call' = [call EXCEPT ![s] = "attached"]
  /\ pending' = [pending EXCEPT ![s] = [t \in Streams |-> <<>>]]
  /\ \E t \in Streams \ {s} : Dispatch(s, pending[s][s] \o pending[s][t])
  /\ UNCHANGED <<runtime, goVars, haltVars>>

(* Mutant: attach leaves the buffer unread. *)
AttachForgets(s) ==
  /\ call[s] = "waiting" /\ answer[s] = "id"
  /\ call' = [call EXCEPT ![s] = "attached"]
  /\ UNCHANGED <<runtime, goVars, listening, pending, heard, closed, outcome,
                 haltVars>>

(* The id arrives: what was buffered is replayed, messages of other        *)
(* streams are dropped.                                                    *)
attach(s) ==
  /\ call[s] = "waiting" /\ answer[s] = "id"
  /\ call' = [call EXCEPT ![s] = "attached"]
  /\ pending' = [pending EXCEPT ![s] = [t \in Streams |-> <<>>]]
  /\ Dispatch(s, pending[s][s])
  /\ UNCHANGED <<runtime, goVars, haltVars>>

(* Mutant: the failed start keeps the listeners. *)
CancelKeeps(s) ==
  /\ call[s] = "waiting" /\ answer[s] = "error"
  /\ call' = [call EXCEPT ![s] = "failed"]
  /\ closed' = closed \cup {s}
  /\ UNCHANGED <<runtime, goVars, listening, pending, heard, outcome, haltVars>>

(* The start failed: cancel() and an ApiError. *)
cancel(s) ==
  /\ call[s] = "waiting" /\ answer[s] = "error"
  /\ call' = [call EXCEPT ![s] = "failed"]
  /\ closed' = closed \cup {s}
  /\ listening' = listening \ {s}
  /\ UNCHANGED <<runtime, goVars, pending, heard, outcome, haltVars>>

(* The bridge itself rejects the call, whatever the Go side did with it:   *)
(* start() raises and nothing cancels the subscription.                    *)
StartThrows(s) ==
  /\ call[s] = "waiting"
  /\ call' = [call EXCEPT ![s] = "broken"]
  /\ UNCHANGED <<runtime, goVars, listening, pending, heard, closed, outcome,
                 haltVars>>

-----------------------------------------------------------------------------
(* Events.                                                                 *)

(* accept(), for one event and every subscription that listens: an unknown *)
(* id buffers it, another stream's event is ignored, and the one it is for *)
(* dispatches it.                                                          *)
Buffering == {s \in listening : ~Known(s)}

Deliver(t) ==
  /\ bus[t] # <<>>
  /\ bus' = [bus EXCEPT ![t] = Tail(@)]
  /\ pending' = [s \in Streams |->
       IF s \in Buffering THEN [pending[s] EXCEPT ![t] = Append(@, Head(bus[t]))]
                         ELSE pending[s]]
  /\ IF t \in listening \ closed /\ Known(t)
     THEN Dispatch(t, <<Head(bus[t])>>)
     ELSE UNCHANGED <<heard, closed, listening, outcome>>
  /\ UNCHANGED <<runtime, feed, answer, call, haltVars>>

-----------------------------------------------------------------------------
(* stop().                                                                 *)

close(s) ==
  IF s \in closed THEN UNCHANGED <<closed, listening, outcome>>
  ELSE /\ closed' = closed \cup {s}
       /\ listening' = listening \ {s}
       /\ outcome' = [outcome EXCEPT ![s] = "stopped"]

(* Without an id there is nothing to stop on the Go side. *)
stopOffline(s) ==
  /\ call[s] = "offline" /\ s \notin closed
  /\ close(s)
  /\ UNCHANGED <<runtime, goVars, call, pending, heard, haltVars>>

stop(s) ==
  /\ Known(s) /\ s \notin closed
  /\ stopsMade[s] < MaxStops
  /\ stopsMade' = [stopsMade EXCEPT ![s] = @ + 1]
  /\ stops' = [stops EXCEPT ![s] = @ + 1]
  /\ UNCHANGED <<runtime, goVars, subVars>>

(* Mutant: a stop() whose call fails leaves the subscription open. *)
StoppedUnlessThrown(s) ==
  /\ stops[s] > 0
  /\ stops' = [stops EXCEPT ![s] = @ - 1]
  /\ close(s) \/ UNCHANGED <<closed, listening, outcome>>
  /\ UNCHANGED <<runtime, goVars, call, pending, heard, stopsMade>>

(* StopStream answers, or throws and is raised as an ApiError: finally     *)
(* closes the subscription either way.                                     *)
Stopped(s) ==
  /\ stops[s] > 0
  /\ stops' = [stops EXCEPT ![s] = @ - 1]
  /\ close(s)
  /\ UNCHANGED <<runtime, goVars, call, pending, heard, stopsMade>>

-----------------------------------------------------------------------------
(* Nothing is on its way any more. *)
Rest ==
  /\ \A s \in Streams :
       /\ bus[s] = <<>>
       /\ call[s] \notin {"idle", "waiting"}
       /\ stops[s] = 0
       /\ answer[s] = "id" => FeedClosed(s)
       /\ call[s] = "offline" => s \in closed
  /\ UNCHANGED vars

Next ==
  \/ \E s \in Streams :
       \/ GoStarts(s) \/ GoChunk(s) \/ GoCloses(s)
       \/ Begin(s) \/ attach(s) \/ cancel(s) \/ StartThrows(s)
       \/ stopOffline(s) \/ stop(s) \/ Stopped(s)
       \/ Deliver(s)
  \/ Rest

(* The bridge loses nothing and every call is answered; whether a stream   *)
(* ends, and when somebody stops it, is not fair.                          *)
Fairness ==
  \A s \in Streams :
    /\ WF_vars(Deliver(s))
    /\ WF_vars(GoStarts(s))
    /\ WF_vars(attach(s) \/ cancel(s) \/ StartThrows(s))
    /\ WF_vars(Stopped(s))

Spec     == Init /\ [][Next]_vars
FairSpec == Spec /\ Fairness

-----------------------------------------------------------------------------
(* Properties.                                                             *)

(* "Chunks buffer while the stream id is still unknown": from listen() to  *)
(* the close every event of the stream is heard, buffered or on its way,   *)
(* in the order the Go side emitted it and exactly once.                   *)
NothingLost ==
  \A s \in listening :
    heard[s] \o pending[s][s] \o bus[s] =
      [i \in 1..Len(feed[s]) |-> [id |-> s, at |-> i]]

(* A subscription that is over holds no listener, and one whose id is      *)
(* known and that is not over holds its listeners: neither a deaf open     *)
(* subscription nor a listener that outlives its stream.                   *)
ListensWhileOpen ==
  \A s \in Streams :
    /\ s \in closed => s \notin listening
    /\ Known(s) /\ s \notin closed => s \in listening

(* A handler is told of the close at most once and hears nothing after it. *)
(* Nothing is heard at all of a stream that could not be started.          *)
ClosesOnce ==
  [][\A s \in Streams :
       /\ s \in closed => heard'[s] = heard[s] /\ outcome'[s] = outcome[s]
       /\ call'[s] \in {"failed", "broken"} => heard'[s] = <<>>]_vars

(* The subscription delivers what StreamDelivery promises. *)
Outcome(s) ==
  IF s \in closed /\ outcome[s] = "open" THEN "never" ELSE outcome[s]
Delivery == INSTANCE StreamDelivery WITH outcome <- [s \in Streams |-> Outcome(s)]
DeliversTheFeed == Delivery!DeliverySpec

(* A stop() ends the subscription, whether or not the Go side could stop   *)
(* the stream.                                                             *)
StopEnds == \A s \in Streams : (stops[s] > 0) ~> (s \in closed)

(* A stream that closed on the Go side is closed for its subscriber too,   *)
(* also when it closed before its id was known, unless the bridge broke.   *)
CloseArrives ==
  \A s \in Streams :
    FeedClosed(s) ~> (s \in closed \/ call[s] = "broken")

(* Whichever side ends a stream, the subscription ends: neither a stop() the *)
(* Go side could not carry out nor an early close leaves it open.            *)
SubscriptionsEnd == StopEnds /\ CloseArrives
=============================================================================
