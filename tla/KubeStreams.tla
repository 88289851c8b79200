---------------------------- MODULE KubeStreams ----------------------------
(***************************************************************************)
(* The streaming half of the Go backend: the session registry with the    *)
(* connection service that fills and empties it, and the kube service,    *)
(* whose streams live over a session and are read by one goroutine each.  *)
(*                                                                         *)
(* A member of Streams is one StartStream call and the stream it may open; *)
(* ids are fresh (newID), so a member is used once.  The same goes for     *)
(* Sessions and for Callers, each of which is one StopStream call.         *)
(* Between two actions any other goroutine may run: the places where the   *)
(* code holds no lock are the borders between the actions.                 *)
(***************************************************************************)
EXTENDS SessionRegistry, Naturals, Sequences

CONSTANTS
  Streams,     \* StartStream calls
  Callers,     \* StopStream calls
  MaxStreams,  \* maxConcurrentStreams
  MaxChunks,   \* bound: chunk events one stream may emit
  Late,        \* streams whose reader may outlast stopWaitTimeout
  None         \* a stream call that has not looked up its session yet

ASSUME LimitAssumption == MaxStreams \in Nat \ {0}
ASSUME BoundAssumption == MaxChunks \in Nat
ASSUME NoneAssumption  == None \notin Sessions
ASSUME LateAssumption  == Late \subseteq Streams

VARIABLES
  streams,     \* KubeService.streams, the handles registered
  phase,       \* how far the goroutine behind a stream has come
  session,     \* the session the call looked up
  cancelled,   \* handles whose own cancel() has been called
  asked,       \* history: handles cancelled by StopStream or by shutdown
  done,        \* handles whose done channel is closed
  events,      \* what the emitter sent for a stream, in order
  stopper,     \* the StopStream calls
  shut,        \* how far the shutdown of the services has come
  pending      \* stopAll's copy of the handles it still has to wait for

streamVars  == <<streams, phase, session, cancelled, asked, done, events>>
stopVars    == <<stopper, shut, pending>>
vars        == <<sessionVars, streamVars, stopVars>>

-----------------------------------------------------------------------------
(* What the goroutine of a stream is doing. *)
Starting == {"looked", "opening", "failing", "released"}
Pumping  == {"reading", "drainedNil", "drainedErr", "reported", "removed"}
Phases   == {"idle", "refused", "ended"} \cup Starting \cup Pumping

(* A stream that holds a request or a response body. *)
Live == {"opening", "reading", "drainedNil", "drainedErr"}

CloseStatuses == {"stopped", "eof", "failed"}
Events        == {"chunk", "error"} \cup CloseStatuses
StopStates    == {"idle", "found", "unknown", "waiting", "answered", "timedOut"}
ShutStates    == {"up", "cancelling", "waiting", "down"}

(* Mutant: the handle's context is a child of the background context. *)
CtxDoneOrphan(s) == s \in cancelled

(* handle.ctx.Err() # nil: its own cancel or its session's. *)
CtxDone(s) ==
  \/ s \in cancelled
  \/ session[s] \in Sessions /\ sessionCtx[session[s]] = "cancelled"

Init ==
  /\ SessionsInit
  /\ streams = {}
  /\ phase = [s \in Streams |-> "idle"]
  /\ session = [s \in Streams |-> None]
  /\ cancelled = {}
  /\ asked = {}
  /\ done = {}
  /\ events = [s \in Streams |-> <<>>]
  /\ stopper = [c \in Callers |-> [pc |-> "idle", on |-> {}]]
  /\ shut = "up"
  /\ pending = {}

-----------------------------------------------------------------------------
(* ConnectionService and SessionRegistry.                                  *)

Connect(k) ==
  /\ shut = "up"
  /\ Add(k)
  /\ UNCHANGED <<streamVars, stopVars>>

Disconnect(k) ==
  /\ Remove(k)
  /\ UNCHANGED <<streamVars, stopVars>>

CloseSession(k) ==
  /\ CloseOne(k)
  /\ UNCHANGED <<streamVars, stopVars>>

-----------------------------------------------------------------------------
(* StartStream, on the goroutine of the call.                              *)

StartStream(s, k) ==
  /\ shut = "up"
  /\ phase[s] = "idle"
  /\ IF k \in registry
     THEN /\ phase' = [phase EXCEPT ![s] = "looked"]
          /\ session' = [session EXCEPT ![s] = k]
     ELSE /\ phase' = [phase EXCEPT ![s] = "refused"]
          /\ UNCHANGED session
  /\ UNCHANGED <<streams, cancelled, asked, done, events, sessionVars, stopVars>>

(* Mutant: the limit counts only the streams already reading. *)
registerReadersOnly(s) ==
  /\ phase[s] = "looked"
  /\ IF Cardinality({t \in streams : phase[t] = "reading"}) >= MaxStreams
     THEN /\ phase' = [phase EXCEPT ![s] = "refused"]
          /\ cancelled' = cancelled \cup {s}
          /\ UNCHANGED streams
     ELSE /\ phase' = [phase EXCEPT ![s] = "opening"]
          /\ streams' = streams \cup {s}
          /\ UNCHANGED cancelled
  /\ UNCHANGED <<session, asked, done, events, sessionVars, stopVars>>

register(s) ==
  /\ phase[s] = "looked"
  /\ IF Cardinality(streams) >= MaxStreams
     THEN /\ phase' = [phase EXCEPT ![s] = "refused"]
          /\ cancelled' = cancelled \cup {s}
          /\ UNCHANGED streams
     ELSE /\ phase' = [phase EXCEPT ![s] = "opening"]
          /\ streams' = streams \cup {s}
          /\ UNCHANGED cancelled
  /\ UNCHANGED <<session, asked, done, events, sessionVars, stopVars>>

(* Client.Do answers 2xx and the pump is started.  A context that ends     *)
(* after the answer and before the pump is a context that ends later.      *)
Opened(s) ==
  /\ phase[s] = "opening"
  /\ ~CtxDone(s)
  /\ phase' = [phase EXCEPT ![s] = "reading"]
  /\ UNCHANGED <<streams, session, cancelled, asked, done, events,
                 sessionVars, stopVars>>

(* The request cannot be built, Do fails, or the answer is not 2xx. *)
OpenFailed(s) ==
  /\ phase[s] = "opening"
  /\ phase' = [phase EXCEPT ![s] = "failing"]
  /\ UNCHANGED <<streams, session, cancelled, asked, done, events,
                 sessionVars, stopVars>>

(* release: remove under the lock, cancel, and only then close(done). *)
release(s) ==
  /\ phase[s] = "failing"
  /\ phase' = [phase EXCEPT ![s] = "released"]
  /\ streams' = streams \ {s}
  /\ cancelled' = cancelled \cup {s}
  /\ UNCHANGED <<session, asked, done, events, sessionVars, stopVars>>

ReleaseDone(s) ==
  /\ phase[s] = "released"
  /\ phase' = [phase EXCEPT ![s] = "refused"]
  /\ done' = done \cup {s}
  /\ UNCHANGED <<streams, session, cancelled, asked, events,
                 sessionVars, stopVars>>

-----------------------------------------------------------------------------
(* pump, on the goroutine of the stream.                                   *)

(* drainLines and drainRaw emit what they read; data already buffered is   *)
(* emitted after a cancel as well.                                         *)
Chunk(s) ==
  /\ phase[s] = "reading"
  /\ Len(events[s]) < MaxChunks
  /\ events' = [events EXCEPT ![s] = Append(@, "chunk")]
  /\ UNCHANGED <<streams, phase, session, cancelled, asked, done,
                 sessionVars, stopVars>>

DrainedToEof(s) ==
  /\ phase[s] = "reading"
  /\ phase' = [phase EXCEPT ![s] = "drainedNil"]
  /\ UNCHANGED <<streams, session, cancelled, asked, done, events,
                 sessionVars, stopVars>>

(* Mutant: a failed read cancels its own handle before the switch. *)
DrainFailedCancels(s) ==
  /\ phase[s] = "reading"
  /\ phase' = [phase EXCEPT ![s] = "drainedErr"]
  /\ cancelled' = cancelled \cup {s}
  /\ UNCHANGED <<streams, session, asked, done, events, sessionVars, stopVars>>

(* Mutant: done is closed when the read fails, ahead of the close event. *)
DrainFailedSignals(s) ==
  /\ phase[s] = "reading"
  /\ phase' = [phase EXCEPT ![s] = "drainedErr"]
  /\ done' = done \cup {s}
  /\ UNCHANGED <<streams, session, cancelled, asked, events, sessionVars, stopVars>>

(* Mutant: the reader emits the error it failed with itself. *)
DrainFailedEmits(s) ==
  /\ phase[s] = "reading"
  /\ phase' = [phase EXCEPT ![s] = "drainedErr"]
  /\ events' = [events EXCEPT ![s] = Append(@, "error")]
  /\ UNCHANGED <<streams, session, cancelled, asked, done, sessionVars, stopVars>>

DrainFailed(s) ==
  /\ phase[s] = "reading"
  /\ phase' = [phase EXCEPT ![s] = "drainedErr"]
  /\ UNCHANGED <<streams, session, cancelled, asked, done, events,
                 sessionVars, stopVars>>

(* The switch after drain: a context that ended meanwhile wins over both   *)
(* results.  The error and its close are emitted back to back.             *)
Farewell(s) ==
  IF CtxDone(s) THEN <<"stopped">>
  ELSE IF phase[s] = "drainedNil" THEN <<"eof">>
  ELSE <<"error", "failed">>

Report(s) ==
  /\ phase[s] \in {"drainedNil", "drainedErr"}
  /\ phase' = [phase EXCEPT ![s] = "reported"]
  /\ events' = [events EXCEPT ![s] = @ \o Farewell(s)]
  /\ UNCHANGED <<streams, session, cancelled, asked, done,
                 sessionVars, stopVars>>

(* The deferred calls in their order: Body.Close and cancel, remove, and   *)
(* last close(done).                                                       *)
Unregister(s) ==
  /\ phase[s] = "reported"
  /\ phase' = [phase EXCEPT ![s] = "removed"]
  /\ streams' = streams \ {s}
  /\ cancelled' = cancelled \cup {s}
  /\ UNCHANGED <<session, asked, done, events, sessionVars, stopVars>>

PumpDone(s) ==
  /\ phase[s] = "removed"
  /\ phase' = [phase EXCEPT ![s] = "ended"]
  /\ done' = done \cup {s}
  /\ UNCHANGED <<streams, session, cancelled, asked, events,
                 sessionVars, stopVars>>

-----------------------------------------------------------------------------
(* StopStream, on the goroutine of its call.                               *)

Knowable(s) == phase[s] \notin {"idle", "looked"}

StopStream(c, s) ==
  /\ shut = "up"
  /\ stopper[c].pc = "idle"
  /\ Knowable(s)
  /\ stopper' = [stopper EXCEPT ![c] =
       [pc |-> IF s \in streams THEN "found" ELSE "unknown", on |-> {s}]]
  /\ UNCHANGED <<shut, pending, sessionVars, streamVars>>

stop(c) ==
  /\ stopper[c].pc = "found"
  /\ cancelled' = cancelled \cup stopper[c].on
  /\ asked' = asked \cup stopper[c].on
  /\ stopper' = [stopper EXCEPT ![c].pc = "waiting"]
  /\ UNCHANGED <<streams, phase, session, done, events, sessionVars, shut, pending>>

StopAnswered(c) ==
  /\ stopper[c].pc = "waiting"
  /\ stopper[c].on \subseteq done
  /\ stopper' = [stopper EXCEPT ![c].pc = "answered"]
  /\ UNCHANGED <<shut, pending, sessionVars, streamVars>>

StopTimedOut(c) ==
  /\ stopper[c].pc = "waiting"
  /\ stopper[c].on \cap Late # {}
  /\ stopper' = [stopper EXCEPT ![c].pc = "timedOut"]
  /\ UNCHANGED <<shut, pending, sessionVars, streamVars>>

-----------------------------------------------------------------------------
(* Shutdown.  main.go lists the services so that the kube service is shut  *)
(* down before the connection service.  No new call is taken once it has   *)
(* begun; the calls in flight go on.                                       *)

StopAllSnapshot ==
  /\ shut = "up"
  /\ shut' = "cancelling"
  /\ pending' = streams
  /\ UNCHANGED <<stopper, sessionVars, streamVars>>

StopAllCancel ==
  /\ shut = "cancelling"
  /\ shut' = "waiting"
  /\ cancelled' = cancelled \cup pending
  /\ asked' = asked \cup pending
  /\ UNCHANGED <<streams, phase, session, done, events, sessionVars,
                 stopper, pending>>

(* Mutant: stopAll does not wait for the readers. *)
StopAllNextUnwaited(s) ==
  /\ shut = "waiting"
  /\ s \in pending
  /\ pending' = pending \ {s}
  /\ UNCHANGED <<stopper, shut, sessionVars, streamVars>>

StopAllNext(s) ==
  /\ shut = "waiting"
  /\ s \in pending
  /\ s \in done \cup Late
  /\ pending' = pending \ {s}
  /\ UNCHANGED <<stopper, shut, sessionVars, streamVars>>

RegistryClose ==
  /\ shut = "waiting"
  /\ pending = {}
  /\ shut' = "down"
  /\ CloseAll
  /\ UNCHANGED <<stopper, pending, streamVars>>

-----------------------------------------------------------------------------
StartStep(s) ==
  register(s) \/ Opened(s) \/ OpenFailed(s) \/ release(s) \/ ReleaseDone(s)

PumpStep(s) ==
  \/ Chunk(s) \/ DrainedToEof(s) \/ DrainFailed(s)
  \/ Report(s) \/ Unregister(s) \/ PumpDone(s)

StopStep(c) == stop(c) \/ StopAnswered(c) \/ StopTimedOut(c)

ShutdownStep ==
  StopAllCancel \/ (\E s \in Streams : StopAllNext(s)) \/ RegistryClose

(* Everything has come to rest: the process exits. *)
Exit ==
  /\ shut = "down"
  /\ closing = {}
  /\ \A s \in Streams : phase[s] \in {"idle", "refused", "ended"}
  /\ \A c \in Callers : stopper[c].pc \notin {"found", "waiting"}
  /\ UNCHANGED vars

Next ==
  \/ \E k \in Sessions : Connect(k) \/ Disconnect(k) \/ CloseSession(k)
  \/ \E s \in Streams, k \in Sessions : StartStream(s, k)
  \/ \E s \in Streams : StartStep(s) \/ PumpStep(s)
  \/ \E c \in Callers, s \in Streams : StopStream(c, s)
  \/ \E c \in Callers : StopStep(c)
  \/ StopAllSnapshot \/ ShutdownStep
  \/ Exit

(* Goroutines that are runnable run.  A request or a body in flight ends   *)
(* for certain only when its context has; what the user does is not fair.  *)
Fairness ==
  /\ \A k \in Sessions : WF_vars(CloseSession(k))
  /\ \A s \in Streams :
       /\ WF_vars(register(s)) /\ WF_vars(release(s)) /\ WF_vars(ReleaseDone(s))
       /\ WF_vars(CtxDone(s) /\ OpenFailed(s))
       /\ WF_vars(CtxDone(s) /\ DrainFailed(s))
       /\ WF_vars(Report(s)) /\ WF_vars(Unregister(s)) /\ WF_vars(PumpDone(s))
  /\ \A c \in Callers : WF_vars(StopStep(c))
  /\ WF_vars(ShutdownStep)

Spec     == Init /\ [][Next]_vars
FairSpec == Spec /\ Fairness

-----------------------------------------------------------------------------
(* Properties.                                                             *)

(* Every variable keeps its type. *)
TypeOK ==
  /\ SessionsTypeOK
  /\ streams \subseteq Streams
  /\ phase \in [Streams -> Phases]
  /\ session \in [Streams -> Sessions \cup {None}]
  /\ cancelled \subseteq Streams
  /\ asked \subseteq Streams
  /\ done \subseteq Streams
  /\ events \in [Streams -> Seq(Events)]
  /\ stopper \in [Callers -> [pc : StopStates, on : SUBSET Streams]]
  /\ shut \in ShutStates
  /\ pending \subseteq Streams

(* What KubeStreams emits is what StreamFeed lets the webview expect: the  *)
(* composition with StreamBridge, which consumes such a feed.              *)
Feed == INSTANCE StreamFeed WITH feed <- events
KeepsTheFeed == Feed!FeedSpec

(* Requests being opened and bodies being read together never exceed       *)
(* maxConcurrentStreams: the check and the insertion are one critical      *)
(* section, a call is counted before its request goes out, and a handle    *)
(* leaves the map only after its body is drained.                          *)
LiveWithinLimit ==
  /\ IsFiniteSet({s \in Streams : phase[s] \in Live})
  /\ Cardinality({s \in Streams : phase[s] \in Live}) <= MaxStreams

(* What the webview hears of a stream is chunks, then at most one error,   *)
(* then one close, and nothing after the close; an error is heard only     *)
(* with a failed close.  A call answered with an error is never heard of.  *)
IsClosed(s) == \E i \in 1..Len(events[s]) : events[s][i] \in CloseStatuses
EventsWellFormed ==
  \A s \in Streams :
    /\ \A i \in 1..Len(events[s]) :
         /\ events[s][i] \in CloseStatuses => i = Len(events[s])
         /\ events[s][i] = "error" => \/ i + 1 = Len(events[s])
                                         /\ events[s][i + 1] = "failed"
    /\ phase[s] \in Starting \cup {"idle", "refused"} => events[s] = <<>>
    /\ phase[s] \in {"removed", "ended"} => IsClosed(s)

(* A stream reports "stopped" only when somebody stopped it: a StopStream  *)
(* call, the shutdown, or the end of its session.                          *)
StoppedOnlyWhenAsked ==
  \A s \in Streams : \A i \in 1..Len(events[s]) :
    events[s][i] = "stopped" =>
      s \in asked \/ sessionCtx[session[s]] = "cancelled"

(* A StopStream that found its stream unknown came after the close event   *)
(* of that stream, if it ever opened: no stream is out of reach of         *)
(* StopStream while it can still be heard.                                 *)
UnknownMeansClosed ==
  \A c \in Callers : stopper[c].pc = "unknown" =>
    \A s \in stopper[c].on :
      phase[s] \in {"released", "refused"} \/ IsClosed(s)

(* A stop is neither reported without a cause nor denied to somebody who   *)
(* can still hear the stream: the two parts tie what the webview is told   *)
(* to what StopStream and the shutdown did, whichever reader was first.    *)
StopsAreTrue == StoppedOnlyWhenAsked /\ UnknownMeansClosed

(* Once a StopStream has been answered because the stream ended, and not   *)
(* because its timer fired, that stream is out of the map for good and     *)
(* emits nothing more.                                                     *)
AnsweredMeansSilent ==
  [][\A c \in Callers : stopper[c].pc = "answered" =>
       \A s \in stopper[c].on : s \notin streams' /\ events'[s] = events[s]]_vars

(* main.go: "the stream service stops before the sessions it streams over  *)
(* are closed".  Unless its reader outlasted the timer, a stream that was  *)
(* told to stop is out of the map when the shutdown closes the sessions.   *)
StoppedBeforeSessionsClose ==
  shut = "down" => streams \cap asked \subseteq Late

(* A session that was disconnected eventually has no stream left, not even *)
(* one whose call had looked the session up before it was removed.         *)
DisconnectEndsStreams ==
  \A k \in Sessions : (sessionCtx[k] = "cancelled") ~>
    [](\A s \in Streams : session[s] = k => s \notin streams)

(* A shutdown ends every stream, the ones stopAll's snapshot missed too.   *)
ShutdownEndsStreams ==
  (shut # "up") ~> [](streams = {})

(* Both ends of a session end its streams, those in flight at the lookup   *)
(* and those stopAll's copy of the map missed among them.                  *)
StreamsEnd == DisconnectEndsStreams /\ ShutdownEndsStreams
=============================================================================
