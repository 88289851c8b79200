------------------------------ MODULE Channels ------------------------------
(***************************************************************************)
(* The channel half of the Go ChannelService: websockets opened over a     *)
(* session (exec, attach), each read by a goroutine of its own, written by *)
(* the calls that hold its write mutex.                                    *)
(*                                                                         *)
(* A member of Chans is one Open call and the channel it may publish;      *)
(* a member of Callers is one Close call, one of Writers one Write or      *)
(* Resize call.  Unlike a stream, a channel is published only once its     *)
(* socket is live: the slot it will take is counted apart until then.      *)
(***************************************************************************)
EXTENDS SessionRegistry, Naturals, Sequences

CONSTANTS
  Chans,        \* Open calls
  Callers,      \* Close calls
  Writers,      \* Write and Resize calls
  MaxChannels,  \* maxConcurrentChannels
  MaxData,      \* bound: data events one channel may emit
  TimersFire,   \* whether stopWaitTimeout may pass before the reader ends
  None          \* no session, no channel

ASSUME ChannelLimit == MaxChannels \in Nat \ {0}
ASSUME ChannelBound == MaxData \in Nat /\ TimersFire \in BOOLEAN
ASSUME ChannelNone  == None \notin Sessions /\ None \notin Chans

VARIABLES
  channels,  \* ChannelService.channels, the handles published
  opening,   \* ChannelService.openingChannels
  phase,     \* how far the goroutine behind a channel has come
  session,   \* the session the call looked up
  cancelled, \* handles whose own cancel() has been called
  done,      \* handles whose done channel is closed
  events,    \* what the emitter sent for a channel, in order
  closer,    \* the Close calls
  writer,    \* the Write and Resize calls
  shut,      \* how far the shutdown has come
  pending    \* closeAllChannels' handles still to be waited for

chanVars == <<channels, opening, phase, session, cancelled, done, events>>
callVars == <<closer, writer, shut, pending>>
vars     == <<sessionVars, chanVars, callVars>>

-----------------------------------------------------------------------------
Opening == {"dialing", "sizing"}
Reading == {"reading", "drainedNil", "drainedErr", "reported", "removed"}
Phases  == {"idle", "looked", "refused", "ended"} \cup Opening \cup Reading

CloseStatuses == {"closed", "eof", "failed"}
Events        == {"data", "error"} \cup CloseStatuses

(* Mutant: the handle's context is a child of the background context. *)
CtxDoneOrphan(c) == c \in cancelled

(* handle.ctx.Err() # nil: its own cancel or its session's. *)
CtxDone(c) ==
  \/ c \in cancelled
  \/ session[c] \in Sessions /\ sessionCtx[session[c]] = "cancelled"

(* The deferred CloseNow has not run yet. *)
SocketOpen(c) == phase[c] \in {"reading", "drainedNil", "drainedErr"}

Init ==
  /\ SessionsInit
  /\ channels = {}
  /\ opening = 0
  /\ phase = [c \in Chans |-> "idle"]
  /\ session = [c \in Chans |-> None]
  /\ cancelled = {} /\ done = {}
  /\ events = [c \in Chans |-> <<>>]
  /\ closer = [a \in Callers |-> [pc |-> "idle", on |-> None]]
  /\ writer = [w \in Writers |-> [pc |-> "idle", on |-> None]]
  /\ shut = "up"
  /\ pending = {}

Connect(k)      == shut = "up" /\ Add(k) /\ UNCHANGED <<chanVars, callVars>>
Disconnect(k)   == Remove(k) /\ UNCHANGED <<chanVars, callVars>>
CloseSession(k) == CloseOne(k) /\ UNCHANGED <<chanVars, callVars>>

-----------------------------------------------------------------------------
(* Open.                                                                   *)

Open(c, k) ==
  /\ shut = "up"
  /\ phase[c] = "idle"
  /\ IF k \in registry
     THEN /\ phase' = [phase EXCEPT ![c] = "looked"]
          /\ session' = [session EXCEPT ![c] = k]
     ELSE /\ phase' = [phase EXCEPT ![c] = "refused"]
          /\ UNCHANGED session
  /\ UNCHANGED <<channels, opening, cancelled, done, events,
                 sessionVars, callVars>>

(* Mutant: the limit looks at the published channels only. *)
reservePublishedOnly(c) ==
  /\ phase[c] = "looked"
  /\ IF Cardinality(channels) >= MaxChannels
     THEN phase' = [phase EXCEPT ![c] = "refused"] /\ UNCHANGED opening
     ELSE phase' = [phase EXCEPT ![c] = "dialing"] /\ opening' = opening + 1
  /\ UNCHANGED <<channels, session, cancelled, done, events,
                 sessionVars, callVars>>

reserveChannel(c) ==
  /\ phase[c] = "looked"
  /\ IF Cardinality(channels) + opening >= MaxChannels
     THEN phase' = [phase EXCEPT ![c] = "refused"] /\ UNCHANGED opening
     ELSE phase' = [phase EXCEPT ![c] = "dialing"] /\ opening' = opening + 1
  /\ UNCHANGED <<channels, session, cancelled, done, events,
                 sessionVars, callVars>>

(* The handshake is done; a terminal sends its size before it is published. *)
Dialed(c) ==
  /\ phase[c] = "dialing"
  /\ ~CtxDone(c)
  /\ phase' = [phase EXCEPT ![c] = "sizing"]
  /\ UNCHANGED <<channels, opening, session, cancelled, done, events,
                 sessionVars, callVars>>

(* The dial or the first resize fails: nobody else knows the handle, so    *)
(* its cancel and the release of its slot are one step for the others.     *)
abandonChannel(c) ==
  /\ phase[c] \in Opening
  /\ phase' = [phase EXCEPT ![c] = "refused"]
  /\ cancelled' = cancelled \cup {c}
  /\ opening' = opening - 1
  /\ UNCHANGED <<channels, session, done, events, sessionVars, callVars>>

addChannel(c) ==
  /\ phase[c] = "sizing"
  /\ phase' = [phase EXCEPT ![c] = "reading"]
  /\ channels' = channels \cup {c}
  /\ opening' = opening - 1
  /\ UNCHANGED <<session, cancelled, done, events, sessionVars, callVars>>

-----------------------------------------------------------------------------
(* readChannel.                                                            *)

(* A frame of stdout or stderr; status frames and empty ones emit nothing. *)
Data(c) ==
  /\ phase[c] = "reading"
  /\ Len(events[c]) < MaxData
  /\ events' = [events EXCEPT ![c] = Append(@, "data")]
  /\ UNCHANGED <<channels, opening, phase, session, cancelled, done,
                 sessionVars, callVars>>

(* conn.Read fails: the server closed normally, or anything else. *)
Drained(c) ==
  /\ phase[c] = "reading"
  /\ \E p \in {"drainedNil", "drainedErr"} : phase' = [phase EXCEPT ![c] = p]
  /\ UNCHANGED <<channels, opening, session, cancelled, done, events,
                 sessionVars, callVars>>

Farewell(c) ==
  IF CtxDone(c) THEN <<"closed">>
  ELSE IF phase[c] = "drainedNil" THEN <<"eof">>
  ELSE <<"error", "failed">>

Report(c) ==
  /\ phase[c] \in {"drainedNil", "drainedErr"}
  /\ phase' = [phase EXCEPT ![c] = "reported"]
  /\ events' = [events EXCEPT ![c] = @ \o Farewell(c)]
  /\ UNCHANGED <<channels, opening, session, cancelled, done,
                 sessionVars, callVars>>

(* CloseNow, cancel and removeChannel, and then close(done). *)
removeChannel(c) ==
  /\ phase[c] = "reported"
  /\ phase' = [phase EXCEPT ![c] = "removed"]
  /\ channels' = channels \ {c}
  /\ cancelled' = cancelled \cup {c}
  /\ UNCHANGED <<opening, session, done, events, sessionVars, callVars>>

ReaderDone(c) ==
  /\ phase[c] = "removed"
  /\ phase' = [phase EXCEPT ![c] = "ended"]
  /\ done' = done \cup {c}
  /\ UNCHANGED <<channels, opening, session, cancelled, events,
                 sessionVars, callVars>>

-----------------------------------------------------------------------------
(* Close.  The webview knows the id once Open answered, and keeps it.      *)

Knowable(c) == phase[c] \in Reading \cup {"ended"}

CloseCall(a, c) ==
  /\ shut = "up"
  /\ closer[a].pc = "idle" /\ Knowable(c)
  /\ closer' = [closer EXCEPT ![a] =
       [pc |-> IF c \in channels THEN "found" ELSE "unknown", on |-> c]]
  /\ UNCHANGED <<writer, shut, pending, sessionVars, chanVars>>

CloseCancels(a) ==
  /\ closer[a].pc = "found"
  /\ closer' = [closer EXCEPT ![a].pc = "waiting"]
  /\ cancelled' = cancelled \cup {closer[a].on}
  /\ UNCHANGED <<channels, opening, phase, session, done, events,
                 writer, shut, pending, sessionVars>>

awaitDone(a) ==
  /\ closer[a].pc = "waiting"
  /\ \/ closer[a].on \in done /\ closer' = [closer EXCEPT ![a].pc = "answered"]
     \/ TimersFire /\ closer' = [closer EXCEPT ![a].pc = "timedOut"]
  /\ UNCHANGED <<writer, shut, pending, sessionVars, chanVars>>

-----------------------------------------------------------------------------
(* Write and Resize: look the handle up, take its write mutex, send.       *)

Write(w, c) ==
  /\ shut = "up"
  /\ writer[w].pc = "idle" /\ Knowable(c)
  /\ writer' = [writer EXCEPT ![w] =
       IF c \in channels THEN [pc |-> "queued", on |-> c]
                         ELSE [pc |-> "failed", on |-> c]]
  /\ UNCHANGED <<closer, shut, pending, sessionVars, chanVars>>

Holds(w, c) == writer[w].pc = "sending" /\ writer[w].on = c

send(w) ==
  /\ writer[w].pc = "queued"
  /\ \A v \in Writers : ~Holds(v, writer[w].on)
  /\ writer' = [writer EXCEPT ![w].pc = "sending"]
  /\ UNCHANGED <<closer, shut, pending, sessionVars, chanVars>>

Sent(w) ==
  /\ writer[w].pc = "sending"
  /\ SocketOpen(writer[w].on) /\ ~CtxDone(writer[w].on)
  /\ writer' = [writer EXCEPT ![w].pc = "sent"]
  /\ UNCHANGED <<closer, shut, pending, sessionVars, chanVars>>

(* The context ends, the socket is gone, or the network fails. *)
SendFails(w) ==
  /\ writer[w].pc = "sending"
  /\ writer' = [writer EXCEPT ![w].pc = "failed"]
  /\ UNCHANGED <<closer, shut, pending, sessionVars, chanVars>>

-----------------------------------------------------------------------------
(* ServiceShutdown, and the connection service's after it.                 *)

closeAllChannels ==
  /\ shut = "up"
  /\ shut' = "cancelling"
  /\ pending' = channels
  /\ UNCHANGED <<closer, writer, sessionVars, chanVars>>

CloseAllCancel ==
  /\ shut = "cancelling"
  /\ shut' = "waiting"
  /\ cancelled' = cancelled \cup pending
  /\ UNCHANGED <<channels, opening, phase, session, done, events,
                 closer, writer, pending, sessionVars>>

CloseAllAwait(c) ==
  /\ shut = "waiting" /\ c \in pending
  /\ c \in done \/ TimersFire
  /\ pending' = pending \ {c}
  /\ UNCHANGED <<closer, writer, shut, sessionVars, chanVars>>

RegistryCloses ==
  /\ shut = "waiting" /\ pending = {}
  /\ shut' = "down"
  /\ CloseAll
  /\ UNCHANGED <<closer, writer, pending, chanVars>>

-----------------------------------------------------------------------------
OpenStep(c)  == reserveChannel(c) \/ Dialed(c) \/ abandonChannel(c) \/ addChannel(c)
ReadStep(c)  == Data(c) \/ Drained(c) \/ Report(c) \/ removeChannel(c) \/ ReaderDone(c)
CloseStep(a) == CloseCancels(a) \/ awaitDone(a)
WriteStep(w) == send(w) \/ Sent(w) \/ SendFails(w)
ShutStep     == CloseAllCancel \/ (\E c \in Chans : CloseAllAwait(c)) \/ RegistryCloses

Exit ==
  /\ shut = "down" /\ closing = {}
  /\ \A c \in Chans : phase[c] \in {"idle", "refused", "ended"}
  /\ \A a \in Callers : closer[a].pc \notin {"found", "waiting"}
  /\ \A w \in Writers : writer[w].pc \notin {"queued", "sending"}
  /\ UNCHANGED vars

Next ==
  \/ \E k \in Sessions : Connect(k) \/ Disconnect(k) \/ CloseSession(k)
  \/ \E c \in Chans, k \in Sessions : Open(c, k)
  \/ \E c \in Chans : OpenStep(c) \/ ReadStep(c)
  \/ \E a \in Callers, c \in Chans : CloseCall(a, c)
  \/ \E a \in Callers : CloseStep(a)
  \/ \E w \in Writers, c \in Chans : Write(w, c)
  \/ \E w \in Writers : WriteStep(w)
  \/ closeAllChannels \/ ShutStep
  \/ Exit

(* Runnable goroutines run; a dial, a read or a write in flight ends for   *)
(* certain only when the context of its channel does.  A mutex is handed   *)
(* to every goroutine that waits for it (Go's starvation mode).            *)
Fairness ==
  /\ \A k \in Sessions : WF_vars(CloseSession(k))
  /\ \A c \in Chans :
       /\ WF_vars(reserveChannel(c)) /\ WF_vars(addChannel(c))
       /\ WF_vars(CtxDone(c) /\ abandonChannel(c))
       /\ WF_vars(CtxDone(c) /\ Drained(c))
       /\ WF_vars(Report(c)) /\ WF_vars(removeChannel(c)) /\ WF_vars(ReaderDone(c))
  /\ \A a \in Callers : WF_vars(CloseStep(a))
  /\ \A w \in Writers :
       /\ SF_vars(send(w))
       /\ WF_vars(/\ writer[w].pc = "sending" /\ CtxDone(writer[w].on)
                  /\ SendFails(w))
  /\ WF_vars(ShutStep)

Spec     == Init /\ [][Next]_vars
FairSpec == Spec /\ Fairness

-----------------------------------------------------------------------------
(* Properties.                                                             *)

(* Every variable keeps its type. *)
TypeOK ==
  /\ SessionsTypeOK
  /\ channels \subseteq Chans
  /\ opening \in Nat
  /\ phase \in [Chans -> Phases]
  /\ session \in [Chans -> Sessions \cup {None}]
  /\ cancelled \subseteq Chans /\ done \subseteq Chans
  /\ events \in [Chans -> Seq(Events)]
  /\ closer \in [Callers -> [pc : {"idle", "found", "unknown", "waiting", "answered", "timedOut"},
                             on : Chans \cup {None}]]
  /\ writer \in [Writers -> [pc : {"idle", "queued", "sending", "sent", "failed"},
                             on : Chans \cup {None}]]
  /\ shut \in {"up", "cancelling", "waiting", "down"}
  /\ pending \subseteq Chans

(* A slot is counted from before the dial until the reader has drained the *)
(* socket, once and never twice: the counter of the opening ones is exact, *)
(* and sockets dialed, sized and read together stay within the limit.      *)
Dialing == {c \in Chans : phase[c] \in Opening}
SlotsAccounted ==
  /\ IsFiniteSet(Dialing) /\ IsFiniteSet(channels)
  /\ opening = Cardinality(Dialing)
  /\ Cardinality(channels) + opening <= MaxChannels
  /\ \A c \in Chans : SocketOpen(c) => c \in channels

(* A closed session, or the shutdown, ends every channel opened over it,   *)
(* the ones the snapshot of closeAllChannels missed too.                   *)
DisconnectEndsChannels ==
  \A k \in Sessions : (sessionCtx[k] = "cancelled") ~>
    [](\A c \in Chans : session[c] = k => c \notin channels /\ phase[c] \notin Opening)
ShutdownEndsChannels == (shut # "up") ~> [](channels = {} /\ opening = 0)

(* A call blocked in a write holds the mutex the other writers wait for:   *)
(* closing the channel gives every one of them an answer.                  *)
CloseFreesWriters ==
  \A w \in Writers :
    (writer[w].pc \in {"queued", "sending"} /\ writer[w].on \in cancelled)
      ~> (writer[w].pc \in {"sent", "failed"})

(* Whoever ends a channel, and whatever hangs in it, the channel is gone and *)
(* the calls that waited for it are answered.                                *)
ChannelsEnd == DisconnectEndsChannels /\ ShutdownEndsChannels /\ CloseFreesWriters
=============================================================================
