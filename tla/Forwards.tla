------------------------------ MODULE Forwards ------------------------------
(***************************************************************************)
(* The port forwards of the Go ChannelService: a local listener whose      *)
(* accept loop has a goroutine, and for each connection it accepts one     *)
(* more goroutine, which dials the target and pumps both ways.             *)
(*                                                                         *)
(* A member of Fwds is one StartForward call and the forward it may start, *)
(* a member of Conns one local client, of Callers one StopForward call.    *)
(* A target is a version: the number of retargets made before it was read. *)
(***************************************************************************)
EXTENDS SessionRegistry, Naturals, Sequences

CONSTANTS
  Fwds, Conns, Callers,
  Ports,         \* local ports a forward may ask for
  MaxForwards,   \* maxConcurrentForwards
  MaxRetargets,  \* bound: retargets of one forward
  MaxErrors,     \* bound: error events recorded of one forward
  FwdNone        \* no session, no forward, no port

ASSUME ForwardLimit == MaxForwards \in Nat \ {0}
ASSUME ForwardBound == MaxRetargets \in Nat /\ MaxErrors \in Nat
ASSUME ForwardNone  == FwdNone \notin Sessions \cup Fwds \cup Ports

VARIABLES
  forwards,   \* ChannelService.forwards, the handles published
  opening,    \* ChannelService.openingForwards
  phase,      \* how far StartForward and then the accept loop have come
  fwdSession, \* the session the call looked up
  port,       \* the local port asked for
  listening,  \* forwards whose listener is open
  fwdTarget,  \* the version of the path and of the port to dial
  cancelled,  \* handles whose own cancel() has been called
  done,       \* handles whose done channel is closed
  events,     \* the error and close events of a forward, in order
  fwdConn,    \* the connections, each with the goroutine that serves it
  stopper,    \* the StopForward calls
  shut,       \* how far the shutdown has come
  pending     \* stopAllForwards' handles still to be waited for

fwdVars  == <<forwards, opening, phase, fwdSession, port, listening, fwdTarget,
              cancelled, done, events>>
stopVars == <<stopper, shut, pending>>
forwardsVars     == <<sessionVars, fwdVars, fwdConn, stopVars>>

-----------------------------------------------------------------------------
Opening == {"binding", "bound"}
Running == {"accepting", "leaving", "draining"}
Phases  == {"idle", "looked", "refused", "removed", "reported", "ended"}
           \cup Opening \cup Running

CtxDone(f) ==
  \/ f \in cancelled
  \/ fwdSession[f] \in Sessions /\ sessionCtx[fwdSession[f]] = "cancelled"

(* Connections between group.Add and group.Done. *)
Active(f) == {x \in Conns : fwdConn[x].on = f /\ fwdConn[x].pc # "gone"}

(* The connection's own context, a child of the forward's. *)
ConnCtxDone(x) == fwdConn[x].cut \/ CtxDone(fwdConn[x].on)

Unborn == [pc |-> "idle", on |-> FwdNone, path |-> 0, port |-> 0, since |-> 0,
           writing |-> FALSE, remote |-> FALSE, cut |-> FALSE]

ForwardsInit ==
  /\ SessionsInit
  /\ forwards = {} /\ opening = 0
  /\ phase = [f \in Fwds |-> "idle"]
  /\ fwdSession = [f \in Fwds |-> FwdNone]
  /\ port = [f \in Fwds |-> FwdNone]
  /\ listening = {}
  /\ fwdTarget = [f \in Fwds |-> 0]
  /\ cancelled = {} /\ done = {}
  /\ events = [f \in Fwds |-> <<>>]
  /\ fwdConn = [x \in Conns |-> Unborn]
  /\ stopper = [a \in Callers |-> [pc |-> "idle", on |-> FwdNone]]
  /\ shut = "up" /\ pending = {}

Connect(k)      == shut = "up" /\ Add(k) /\ UNCHANGED <<fwdVars, fwdConn, stopVars>>
Disconnect(k)   == Remove(k) /\ UNCHANGED <<fwdVars, fwdConn, stopVars>>
CloseSession(k) == CloseOne(k) /\ UNCHANGED <<fwdVars, fwdConn, stopVars>>

-----------------------------------------------------------------------------
(* StartForward.                                                           *)

(* An unknown session or a port out of range is refused at once. *)
StartForward(f, k, p) ==
  /\ shut = "up"
  /\ phase[f] = "idle"
  /\ \/ /\ k \in registry
        /\ phase' = [phase EXCEPT ![f] = "looked"]
        /\ fwdSession' = [fwdSession EXCEPT ![f] = k]
        /\ port' = [port EXCEPT ![f] = p]
     \/ /\ phase' = [phase EXCEPT ![f] = "refused"]
        /\ UNCHANGED <<fwdSession, port>>
  /\ UNCHANGED <<forwards, opening, listening, fwdTarget, cancelled, done, events,
                 fwdConn, sessionVars, stopVars>>

reserveForward(f) ==
  /\ phase[f] = "looked"
  /\ IF Cardinality(forwards) + opening >= MaxForwards
     THEN phase' = [phase EXCEPT ![f] = "refused"] /\ UNCHANGED opening
     ELSE phase' = [phase EXCEPT ![f] = "binding"] /\ opening' = opening + 1
  /\ UNCHANGED <<forwards, fwdSession, port, listening, fwdTarget, cancelled, done,
                 events, fwdConn, sessionVars, stopVars>>

(* net.Listen: the operating system gives a port to one listener at a time. *)
PortFree(p) == \A g \in listening : port[g] # p

Listen(f) ==
  /\ phase[f] = "binding"
  /\ PortFree(port[f])
  /\ phase' = [phase EXCEPT ![f] = "bound"]
  /\ listening' = listening \cup {f}
  /\ UNCHANGED <<forwards, opening, fwdSession, port, fwdTarget, cancelled, done,
                 events, fwdConn, sessionVars, stopVars>>

(* The port is taken or may not be bound. *)
abandonForward(f) ==
  /\ phase[f] = "binding"
  /\ phase' = [phase EXCEPT ![f] = "refused"]
  /\ opening' = opening - 1
  /\ UNCHANGED <<forwards, fwdSession, port, listening, fwdTarget, cancelled, done,
                 events, fwdConn, sessionVars, stopVars>>

addForward(f) ==
  /\ phase[f] = "bound"
  /\ phase' = [phase EXCEPT ![f] = "accepting"]
  /\ forwards' = forwards \cup {f}
  /\ opening' = opening - 1
  /\ UNCHANGED <<fwdSession, port, listening, fwdTarget, cancelled, done, events,
                 fwdConn, sessionVars, stopVars>>

-----------------------------------------------------------------------------
(* The accept loop.                                                        *)

Accept(f, x) ==
  /\ phase[f] = "accepting" /\ f \in listening
  /\ fwdConn[x].pc = "idle"
  /\ fwdConn' = [fwdConn EXCEPT ![x].pc = "accepted", ![x].on = f,
                                ![x].since = fwdTarget[f]]
  /\ UNCHANGED <<sessionVars, fwdVars, stopVars>>

Said(f, e) ==
  IF e = "error" /\ Len(events[f]) >= MaxErrors THEN events
  ELSE [events EXCEPT ![f] = Append(@, e)]

(* Accept fails, because somebody closed the listener or on its own: the   *)
(* loop is left, with an error unless the context had ended.               *)
AcceptFails(f) ==
  /\ phase[f] = "accepting"
  /\ phase' = [phase EXCEPT ![f] = "leaving"]
  /\ events' = IF CtxDone(f) THEN events ELSE Said(f, "error")
  /\ UNCHANGED <<forwards, opening, fwdSession, port, listening, fwdTarget, cancelled,
                 done, fwdConn, sessionVars, stopVars>>

Leave(f) ==
  /\ phase[f] = "leaving"
  /\ phase' = [phase EXCEPT ![f] = "draining"]
  /\ cancelled' = cancelled \cup {f}
  /\ listening' = listening \ {f}
  /\ UNCHANGED <<forwards, opening, fwdSession, port, fwdTarget, done, events, fwdConn,
                 sessionVars, stopVars>>

(* Mutant: the loop does not wait for its connections. *)
removeUnwaited(f) ==
  /\ phase[f] = "draining"
  /\ phase' = [phase EXCEPT ![f] = "removed"]
  /\ forwards' = forwards \ {f}
  /\ UNCHANGED <<opening, fwdSession, port, listening, fwdTarget, cancelled, done,
                 events, fwdConn, sessionVars, stopVars>>

(* group.Wait, then the handle leaves the map. *)
removeForward(f) ==
  /\ phase[f] = "draining"
  /\ Active(f) = {}
  /\ phase' = [phase EXCEPT ![f] = "removed"]
  /\ forwards' = forwards \ {f}
  /\ UNCHANGED <<opening, fwdSession, port, listening, fwdTarget, cancelled, done,
                 events, fwdConn, sessionVars, stopVars>>

(* The close event; which status it carries was settled when Accept failed. *)
ForwardCloses(f) ==
  /\ phase[f] = "removed"
  /\ phase' = [phase EXCEPT ![f] = "reported"]
  /\ events' = Said(f, "close")
  /\ UNCHANGED <<forwards, opening, fwdSession, port, listening, fwdTarget, cancelled,
                 done, fwdConn, sessionVars, stopVars>>

LoopDone(f) ==
  /\ phase[f] = "reported"
  /\ phase' = [phase EXCEPT ![f] = "ended"]
  /\ done' = done \cup {f}
  /\ UNCHANGED <<forwards, opening, fwdSession, port, listening, fwdTarget, cancelled,
                 events, fwdConn, sessionVars, stopVars>>

-----------------------------------------------------------------------------
(* serveForward, on the goroutine of the connection.                       *)

Retarget(f) ==
  /\ shut = "up" /\ f \in forwards
  /\ fwdTarget[f] < MaxRetargets
  /\ fwdTarget' = [fwdTarget EXCEPT ![f] = @ + 1]
  /\ UNCHANGED <<forwards, opening, phase, fwdSession, port, listening, cancelled,
                 done, events, fwdConn, sessionVars, stopVars>>

(* target() reads the path and the port under one lock. *)
Serve(x) ==
  /\ fwdConn[x].pc = "accepted"
  /\ fwdConn' = [fwdConn EXCEPT ![x].pc = "dialing",
                                ![x].path = fwdTarget[fwdConn[x].on],
                                ![x].port = fwdTarget[fwdConn[x].on]]
  /\ UNCHANGED <<sessionVars, fwdVars, stopVars>>

Quits(x, c, complains) ==
  /\ fwdConn' = [fwdConn EXCEPT ![x] = c]
  /\ events' = IF complains THEN Said(fwdConn[x].on, "error") ELSE events
  /\ UNCHANGED <<forwards, opening, phase, fwdSession, port, listening, fwdTarget,
                 cancelled, done, sessionVars, stopVars>>

(* The dial or the port announcement fails. *)
DialFails(x) ==
  /\ fwdConn[x].pc = "dialing"
  /\ Quits(x, [fwdConn[x] EXCEPT !.pc = "gone", !.cut = TRUE], TRUE)

(* Mutant: the port is read again for the announcement. *)
AnnouncedLate(x) ==
  /\ fwdConn[x].pc = "dialing" /\ ~ConnCtxDone(x)
  /\ fwdConn' = [fwdConn EXCEPT ![x].pc = "piping", ![x].remote = TRUE,
                                ![x].port = fwdTarget[fwdConn[x].on]]
  /\ UNCHANGED <<sessionVars, fwdVars, stopVars>>

Announced(x) ==
  /\ fwdConn[x].pc = "dialing" /\ ~ConnCtxDone(x)
  /\ fwdConn' = [fwdConn EXCEPT ![x].pc = "piping", ![x].remote = TRUE]
  /\ UNCHANGED <<sessionVars, fwdVars, stopVars>>

(* pumpToRemote ends: the client hung up, the local socket was closed, or  *)
(* the remote took no more.  Its defer cancels the connection.             *)
RemotePumpEnds(x) ==
  /\ fwdConn[x].pc \in {"piping", "closing"} /\ fwdConn[x].remote
  /\ fwdConn' = [fwdConn EXCEPT ![x].remote = FALSE, ![x].cut = TRUE]
  /\ UNCHANGED <<sessionVars, fwdVars, stopVars>>

(* pumpToLocal has a frame for the client, who may be slow to take it: the *)
(* write ends with the client, not with the context.                       *)
LocalWrites(x) ==
  /\ fwdConn[x].pc = "piping" /\ ~fwdConn[x].writing
  /\ fwdConn' = [fwdConn EXCEPT ![x].writing = TRUE]
  /\ UNCHANGED <<sessionVars, fwdVars, stopVars>>

LocalTakes(x) ==
  /\ fwdConn[x].pc = "piping" /\ fwdConn[x].writing
  /\ fwdConn' = [fwdConn EXCEPT ![x].writing = FALSE]
  /\ UNCHANGED <<sessionVars, fwdVars, stopVars>>

(* The error channel carried something. *)
RemoteComplains(x) ==
  /\ fwdConn[x].pc = "piping" /\ ~fwdConn[x].writing
  /\ Quits(x, fwdConn[x], TRUE)

(* conn.Read fails: an error is reported unless the context had ended or   *)
(* the server closed normally.  The local socket goes, and the other pump  *)
(* with it.                                                                *)
LocalPumpEnds(x) ==
  /\ fwdConn[x].pc = "piping" /\ ~fwdConn[x].writing
  /\ \E complains \in {FALSE, ~ConnCtxDone(x)} :
       Quits(x, [fwdConn[x] EXCEPT !.pc = "closing", !.cut = TRUE], complains)

(* The client hung up while a frame was written to it. *)
LocalWriteFails(x) ==
  /\ fwdConn[x].pc = "piping" /\ fwdConn[x].writing
  /\ Quits(x, [fwdConn[x] EXCEPT !.pc = "closing", !.writing = FALSE, !.cut = TRUE], FALSE)

Gone(x) ==
  /\ fwdConn[x].pc = "closing" /\ ~fwdConn[x].remote
  /\ fwdConn' = [fwdConn EXCEPT ![x].pc = "gone"]
  /\ UNCHANGED <<sessionVars, fwdVars, stopVars>>

-----------------------------------------------------------------------------
(* StopForward and the shutdown.                                           *)

Knowable(f) == phase[f] \in Running \cup {"removed", "reported", "ended"}

StopForward(a, f) ==
  /\ shut = "up"
  /\ stopper[a].pc = "idle" /\ Knowable(f)
  /\ stopper' = [stopper EXCEPT ![a] =
       [pc |-> IF f \in forwards THEN "found" ELSE "unknown", on |-> f]]
  /\ UNCHANGED <<shut, pending, fwdConn, sessionVars, fwdVars>>

stopForward(a) ==
  /\ stopper[a].pc = "found"
  /\ stopper' = [stopper EXCEPT ![a].pc = "cancelled"]
  /\ cancelled' = cancelled \cup {stopper[a].on}
  /\ UNCHANGED <<forwards, opening, phase, fwdSession, port, listening, fwdTarget,
                 done, events, shut, pending, fwdConn, sessionVars>>

(* Mutant: the listener is left to the accept loop, which nobody wakes. *)
StopKeepsListener(a) ==
  /\ stopper[a].pc = "cancelled"
  /\ stopper' = [stopper EXCEPT ![a].pc = "waiting"]
  /\ UNCHANGED <<shut, pending, fwdConn, sessionVars, fwdVars>>

StopClosesListener(a) ==
  /\ stopper[a].pc = "cancelled"
  /\ stopper' = [stopper EXCEPT ![a].pc = "waiting"]
  /\ listening' = listening \ {stopper[a].on}
  /\ UNCHANGED <<forwards, opening, phase, fwdSession, port, fwdTarget, cancelled,
                 done, events, shut, pending, fwdConn, sessionVars>>

awaitDone(a) ==
  /\ stopper[a].pc = "waiting"
  /\ \/ stopper[a].on \in done /\ stopper' = [stopper EXCEPT ![a].pc = "answered"]
     \/ stopper' = [stopper EXCEPT ![a].pc = "timedOut"]
  /\ UNCHANGED <<shut, pending, fwdConn, sessionVars, fwdVars>>

stopAllForwards ==
  /\ shut = "up"
  /\ shut' = "cancelling"
  /\ pending' = forwards
  /\ UNCHANGED <<stopper, fwdConn, sessionVars, fwdVars>>

StopAllCancel ==
  /\ shut = "cancelling"
  /\ shut' = "waiting"
  /\ cancelled' = cancelled \cup pending
  /\ listening' = listening \ pending
  /\ UNCHANGED <<forwards, opening, phase, fwdSession, port, fwdTarget, done, events,
                 stopper, pending, fwdConn, sessionVars>>

StopAllAwait(f) ==
  /\ shut = "waiting" /\ f \in pending
  /\ pending' = pending \ {f}
  /\ UNCHANGED <<stopper, shut, fwdConn, sessionVars, fwdVars>>

RegistryCloses ==
  /\ shut = "waiting" /\ pending = {}
  /\ shut' = "down"
  /\ CloseAll
  /\ UNCHANGED <<stopper, pending, fwdVars, fwdConn>>

-----------------------------------------------------------------------------
StartStep(f) == reserveForward(f) \/ Listen(f) \/ abandonForward(f) \/ addForward(f)
LoopStep(f) ==
  AcceptFails(f) \/ Leave(f) \/ removeForward(f) \/ ForwardCloses(f) \/ LoopDone(f)
ConnStep(x) ==
  \/ Serve(x) \/ DialFails(x) \/ Announced(x) \/ RemotePumpEnds(x)
  \/ LocalWrites(x) \/ LocalTakes(x) \/ RemoteComplains(x)
  \/ LocalPumpEnds(x) \/ LocalWriteFails(x) \/ Gone(x)
StopStep(a) == stopForward(a) \/ StopClosesListener(a) \/ awaitDone(a)
ShutStep == StopAllCancel \/ (\E f \in Fwds : StopAllAwait(f)) \/ RegistryCloses

Exit ==
  /\ shut = "down" /\ closing = {}
  /\ UNCHANGED forwardsVars

ForwardsNext ==
  \/ \E k \in Sessions : Connect(k) \/ Disconnect(k) \/ CloseSession(k)
  \/ \E f \in Fwds, k \in Sessions, p \in Ports : StartForward(f, k, p)
  \/ \E f \in Fwds : StartStep(f) \/ LoopStep(f) \/ Retarget(f)
  \/ \E f \in Fwds, x \in Conns : Accept(f, x)
  \/ \E x \in Conns : ConnStep(x)
  \/ \E a \in Callers, f \in Fwds : StopForward(a, f)
  \/ \E a \in Callers : StopStep(a)
  \/ stopAllForwards \/ ShutStep
  \/ Exit

(* Goroutines that can run do; a dial or a read ends for certain once its  *)
(* context has, an Accept once its listener is closed, a read of the local *)
(* socket once it is closed.  Every client takes what is written to it or  *)
(* hangs up, and a frame that arrives after the context ended is not       *)
(* written any more.                                                       *)
ForwardsFairness ==
  /\ \A k \in Sessions : WF_forwardsVars(CloseSession(k))
  /\ \A f \in Fwds :
       /\ WF_forwardsVars(reserveForward(f))
       /\ WF_forwardsVars(Listen(f) \/ abandonForward(f))
       /\ WF_forwardsVars(addForward(f))
       /\ WF_forwardsVars(f \notin listening /\ AcceptFails(f))
       /\ WF_forwardsVars(Leave(f)) /\ WF_forwardsVars(removeForward(f))
       /\ WF_forwardsVars(ForwardCloses(f)) /\ WF_forwardsVars(LoopDone(f))
  /\ \A x \in Conns :
       /\ WF_forwardsVars(Serve(x)) /\ WF_forwardsVars(Gone(x))
       /\ WF_forwardsVars(fwdConn[x].pc = "dialing" /\ ConnCtxDone(x) /\ DialFails(x))
       /\ SF_forwardsVars(fwdConn[x].pc = "piping" /\ ConnCtxDone(x) /\ LocalPumpEnds(x))
       /\ WF_forwardsVars(fwdConn[x].pc = "closing" /\ RemotePumpEnds(x))
       /\ WF_forwardsVars(LocalTakes(x) \/ LocalWriteFails(x))
  /\ \A a \in Callers : WF_forwardsVars(StopStep(a))
  /\ WF_forwardsVars(ShutStep)

ForwardsSpec     == ForwardsInit /\ [][ForwardsNext]_forwardsVars
ForwardsFairSpec == ForwardsSpec /\ ForwardsFairness

-----------------------------------------------------------------------------
(* Properties.                                                             *)

(* Every variable keeps its type. *)
Connections ==
  [pc : {"idle", "accepted", "dialing", "piping", "closing", "gone"},
   on : Fwds \cup {FwdNone}, path : Nat, port : Nat, since : Nat,
   writing : BOOLEAN, remote : BOOLEAN, cut : BOOLEAN]
ForwardsTypeOK ==
  /\ SessionsTypeOK
  /\ forwards \subseteq Fwds /\ opening \in Nat
  /\ phase \in [Fwds -> Phases]
  /\ fwdSession \in [Fwds -> Sessions \cup {FwdNone}]
  /\ port \in [Fwds -> Ports \cup {FwdNone}]
  /\ listening \subseteq Fwds
  /\ fwdTarget \in [Fwds -> 0..MaxRetargets]
  /\ cancelled \subseteq Fwds /\ done \subseteq Fwds
  /\ events \in [Fwds -> Seq({"error", "close"})]
  /\ fwdConn \in [Conns -> Connections]
  /\ stopper \in [Callers -> [pc : {"idle", "found", "unknown", "cancelled", "waiting",
                                    "answered", "timedOut"}, on : Fwds \cup {FwdNone}]]
  /\ shut \in {"up", "cancelling", "waiting", "down"}
  /\ pending \subseteq Fwds

(* The close event is the last word of a forward: it comes after every     *)
(* connection is over, so that no error of one can follow it.              *)
CloseIsLast ==
  \A f \in Fwds : \A i \in 1..Len(events[f]) :
    events[f][i] = "close" => i = Len(events[f]) /\ Active(f) = {}

(* A connection announces the port that belongs to the path it dialled,    *)
(* and a retarget reaches every connection accepted after it.              *)
DialsOneTarget ==
  \A x \in Conns : fwdConn[x].pc \in {"dialing", "piping", "closing"} =>
    /\ fwdConn[x].port = fwdConn[x].path
    /\ fwdConn[x].path >= fwdConn[x].since

(* However a StopForward ends, its port is free; and when it ends because  *)
(* the accept loop did, the forward is gone with all its connections.      *)
StopFreesPort ==
  \A a \in Callers :
    /\ stopper[a].pc \in {"waiting", "answered", "timedOut"} =>
         stopper[a].on \notin listening
    /\ stopper[a].pc = "answered" =>
         stopper[a].on \notin forwards /\ Active(stopper[a].on) = {}

(* StopForward ends the forward, provided its clients take what is written *)
(* to them.                                                                *)
StopEndsForward ==
  \A a \in Callers, f \in Fwds :
    (stopper[a].pc = "found" /\ stopper[a].on = f) ~> [](f \notin forwards)
=============================================================================
