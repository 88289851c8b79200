------------------------- MODULE KubeStreamsProofs --------------------------
(***************************************************************************)
(* Proofs about KubeStreams for any number of sessions, streams and        *)
(* callers and any limit.                                                  *)
(***************************************************************************)
EXTENDS KubeStreams, FiniteSetTheorems, SequenceTheorems, TLAPS

(* The phases in which a stream owns a slot. *)
Registered == {"opening", "failing", "reading", "drainedNil", "drainedErr", "reported"}

(* The map holds the handles between register and remove, no more of them  *)
(* than the limit allows.                                                  *)
SlotInv ==
  /\ \A s \in Streams : s \in streams <=> phase[s] \in Registered
  /\ IsFiniteSet(streams)
  /\ Cardinality(streams) <= MaxStreams

(* What has been emitted by the time a goroutine is in a phase. *)
Silent(s)   == events[s] = <<>>
OnlyData(s) == \A i \in 1..Len(events[s]) : events[s][i] = "chunk"
WellClosed(e) ==
  /\ \E i \in 1..Len(e) : e[i] \in CloseStatuses
  /\ \A i \in 1..Len(e) :
       /\ e[i] \in CloseStatuses => i = Len(e)
       /\ e[i] = "error" => i + 1 = Len(e) /\ e[i + 1] = "failed"
Farewelled(s) == WellClosed(events[s])

EventsInv ==
  \A s \in Streams :
    /\ phase[s] \in Starting \cup {"idle", "refused"} => Silent(s)
    /\ phase[s] \in {"reading", "drainedNil", "drainedErr"} => OnlyData(s)
    /\ phase[s] \in {"reported", "removed", "ended"} => Farewelled(s)

(* A handle is cancelled before its pump reports only by who asked for it, *)
(* and a "stopped" is the word of such a handle.                           *)
CancelInv ==
  \A s \in Streams :
    /\ /\ phase[s] \in {"idle", "looked", "opening", "reading", "drainedNil", "drainedErr"}
       /\ s \in cancelled
       => s \in asked
    /\ \A i \in 1..Len(events[s]) : events[s][i] = "stopped" =>
         s \in asked \/ sessionCtx[session[s]] = "cancelled"

(* done is closed at the very end, and the answers that rest on it. *)
DoneInv ==
  /\ \A s \in done : phase[s] \in {"refused", "ended"}
  /\ \A c \in Callers :
       /\ stopper[c].pc = "answered" => stopper[c].on \subseteq done
       /\ stopper[c].pc = "unknown" =>
            \A s \in stopper[c].on :
              phase[s] \in {"released", "refused", "removed", "ended"}

(* A stream somebody has told to stop or is about to: StopStream holds its *)
(* handle, or the shutdown has it on its list.                             *)
Told(s) ==
  \/ s \in asked \cup pending
  \/ \E c \in Callers : stopper[c].pc = "found" /\ s \in stopper[c].on

(* Who is told to stop has been in the map, so it does not enter it again; *)
(* once the shutdown has copied the map, those it does not wait for any    *)
(* more have left the map or outlasted the timer.  A StopStream that found *)
(* its handle before the copy and cancels it after is covered by Told.     *)
ShutInv ==
  /\ \A s \in Streams : Told(s) => phase[s] \notin {"idle", "looked"}
  /\ shut # "up" => \A s \in streams : Told(s) => s \in pending \cup Late
  /\ shut = "down" => pending = {}

IInv == TypeOK /\ SlotInv /\ EventsInv /\ CancelInv /\ DoneInv /\ ShutInv

-----------------------------------------------------------------------------
(* What the switch at the end of the pump emits is a sequence of events. *)
LEMMA FarewellType ==
  ASSUME NEW s
  PROVE  Farewell(s) \in Seq(Events)
<1>1. <<"stopped">> \in Seq(Events) /\ <<"eof">> \in Seq(Events)
  BY DEF Events, CloseStatuses
<1>2. <<"error", "failed">> \in Seq(Events)
  BY DEF Events, CloseStatuses
<1>. QED
  BY <1>1, <1>2 DEF Farewell

(* The variables keep their types, whatever the constants are. *)
LEMMA TypeInit == Init => TypeOK
  BY NoneAssumption DEF Init, SessionsInit, TypeOK, SessionsTypeOK, Phases, StopStates, ShutStates, Events

(* Every action keeps the types. *)
LEMMA TypeStep == TypeOK /\ [Next]_vars => TypeOK'
<1> SUFFICES ASSUME TypeOK, [Next]_vars PROVE TypeOK'
    OBVIOUS
<1> USE DEF TypeOK, SessionsTypeOK, Phases, Starting, Pumping, StopStates, ShutStates, Events, CloseStatuses
<1>1. ASSUME NEW k \in Sessions, Connect(k) PROVE TypeOK'
  BY <1>1 DEF Connect, Add, sessionVars, streamVars, stopVars
<1>2. ASSUME NEW k \in Sessions, Disconnect(k) PROVE TypeOK'
  BY <1>2 DEF Disconnect, Remove, sessionVars, streamVars, stopVars
<1>3. ASSUME NEW k \in Sessions, CloseSession(k) PROVE TypeOK'
  BY <1>3 DEF CloseSession, CloseOne, sessionVars, streamVars, stopVars
<1>4. ASSUME NEW s \in Streams, NEW k \in Sessions, StartStream(s, k) PROVE TypeOK'
  <2>1. session' \in [Streams -> Sessions \cup {None}]
    BY <1>4 DEF StartStream
  <2>2. phase' \in [Streams -> Phases]
    BY ZenonT(30), <1>4 DEF StartStream
  <2>. QED
    BY <1>4, <2>1, <2>2 DEF StartStream, sessionVars, stopVars
<1>5. ASSUME NEW s \in Streams, register(s) PROVE TypeOK'
  BY <1>5 DEF register, sessionVars, streamVars, stopVars
<1>6. ASSUME NEW s \in Streams, Opened(s) PROVE TypeOK'
  BY <1>6 DEF Opened, sessionVars, streamVars, stopVars
<1>7. ASSUME NEW s \in Streams, OpenFailed(s) PROVE TypeOK'
  BY <1>7 DEF OpenFailed, sessionVars, streamVars, stopVars
<1>8. ASSUME NEW s \in Streams, release(s) PROVE TypeOK'
  BY <1>8 DEF release, sessionVars, streamVars, stopVars
<1>9. ASSUME NEW s \in Streams, ReleaseDone(s) PROVE TypeOK'
  BY <1>9 DEF ReleaseDone, sessionVars, streamVars, stopVars
<1>10. ASSUME NEW s \in Streams, Chunk(s) PROVE TypeOK'
  BY <1>10 DEF Chunk, sessionVars, streamVars, stopVars
<1>11. ASSUME NEW s \in Streams, DrainedToEof(s) PROVE TypeOK'
  BY <1>11 DEF DrainedToEof, sessionVars, streamVars, stopVars
<1>12. ASSUME NEW s \in Streams, DrainFailed(s) PROVE TypeOK'
  BY <1>12 DEF DrainFailed, sessionVars, streamVars, stopVars
<1>13. ASSUME NEW s \in Streams, Report(s) PROVE TypeOK'
  <2>1. events[s] \o Farewell(s) \in Seq(Events)
    BY FarewellType, ConcatProperties
  <2>2. events' \in [Streams -> Seq(Events)]
    BY <1>13, <2>1 DEF Report
  <2>. QED
    BY <1>13, <2>2 DEF Report, sessionVars, stopVars
<1>14. ASSUME NEW s \in Streams, Unregister(s) PROVE TypeOK'
  BY <1>14 DEF Unregister, sessionVars, streamVars, stopVars
<1>15. ASSUME NEW s \in Streams, PumpDone(s) PROVE TypeOK'
  BY <1>15 DEF PumpDone, sessionVars, streamVars, stopVars
<1>16. ASSUME NEW c \in Callers, NEW s \in Streams, StopStream(c, s) PROVE TypeOK'
  BY <1>16 DEF StopStream, sessionVars, streamVars, stopVars
<1>17. ASSUME NEW c \in Callers, stop(c) PROVE TypeOK'
  BY <1>17 DEF stop, sessionVars, streamVars, stopVars
<1>18. ASSUME NEW c \in Callers, StopAnswered(c) PROVE TypeOK'
  BY <1>18 DEF StopAnswered, sessionVars, streamVars, stopVars
<1>19. ASSUME NEW c \in Callers, StopTimedOut(c) PROVE TypeOK'
  BY ZenonT(30), <1>19 DEF StopTimedOut, sessionVars, streamVars, stopVars
<1>20. CASE StopAllSnapshot
  BY <1>20 DEF StopAllSnapshot, sessionVars, streamVars, stopVars
<1>21. CASE StopAllCancel
  BY <1>21 DEF StopAllCancel, sessionVars, streamVars, stopVars
<1>22. ASSUME NEW s \in Streams, StopAllNext(s) PROVE TypeOK'
  BY <1>22 DEF StopAllNext, sessionVars, streamVars, stopVars
<1>23. CASE RegistryClose
  BY <1>23 DEF RegistryClose, CloseAll, sessionVars, streamVars, stopVars
<1>24. CASE Exit
  BY <1>24 DEF Exit, sessionVars, streamVars, stopVars, vars
<1>25. CASE UNCHANGED vars
  BY <1>25 DEF vars, sessionVars, streamVars, stopVars
<1>. QED
  BY <1>1, <1>2, <1>3, <1>4, <1>5, <1>6, <1>7, <1>8, <1>9, <1>10,
     <1>11, <1>12, <1>13, <1>14, <1>15, <1>16, <1>17, <1>18, <1>19,
     <1>20, <1>21, <1>22, <1>23, <1>24, <1>25
     DEF Next, StartStep, PumpStep, StopStep, ShutdownStep

(* The type invariant is inductive by itself. *)
THEOREM TypeCorrect == Spec => []TypeOK
  BY TypeInit, TypeStep, PTL DEF Spec

(* The map and the limit.  A handle is added only below the limit, and     *)
(* every other action that touches the map takes one handle out.           *)
LEMMA SlotStep == TypeOK /\ SlotInv /\ [Next]_vars => SlotInv'
<1> SUFFICES ASSUME TypeOK, SlotInv, [Next]_vars PROVE SlotInv'
    OBVIOUS
<1> USE DEF TypeOK, SessionsTypeOK, SlotInv, Registered
<1>1. ASSUME NEW k \in Sessions, Connect(k) PROVE SlotInv'
  BY <1>1 DEF Connect, Add, sessionVars, streamVars, stopVars
<1>2. ASSUME NEW k \in Sessions, Disconnect(k) PROVE SlotInv'
  BY <1>2 DEF Disconnect, Remove, sessionVars, streamVars, stopVars
<1>3. ASSUME NEW k \in Sessions, CloseSession(k) PROVE SlotInv'
  BY <1>3 DEF CloseSession, CloseOne, sessionVars, streamVars, stopVars
<1>4. ASSUME NEW s \in Streams, NEW k \in Sessions, StartStream(s, k) PROVE SlotInv'
  BY <1>4 DEF StartStream, sessionVars, streamVars, stopVars
<1>5. ASSUME NEW s \in Streams, register(s) PROVE SlotInv'
  <2>1. CASE Cardinality(streams) >= MaxStreams
    BY <1>5, <2>1 DEF register
  <2>2. CASE ~(Cardinality(streams) >= MaxStreams)
    <3>1. /\ IsFiniteSet(streams \cup {s})
          /\ Cardinality(streams \cup {s}) = Cardinality(streams) + 1
      BY <1>5, FS_AddElement DEF register
    <3>2. Cardinality(streams) \in Nat
      BY FS_CardinalityType
    <3>3. streams' = streams \cup {s} /\ phase' = [phase EXCEPT ![s] = "opening"]
      BY <1>5, <2>2 DEF register
    <3>. QED
      BY <2>2, <3>1, <3>2, <3>3, LimitAssumption
  <2>. QED
    BY <2>1, <2>2
<1>6. ASSUME NEW s \in Streams, Opened(s) PROVE SlotInv'
  BY <1>6 DEF Opened, sessionVars, streamVars, stopVars
<1>7. ASSUME NEW s \in Streams, OpenFailed(s) PROVE SlotInv'
  BY <1>7 DEF OpenFailed, sessionVars, streamVars, stopVars
<1>8. ASSUME NEW s \in Streams, release(s) PROVE SlotInv'
  <2>1. /\ streams' = streams \ {s}
        /\ phase' = [phase EXCEPT ![s] = "released"]
    BY <1>8 DEF release
  <2>2. /\ IsFiniteSet(streams')
        /\ Cardinality(streams') <= MaxStreams
    BY <2>1, FS_Subset, FS_CardinalityType, LimitAssumption
  <2>. QED
    BY <2>1, <2>2
<1>9. ASSUME NEW s \in Streams, ReleaseDone(s) PROVE SlotInv'
  BY <1>9 DEF ReleaseDone, sessionVars, streamVars, stopVars
<1>10. ASSUME NEW s \in Streams, Chunk(s) PROVE SlotInv'
  BY <1>10 DEF Chunk, sessionVars, streamVars, stopVars
<1>11. ASSUME NEW s \in Streams, DrainedToEof(s) PROVE SlotInv'
  BY <1>11 DEF DrainedToEof, sessionVars, streamVars, stopVars
<1>12. ASSUME NEW s \in Streams, DrainFailed(s) PROVE SlotInv'
  BY <1>12 DEF DrainFailed, sessionVars, streamVars, stopVars
<1>13. ASSUME NEW s \in Streams, Report(s) PROVE SlotInv'
  BY <1>13 DEF Report, sessionVars, streamVars, stopVars
<1>14. ASSUME NEW s \in Streams, Unregister(s) PROVE SlotInv'
  <2>1. /\ streams' = streams \ {s}
        /\ phase' = [phase EXCEPT ![s] = "removed"]
    BY <1>14 DEF Unregister
  <2>2. /\ IsFiniteSet(streams')
        /\ Cardinality(streams') <= MaxStreams
    BY <2>1, FS_Subset, FS_CardinalityType, LimitAssumption
  <2>. QED
    BY <2>1, <2>2
<1>15. ASSUME NEW s \in Streams, PumpDone(s) PROVE SlotInv'
  BY <1>15 DEF PumpDone, sessionVars, streamVars, stopVars
<1>16. ASSUME NEW c \in Callers, NEW s \in Streams, StopStream(c, s) PROVE SlotInv'
  BY <1>16 DEF StopStream, sessionVars, streamVars, stopVars
<1>17. ASSUME NEW c \in Callers, stop(c) PROVE SlotInv'
  BY <1>17 DEF stop, sessionVars, streamVars, stopVars
<1>18. ASSUME NEW c \in Callers, StopAnswered(c) PROVE SlotInv'
  BY <1>18 DEF StopAnswered, sessionVars, streamVars, stopVars
<1>19. ASSUME NEW c \in Callers, StopTimedOut(c) PROVE SlotInv'
  BY <1>19 DEF StopTimedOut, sessionVars, streamVars, stopVars
<1>20. CASE StopAllSnapshot
  BY <1>20 DEF StopAllSnapshot, sessionVars, streamVars, stopVars
<1>21. CASE StopAllCancel
  BY <1>21 DEF StopAllCancel, sessionVars, streamVars, stopVars
<1>22. ASSUME NEW s \in Streams, StopAllNext(s) PROVE SlotInv'
  BY <1>22 DEF StopAllNext, sessionVars, streamVars, stopVars
<1>23. CASE RegistryClose
  BY <1>23 DEF RegistryClose, CloseAll, sessionVars, streamVars, stopVars
<1>24. CASE Exit
  BY <1>24 DEF Exit, sessionVars, streamVars, stopVars, vars
<1>25. CASE UNCHANGED vars
  BY <1>25 DEF vars, sessionVars, streamVars, stopVars
<1>. QED
  BY <1>1, <1>2, <1>3, <1>4, <1>5, <1>6, <1>7, <1>8, <1>9, <1>10,
     <1>11, <1>12, <1>13, <1>14, <1>15, <1>16, <1>17, <1>18, <1>19,
     <1>20, <1>21, <1>22, <1>23, <1>24, <1>25
     DEF Next, StartStep, PumpStep, StopStep, ShutdownStep

(* Data followed by what the switch emits ends in its only close. *)
LEMMA FarewellShape ==
  ASSUME NEW e \in Seq(Events), \A i \in 1..Len(e) : e[i] = "chunk",
         NEW f \in {<<"stopped">>, <<"eof">>, <<"error", "failed">>}
  PROVE  WellClosed(e \o f)
<1>1. Len(e) \in Nat
  BY LenProperties
<1>2. f \in Seq(Events)
  <2>1. <<"stopped">> \in Seq(Events) /\ <<"eof">> \in Seq(Events)
    BY DEF Events, CloseStatuses
  <2>2. <<"error", "failed">> \in Seq(Events)
    BY DEF Events, CloseStatuses
  <2>. QED
    BY <2>1, <2>2
<1>3. /\ Len(e \o f) = Len(e) + Len(f)
      /\ \A i \in 1..(Len(e) + Len(f)) :
           (e \o f)[i] = IF i <= Len(e) THEN e[i] ELSE f[i - Len(e)]
  BY <1>2, ConcatProperties
<1> DEFINE n == Len(e)
           g == e \o f
<1>4. CASE f \in {<<"stopped">>, <<"eof">>}
  <2>1. Len(f) = 1 /\ f[1] \in CloseStatuses
    BY <1>4 DEF CloseStatuses
  <2>2. Len(g) = n + 1 /\ g[n + 1] \in CloseStatuses
    BY <1>1, <1>3, <2>1
  <2>3. \A i \in 1..n : g[i] = "chunk"
    BY <1>1, <1>3, <2>1
  <2>. HIDE DEF n, g
  <2>4. n + 1 \in 1..(n + 1) /\ \A i \in 1..(n + 1) : i \in 1..n \/ i = n + 1
    BY <1>1 DEF n
  <2>5. g[n + 1] # "error" /\ "chunk" \notin CloseStatuses
    <3>1. f[1] # "error"
      BY <1>4
    <3>. QED
      BY <1>1, <1>3, <2>1, <3>1 DEF n, g, CloseStatuses
  <2>6. /\ \E i \in 1..Len(g) : g[i] \in CloseStatuses
        /\ \A i \in 1..Len(g) :
             /\ g[i] \in CloseStatuses => i = Len(g)
             /\ g[i] # "error"
    BY <2>2, <2>3, <2>4, <2>5
  <2>. QED
    BY <2>6 DEF g, WellClosed
<1>5. CASE f = <<"error", "failed">>
  <2>1. Len(f) = 2 /\ f[1] = "error" /\ f[2] = "failed"
    BY <1>5
  <2>2. Len(g) = n + 2 /\ g[n + 1] = "error" /\ g[n + 2] = "failed"
    BY <1>1, <1>3, <2>1
  <2>3. \A i \in 1..n : g[i] = "chunk"
    BY <1>1, <1>3, <2>1
  <2>. HIDE DEF n, g
  <2>4. /\ n + 2 \in 1..(n + 2)
        /\ \A i \in 1..(n + 2) : i \in 1..n \/ i = n + 1 \/ i = n + 2
        /\ (n + 1) + 1 = n + 2
    BY <1>1 DEF n
  <2>5. "chunk" \notin CloseStatuses /\ "error" \notin CloseStatuses /\ "failed" \in CloseStatuses
    BY DEF CloseStatuses
  <2>6. /\ \E i \in 1..Len(g) : g[i] \in CloseStatuses
        /\ \A i \in 1..Len(g) :
             /\ g[i] \in CloseStatuses => i = Len(g)
             /\ g[i] = "error" => i + 1 = Len(g) /\ g[i + 1] = "failed"
    BY <2>2, <2>3, <2>4, <2>5
  <2>. QED
    BY <2>6 DEF g, WellClosed
<1>. QED
  BY <1>4, <1>5

(* What a stream has emitted fits the phase of its goroutine. *)
LEMMA EventsStep == TypeOK /\ EventsInv /\ [Next]_vars => EventsInv'
<1> SUFFICES ASSUME TypeOK, EventsInv, [Next]_vars PROVE EventsInv'
    OBVIOUS
<1> USE DEF TypeOK, SessionsTypeOK, EventsInv, Starting, Silent, OnlyData, Farewelled
<1>1. ASSUME NEW k \in Sessions, Connect(k) PROVE EventsInv'
  BY <1>1 DEF Connect, Add, sessionVars, streamVars, stopVars
<1>2. ASSUME NEW k \in Sessions, Disconnect(k) PROVE EventsInv'
  BY <1>2 DEF Disconnect, Remove, sessionVars, streamVars, stopVars
<1>3. ASSUME NEW k \in Sessions, CloseSession(k) PROVE EventsInv'
  BY <1>3 DEF CloseSession, CloseOne, sessionVars, streamVars, stopVars
<1>4. ASSUME NEW s \in Streams, NEW k \in Sessions, StartStream(s, k) PROVE EventsInv'
  <2>1. events' = events /\ phase[s] = "idle"
    BY <1>4 DEF StartStream
  <2>2. \/ phase' = [phase EXCEPT ![s] = "looked"]
        \/ phase' = [phase EXCEPT ![s] = "refused"]
    BY <1>4 DEF StartStream
  <2>3. /\ phase'[s] \in {"looked", "refused"}
        /\ \A t \in Streams : t # s => phase'[t] = phase[t]
    BY <2>2
  <2>4. ASSUME NEW t \in Streams
        PROVE  /\ (Silent(t)' <=> Silent(t)) /\ (OnlyData(t)' <=> OnlyData(t))
               /\ (Farewelled(t)' <=> Farewelled(t))
    BY <2>1
  <2>. QED
    <3>. HIDE DEF Silent, OnlyData, Farewelled
    <3>. QED
      BY <2>1, <2>3, <2>4
<1>5. ASSUME NEW s \in Streams, register(s) PROVE EventsInv'
  BY <1>5 DEF register, sessionVars, streamVars, stopVars
<1>6. ASSUME NEW s \in Streams, Opened(s) PROVE EventsInv'
  BY <1>6 DEF Opened, sessionVars, streamVars, stopVars
<1>7. ASSUME NEW s \in Streams, OpenFailed(s) PROVE EventsInv'
  BY <1>7 DEF OpenFailed, sessionVars, streamVars, stopVars
<1>8. ASSUME NEW s \in Streams, release(s) PROVE EventsInv'
  BY <1>8 DEF release, sessionVars, streamVars, stopVars
<1>9. ASSUME NEW s \in Streams, ReleaseDone(s) PROVE EventsInv'
  BY <1>9 DEF ReleaseDone, sessionVars, streamVars, stopVars
<1>10. ASSUME NEW s \in Streams, Chunk(s) PROVE EventsInv'
  <2>1. events' = [events EXCEPT ![s] = Append(@, "chunk")] /\ phase' = phase
    BY <1>10 DEF Chunk
  <2>2. phase[s] = "reading" /\ events[s] \in Seq(Events) /\ OnlyData(s)
    BY <1>10 DEF Chunk
  <2>3. OnlyData(s)'
    BY <2>1, <2>2
  <2>4. \A t \in Streams : t # s => events'[t] = events[t]
    BY <2>1
  <2>5. ASSUME NEW t \in Streams, t # s
        PROVE  /\ (Silent(t)' <=> Silent(t)) /\ (OnlyData(t)' <=> OnlyData(t))
               /\ (Farewelled(t)' <=> Farewelled(t))
    BY <2>4, <2>5
  <2>. QED
    <3>. HIDE DEF Silent, OnlyData, Farewelled
    <3>. QED
      BY <2>1, <2>2, <2>3, <2>5
<1>11. ASSUME NEW s \in Streams, DrainedToEof(s) PROVE EventsInv'
  BY <1>11 DEF DrainedToEof, sessionVars, streamVars, stopVars
<1>12. ASSUME NEW s \in Streams, DrainFailed(s) PROVE EventsInv'
  BY <1>12 DEF DrainFailed, sessionVars, streamVars, stopVars
<1>13. ASSUME NEW s \in Streams, Report(s) PROVE EventsInv'
  <2> DEFINE e == events[s]
             f == Farewell(s)
  <2>1. events' = [events EXCEPT ![s] = e \o f] /\ phase' = [phase EXCEPT ![s] = "reported"]
    BY <1>13 DEF Report
  <2>2. e \in Seq(Events) /\ OnlyData(s)
    BY <1>13 DEF Report
  <2>3. f \in {<<"stopped">>, <<"eof">>, <<"error", "failed">>}
    BY DEF Farewell
  <2>4. events'[s] = e \o f
    BY <2>1
  <2>5. Farewelled(s)'
    <3>1. \A i \in 1..Len(e) : e[i] = "chunk"
      BY <2>2
    <3>2. WellClosed(e \o f)
      <4>. HIDE DEF e, f
      <4>. QED
        BY <2>2, <2>3, <3>1, FarewellShape
    <3>. QED
      BY <2>4, <3>2
  <2>6. ASSUME NEW t \in Streams, t # s
        PROVE  /\ (Silent(t)' <=> Silent(t)) /\ (OnlyData(t)' <=> OnlyData(t))
               /\ (Farewelled(t)' <=> Farewelled(t)) /\ phase'[t] = phase[t]
    BY <2>1, <2>6
  <2>7. phase'[s] = "reported"
    BY <2>1
  <2>. QED
    <3>. HIDE DEF Silent, OnlyData, Farewelled
    <3>. QED
      BY <2>5, <2>6, <2>7
<1>14. ASSUME NEW s \in Streams, Unregister(s) PROVE EventsInv'
  BY <1>14 DEF Unregister, sessionVars, streamVars, stopVars
<1>15. ASSUME NEW s \in Streams, PumpDone(s) PROVE EventsInv'
  BY <1>15 DEF PumpDone, sessionVars, streamVars, stopVars
<1>16. ASSUME NEW c \in Callers, NEW s \in Streams, StopStream(c, s) PROVE EventsInv'
  BY <1>16 DEF StopStream, sessionVars, streamVars, stopVars
<1>17. ASSUME NEW c \in Callers, stop(c) PROVE EventsInv'
  BY <1>17 DEF stop, sessionVars, streamVars, stopVars
<1>18. ASSUME NEW c \in Callers, StopAnswered(c) PROVE EventsInv'
  BY <1>18 DEF StopAnswered, sessionVars, streamVars, stopVars
<1>19. ASSUME NEW c \in Callers, StopTimedOut(c) PROVE EventsInv'
  BY <1>19 DEF StopTimedOut, sessionVars, streamVars, stopVars
<1>20. CASE StopAllSnapshot
  BY <1>20 DEF StopAllSnapshot, sessionVars, streamVars, stopVars
<1>21. CASE StopAllCancel
  BY <1>21 DEF StopAllCancel, sessionVars, streamVars, stopVars
<1>22. ASSUME NEW s \in Streams, StopAllNext(s) PROVE EventsInv'
  BY <1>22 DEF StopAllNext, sessionVars, streamVars, stopVars
<1>23. CASE RegistryClose
  BY <1>23 DEF RegistryClose, CloseAll, sessionVars, streamVars, stopVars
<1>24. CASE Exit
  BY <1>24 DEF Exit, sessionVars, streamVars, stopVars, vars
<1>25. CASE UNCHANGED vars
  BY <1>25 DEF vars, sessionVars, streamVars, stopVars
<1>. QED
  BY <1>1, <1>2, <1>3, <1>4, <1>5, <1>6, <1>7, <1>8, <1>9, <1>10,
     <1>11, <1>12, <1>13, <1>14, <1>15, <1>16, <1>17, <1>18, <1>19,
     <1>20, <1>21, <1>22, <1>23, <1>24, <1>25
     DEF Next, StartStep, PumpStep, StopStep, ShutdownStep

(* A stream that was not told to stop does not say that it was. *)
LEMMA NotStoppedShape ==
  ASSUME NEW e \in Seq(Events), \A i \in 1..Len(e) : e[i] = "chunk",
         NEW f \in {<<"eof">>, <<"error", "failed">>}
  PROVE  \A i \in 1..Len(e \o f) : (e \o f)[i] # "stopped"
<1>1. Len(e) \in Nat
  BY LenProperties
<1>2. f \in Seq(Events)
  <2>1. <<"eof">> \in Seq(Events)
    BY DEF Events, CloseStatuses
  <2>2. <<"error", "failed">> \in Seq(Events)
    BY DEF Events, CloseStatuses
  <2>. QED
    BY <2>1, <2>2
<1>3. /\ Len(e \o f) = Len(e) + Len(f)
      /\ \A i \in 1..(Len(e) + Len(f)) :
           (e \o f)[i] = IF i <= Len(e) THEN e[i] ELSE f[i - Len(e)]
  BY <1>2, ConcatProperties
<1>4. Len(f) \in {1, 2} /\ \A j \in 1..Len(f) : f[j] # "stopped"
  <2>1. CASE f = <<"eof">>
    BY <2>1
  <2>2. CASE f = <<"error", "failed">>
    BY <2>2
  <2>. QED
    BY <2>1, <2>2
<1>5. ASSUME NEW i \in 1..Len(e \o f) PROVE (e \o f)[i] # "stopped"
  <2>1. CASE i <= Len(e)
    BY <1>1, <1>3, <1>4, <2>1
  <2>2. CASE ~(i <= Len(e))
    <3>1. i - Len(e) \in 1..Len(f)
      BY <1>1, <1>3, <1>4, <2>2
    <3>. QED
      BY <1>3, <1>4, <2>2, <3>1
  <2>. QED
    BY <2>1, <2>2
<1>. QED
  BY <1>5

(* No stream says it was stopped unless it was told to, or lost its session. *)
StoppedTruly(s) ==
  \A i \in 1..Len(events[s]) : events[s][i] = "stopped" =>
    s \in asked \/ sessionCtx[session[s]] = "cancelled"

(* Only a caller of StopStream, the shutdown or a session's end cancels a  *)
(* stream before its farewell.                                             *)
LEMMA CancelStep ==
  TypeOK /\ EventsInv /\ CancelInv /\ [Next]_vars => CancelInv'
<1> SUFFICES ASSUME TypeOK, EventsInv, CancelInv, [Next]_vars PROVE CancelInv'
    OBVIOUS
<1> USE DEF TypeOK, SessionsTypeOK, CancelInv
<1>1. ASSUME NEW k \in Sessions, Connect(k) PROVE CancelInv'
  BY <1>1 DEF Connect, Add, sessionVars, streamVars, stopVars
<1>2. ASSUME NEW k \in Sessions, Disconnect(k) PROVE CancelInv'
  BY <1>2 DEF Disconnect, Remove, sessionVars, streamVars, stopVars
<1>3. ASSUME NEW k \in Sessions, CloseSession(k) PROVE CancelInv'
  BY <1>3 DEF CloseSession, CloseOne, sessionVars, streamVars, stopVars
<1>4. ASSUME NEW s \in Streams, NEW k \in Sessions, StartStream(s, k) PROVE CancelInv'
  <2>1. events[s] = <<>> /\ phase[s] = "idle"
    BY <1>4 DEF StartStream, EventsInv, Silent
  <2>2. /\ UNCHANGED <<events, cancelled, asked, sessionCtx>>
        /\ phase'[s] \in {"looked", "refused"}
        /\ \A t \in Streams : t # s => phase'[t] = phase[t] /\ session'[t] = session[t]
    BY <1>4 DEF StartStream, sessionVars
  <2>. QED
    BY <2>1, <2>2
<1>5. ASSUME NEW s \in Streams, register(s) PROVE CancelInv'
  <2>1. /\ UNCHANGED <<events, asked, session, sessionCtx>>
        /\ phase[s] = "looked"
        /\ phase'[s] = "refused" \/ (phase'[s] = "opening" /\ cancelled' = cancelled)
        /\ \A t \in Streams : t # s =>
             phase'[t] = phase[t] /\ (t \in cancelled' <=> t \in cancelled)
    BY <1>5 DEF register, sessionVars
  <2>. QED
    BY <2>1
<1>6. ASSUME NEW s \in Streams, Opened(s) PROVE CancelInv'
  BY <1>6 DEF Opened, sessionVars, streamVars, stopVars
<1>7. ASSUME NEW s \in Streams, OpenFailed(s) PROVE CancelInv'
  BY <1>7 DEF OpenFailed, sessionVars, streamVars, stopVars
<1>8. ASSUME NEW s \in Streams, release(s) PROVE CancelInv'
  BY <1>8 DEF release, sessionVars, streamVars, stopVars
<1>9. ASSUME NEW s \in Streams, ReleaseDone(s) PROVE CancelInv'
  BY <1>9 DEF ReleaseDone, sessionVars, streamVars, stopVars
<1>10. ASSUME NEW s \in Streams, Chunk(s) PROVE CancelInv'
  <2>1. /\ events' = [events EXCEPT ![s] = Append(@, "chunk")]
        /\ UNCHANGED <<phase, session, cancelled, asked, sessionCtx>>
        /\ phase[s] = "reading"
    BY <1>10 DEF Chunk, sessionVars
  <2>2. \A i \in 1..Len(events'[s]) : events'[s][i] = "chunk"
    BY <2>1 DEF EventsInv, OnlyData
  <2>. QED
    BY <2>1, <2>2
<1>11. ASSUME NEW s \in Streams, DrainedToEof(s) PROVE CancelInv'
  BY <1>11 DEF DrainedToEof, sessionVars, streamVars, stopVars
<1>12. ASSUME NEW s \in Streams, DrainFailed(s) PROVE CancelInv'
  BY <1>12 DEF DrainFailed, sessionVars, streamVars, stopVars
<1>13. ASSUME NEW s \in Streams, Report(s) PROVE CancelInv'
  <2> DEFINE e == events[s]
             f == Farewell(s)
  <2>1. /\ events' = [events EXCEPT ![s] = e \o f]
        /\ phase[s] \in {"drainedNil", "drainedErr"}
        /\ phase' = [phase EXCEPT ![s] = "reported"]
        /\ UNCHANGED <<session, cancelled, asked, sessionCtx>>
    BY <1>13 DEF Report, sessionVars
  <2>2. StoppedTruly(s)'
    <3>1. CASE CtxDone(s)
      BY <2>1, <3>1 DEF CtxDone, StoppedTruly
    <3>2. CASE ~CtxDone(s)
      <4>1. f \in {<<"eof">>, <<"error", "failed">>}
        BY <3>2 DEF Farewell
      <4>2. e \in Seq(Events) /\ \A i \in 1..Len(e) : e[i] = "chunk"
        BY <2>1 DEF EventsInv, OnlyData
      <4>3. \A i \in 1..Len(e \o f) : (e \o f)[i] # "stopped"
        BY <4>1, <4>2, NotStoppedShape
      <4>4. events'[s] = e \o f
        BY <2>1
      <4>. QED
        BY <4>3, <4>4 DEF StoppedTruly
    <3>. QED
      BY <3>1, <3>2
  <2>. QED
    BY <2>1, <2>2 DEF StoppedTruly
<1>14. ASSUME NEW s \in Streams, Unregister(s) PROVE CancelInv'
  BY <1>14 DEF Unregister, sessionVars, streamVars, stopVars
<1>15. ASSUME NEW s \in Streams, PumpDone(s) PROVE CancelInv'
  BY <1>15 DEF PumpDone, sessionVars, streamVars, stopVars
<1>16. ASSUME NEW c \in Callers, NEW s \in Streams, StopStream(c, s) PROVE CancelInv'
  BY <1>16 DEF StopStream, sessionVars, streamVars, stopVars
<1>17. ASSUME NEW c \in Callers, stop(c) PROVE CancelInv'
  <2>1. /\ asked \subseteq asked'
        /\ \A s \in cancelled' : s \in cancelled \/ s \in asked'
        /\ UNCHANGED <<phase, session, events, sessionCtx>>
    BY <1>17 DEF stop, sessionVars
  <2>. QED
    BY <2>1
<1>18. ASSUME NEW c \in Callers, StopAnswered(c) PROVE CancelInv'
  BY <1>18 DEF StopAnswered, sessionVars, streamVars, stopVars
<1>19. ASSUME NEW c \in Callers, StopTimedOut(c) PROVE CancelInv'
  BY <1>19 DEF StopTimedOut, sessionVars, streamVars, stopVars
<1>20. CASE StopAllSnapshot
  BY <1>20 DEF StopAllSnapshot, sessionVars, streamVars, stopVars
<1>21. CASE StopAllCancel
  <2>1. /\ asked \subseteq asked'
        /\ \A s \in cancelled' : s \in cancelled \/ s \in asked'
        /\ UNCHANGED <<phase, session, events, sessionCtx>>
    BY <1>21 DEF StopAllCancel, sessionVars
  <2>. QED
    BY <2>1
<1>22. ASSUME NEW s \in Streams, StopAllNext(s) PROVE CancelInv'
  BY <1>22 DEF StopAllNext, sessionVars, streamVars, stopVars
<1>23. CASE RegistryClose
  BY <1>23 DEF RegistryClose, CloseAll, sessionVars, streamVars, stopVars
<1>24. CASE Exit
  BY <1>24 DEF Exit, sessionVars, streamVars, stopVars, vars
<1>25. CASE UNCHANGED vars
  BY <1>25 DEF vars, sessionVars, streamVars, stopVars
<1>. QED
  BY <1>1, <1>2, <1>3, <1>4, <1>5, <1>6, <1>7, <1>8, <1>9, <1>10,
     <1>11, <1>12, <1>13, <1>14, <1>15, <1>16, <1>17, <1>18, <1>19,
     <1>20, <1>21, <1>22, <1>23, <1>24, <1>25
     DEF Next, StartStep, PumpStep, StopStep, ShutdownStep

(* Answers to StopStream stay true: what is done stays done, and a stream  *)
(* that left the map never comes back.                                     *)
LEMMA DoneStep ==
  TypeOK /\ SlotInv /\ DoneInv /\ [Next]_vars => DoneInv'
<1> SUFFICES ASSUME TypeOK, SlotInv, DoneInv, [Next]_vars PROVE DoneInv'
    OBVIOUS
<1> USE DEF TypeOK, SessionsTypeOK, DoneInv
<1>1. ASSUME NEW k \in Sessions, Connect(k) PROVE DoneInv'
  BY <1>1 DEF Connect, Add, sessionVars, streamVars, stopVars
<1>2. ASSUME NEW k \in Sessions, Disconnect(k) PROVE DoneInv'
  BY <1>2 DEF Disconnect, Remove, sessionVars, streamVars, stopVars
<1>3. ASSUME NEW k \in Sessions, CloseSession(k) PROVE DoneInv'
  BY <1>3 DEF CloseSession, CloseOne, sessionVars, streamVars, stopVars
<1>4. ASSUME NEW s \in Streams, NEW k \in Sessions, StartStream(s, k) PROVE DoneInv'
  BY <1>4 DEF StartStream, sessionVars, streamVars, stopVars
<1>5. ASSUME NEW s \in Streams, register(s) PROVE DoneInv'
  BY <1>5 DEF register, sessionVars, streamVars, stopVars
<1>6. ASSUME NEW s \in Streams, Opened(s) PROVE DoneInv'
  BY <1>6 DEF Opened, sessionVars, streamVars, stopVars
<1>7. ASSUME NEW s \in Streams, OpenFailed(s) PROVE DoneInv'
  BY <1>7 DEF OpenFailed, sessionVars, streamVars, stopVars
<1>8. ASSUME NEW s \in Streams, release(s) PROVE DoneInv'
  BY <1>8 DEF release, sessionVars, streamVars, stopVars
<1>9. ASSUME NEW s \in Streams, ReleaseDone(s) PROVE DoneInv'
  BY <1>9 DEF ReleaseDone, sessionVars, streamVars, stopVars
<1>10. ASSUME NEW s \in Streams, Chunk(s) PROVE DoneInv'
  BY <1>10 DEF Chunk, sessionVars, streamVars, stopVars
<1>11. ASSUME NEW s \in Streams, DrainedToEof(s) PROVE DoneInv'
  BY <1>11 DEF DrainedToEof, sessionVars, streamVars, stopVars
<1>12. ASSUME NEW s \in Streams, DrainFailed(s) PROVE DoneInv'
  BY <1>12 DEF DrainFailed, sessionVars, streamVars, stopVars
<1>13. ASSUME NEW s \in Streams, Report(s) PROVE DoneInv'
  BY <1>13 DEF Report, sessionVars, streamVars, stopVars
<1>14. ASSUME NEW s \in Streams, Unregister(s) PROVE DoneInv'
  BY <1>14 DEF Unregister, sessionVars, streamVars, stopVars
<1>15. ASSUME NEW s \in Streams, PumpDone(s) PROVE DoneInv'
  BY <1>15 DEF PumpDone, sessionVars, streamVars, stopVars
<1>16. ASSUME NEW c \in Callers, NEW s \in Streams, StopStream(c, s) PROVE DoneInv'
  <2>1. s \notin streams => phase[s] \in {"released", "refused", "removed", "ended"}
    BY <1>16 DEF StopStream, Knowable, SlotInv, Registered, Phases, Starting, Pumping
  <2>2. /\ stopper'[c].pc = (IF s \in streams THEN "found" ELSE "unknown")
        /\ stopper'[c].on = {s}
        /\ \A d \in Callers : d # c => stopper'[d] = stopper[d]
        /\ UNCHANGED <<phase, done>>
    BY <1>16 DEF StopStream, streamVars
  <2>. QED
    BY <2>1, <2>2
<1>17. ASSUME NEW c \in Callers, stop(c) PROVE DoneInv'
  BY <1>17 DEF stop, sessionVars, streamVars, stopVars
<1>18. ASSUME NEW c \in Callers, StopAnswered(c) PROVE DoneInv'
  BY <1>18 DEF StopAnswered, sessionVars, streamVars, stopVars
<1>19. ASSUME NEW c \in Callers, StopTimedOut(c) PROVE DoneInv'
  BY <1>19 DEF StopTimedOut, sessionVars, streamVars, stopVars
<1>20. CASE StopAllSnapshot
  BY <1>20 DEF StopAllSnapshot, sessionVars, streamVars, stopVars
<1>21. CASE StopAllCancel
  BY <1>21 DEF StopAllCancel, sessionVars, streamVars, stopVars
<1>22. ASSUME NEW s \in Streams, StopAllNext(s) PROVE DoneInv'
  BY <1>22 DEF StopAllNext, sessionVars, streamVars, stopVars
<1>23. CASE RegistryClose
  BY <1>23 DEF RegistryClose, CloseAll, sessionVars, streamVars, stopVars
<1>24. CASE Exit
  BY <1>24 DEF Exit, sessionVars, streamVars, stopVars, vars
<1>25. CASE UNCHANGED vars
  BY <1>25 DEF vars, sessionVars, streamVars, stopVars
<1>. QED
  BY <1>1, <1>2, <1>3, <1>4, <1>5, <1>6, <1>7, <1>8, <1>9, <1>10,
     <1>11, <1>12, <1>13, <1>14, <1>15, <1>16, <1>17, <1>18, <1>19,
     <1>20, <1>21, <1>22, <1>23, <1>24, <1>25
     DEF Next, StartStep, PumpStep, StopStep, ShutdownStep

(* Whatever leaves the stops and the shutdown alone keeps what is known of *)
(* them, as long as the map gains only a stream that was about to register *)
(* and no goroutine starts afresh.                                         *)
LEMMA ShutKept ==
  ASSUME TypeOK, TypeOK', ShutInv, UNCHANGED <<asked, stopVars>>,
         \A s \in Streams : s \in streams' => s \in streams \/ phase[s] = "looked",
         \A s \in Streams : phase'[s] \in {"idle", "looked"} =>
           phase[s] \in {"idle", "looked"}
  PROVE  ShutInv'
<1>1. \A s \in Streams : Told(s)' <=> Told(s)
  BY DEF Told, stopVars
<1>2. shut' = shut /\ pending' = pending /\ streams' \subseteq Streams
  BY DEF stopVars, TypeOK
<1>. QED
  BY <1>1, <1>2 DEF ShutInv

(* The shutdown waits for everybody who was told to stop. *)
LEMMA ShutStep ==
  TypeOK /\ SlotInv /\ DoneInv /\ ShutInv /\ TypeOK' /\ [Next]_vars => ShutInv'
<1> SUFFICES ASSUME TypeOK, SlotInv, DoneInv, ShutInv, TypeOK', [Next]_vars
             PROVE  ShutInv'
    OBVIOUS
<1>1. ASSUME NEW k \in Sessions, Connect(k) PROVE ShutInv'
  BY <1>1, ShutKept DEF Connect, Add, TypeOK, sessionVars, streamVars, stopVars
<1>2. ASSUME NEW k \in Sessions, Disconnect(k) PROVE ShutInv'
  BY <1>2, ShutKept DEF Disconnect, Remove, TypeOK, sessionVars, streamVars, stopVars
<1>3. ASSUME NEW k \in Sessions, CloseSession(k) PROVE ShutInv'
  BY <1>3, ShutKept DEF CloseSession, CloseOne, TypeOK, sessionVars, streamVars, stopVars
<1>4. ASSUME NEW s \in Streams, NEW k \in Sessions, StartStream(s, k) PROVE ShutInv'
  BY <1>4, ShutKept DEF StartStream, TypeOK, sessionVars, streamVars, stopVars
<1>5. ASSUME NEW s \in Streams, register(s) PROVE ShutInv'
  BY <1>5, ShutKept DEF register, TypeOK, sessionVars, streamVars, stopVars
<1>6. ASSUME NEW s \in Streams, Opened(s) PROVE ShutInv'
  BY <1>6, ShutKept DEF Opened, TypeOK, sessionVars, streamVars, stopVars
<1>7. ASSUME NEW s \in Streams, OpenFailed(s) PROVE ShutInv'
  BY <1>7, ShutKept DEF OpenFailed, TypeOK, sessionVars, streamVars, stopVars
<1>8. ASSUME NEW s \in Streams, release(s) PROVE ShutInv'
  BY <1>8, ShutKept DEF release, TypeOK, sessionVars, streamVars, stopVars
<1>9. ASSUME NEW s \in Streams, ReleaseDone(s) PROVE ShutInv'
  BY <1>9, ShutKept DEF ReleaseDone, TypeOK, sessionVars, streamVars, stopVars
<1>10. ASSUME NEW s \in Streams, Chunk(s) PROVE ShutInv'
  BY <1>10, ShutKept DEF Chunk, TypeOK, sessionVars, streamVars, stopVars
<1>11. ASSUME NEW s \in Streams, DrainedToEof(s) PROVE ShutInv'
  BY <1>11, ShutKept DEF DrainedToEof, TypeOK, sessionVars, streamVars, stopVars
<1>12. ASSUME NEW s \in Streams, DrainFailed(s) PROVE ShutInv'
  BY <1>12, ShutKept DEF DrainFailed, TypeOK, sessionVars, streamVars, stopVars
<1>13. ASSUME NEW s \in Streams, Report(s) PROVE ShutInv'
  BY <1>13, ShutKept DEF Report, TypeOK, sessionVars, streamVars, stopVars
<1>14. ASSUME NEW s \in Streams, Unregister(s) PROVE ShutInv'
  BY <1>14, ShutKept DEF Unregister, TypeOK, sessionVars, streamVars, stopVars
<1>15. ASSUME NEW s \in Streams, PumpDone(s) PROVE ShutInv'
  BY <1>15, ShutKept DEF PumpDone, TypeOK, sessionVars, streamVars, stopVars
<1>16. ASSUME NEW c \in Callers, NEW s \in Streams, StopStream(c, s) PROVE ShutInv'
  <2>1. \A t \in Streams : Told(t)' => Told(t) \/ (t = s /\ s \in streams)
    BY <1>16 DEF StopStream, Told, TypeOK, streamVars
  <2>2. /\ UNCHANGED <<streams, phase, pending, shut>> /\ shut = "up"
        /\ Knowable(s)
    BY <1>16 DEF StopStream, streamVars
  <2>. QED
    BY <2>1, <2>2 DEF ShutInv, Knowable
<1>17. ASSUME NEW c \in Callers, stop(c) PROVE ShutInv'
  <2>1. \A t \in Streams : Told(t)' => Told(t)
    BY <1>17 DEF stop, Told, TypeOK
  <2>2. UNCHANGED <<streams, phase, pending, shut>>
    BY <1>17 DEF stop
  <2>. QED
    BY <2>1, <2>2 DEF ShutInv, TypeOK
<1>18. ASSUME NEW c \in Callers, StopAnswered(c) PROVE ShutInv'
  <2>1. \A t \in Streams : Told(t)' => Told(t)
    BY <1>18 DEF StopAnswered, Told, TypeOK, streamVars
  <2>2. UNCHANGED <<streams, phase, pending, shut>>
    BY <1>18 DEF StopAnswered, streamVars
  <2>. QED
    BY <2>1, <2>2 DEF ShutInv, TypeOK
<1>19. ASSUME NEW c \in Callers, StopTimedOut(c) PROVE ShutInv'
  <2>1. \A t \in Streams : Told(t)' => Told(t)
    BY <1>19 DEF StopTimedOut, Told, TypeOK, streamVars
  <2>2. UNCHANGED <<streams, phase, pending, shut>>
    BY <1>19 DEF StopTimedOut, streamVars
  <2>. QED
    BY <2>1, <2>2 DEF ShutInv, TypeOK
<1>20. CASE StopAllSnapshot
  <2>1. \A t \in Streams : Told(t)' => Told(t) \/ t \in streams
    BY <1>20 DEF StopAllSnapshot, Told, streamVars
  <2>2. UNCHANGED <<streams, phase>> /\ pending' = streams /\ shut' = "cancelling"
    BY <1>20 DEF StopAllSnapshot, streamVars
  <2>3. \A t \in streams : phase[t] \notin {"idle", "looked"}
    BY DEF SlotInv, Registered, TypeOK
  <2>. QED
    BY <2>1, <2>2, <2>3 DEF ShutInv
<1>21. CASE StopAllCancel
  <2>1. \A t \in Streams : Told(t)' => Told(t)
    BY <1>21 DEF StopAllCancel, Told
  <2>2. UNCHANGED <<streams, phase, pending>> /\ shut # "up" /\ shut' = "waiting"
    BY <1>21 DEF StopAllCancel
  <2>. QED
    BY <2>1, <2>2 DEF ShutInv, TypeOK
<1>22. ASSUME NEW s \in Streams, StopAllNext(s) PROVE ShutInv'
  <2>1. \A t \in Streams : Told(t)' => Told(t)
    BY <1>22 DEF StopAllNext, Told, streamVars
  <2>2. /\ UNCHANGED <<streams, phase, shut>> /\ shut = "waiting"
        /\ pending' = pending \ {s}
    BY <1>22 DEF StopAllNext, streamVars
  <2>3. s \in streams => s \in Late
    BY <1>22 DEF StopAllNext, SlotInv, Registered, DoneInv
  <2>. QED
    BY <2>1, <2>2, <2>3 DEF ShutInv, TypeOK
<1>23. CASE RegistryClose
  <2>1. \A t \in Streams : Told(t)' => Told(t)
    BY <1>23 DEF RegistryClose, Told, streamVars
  <2>2. /\ UNCHANGED <<streams, phase, pending>> /\ shut = "waiting"
        /\ pending = {}
    BY <1>23 DEF RegistryClose, streamVars
  <2>. QED
    BY <2>1, <2>2 DEF ShutInv, TypeOK
<1>24. CASE Exit
  BY <1>24, ShutKept DEF Exit, vars, TypeOK, sessionVars, streamVars, stopVars
<1>25. CASE UNCHANGED vars
  BY <1>25, ShutKept DEF vars, TypeOK, sessionVars, streamVars, stopVars
<1>. QED
  BY <1>1, <1>2, <1>3, <1>4, <1>5, <1>6, <1>7, <1>8, <1>9, <1>10,
     <1>11, <1>12, <1>13, <1>14, <1>15, <1>16, <1>17, <1>18, <1>19,
     <1>20, <1>21, <1>22, <1>23, <1>24, <1>25
     DEF Next, StartStep, PumpStep, StopStep, ShutdownStep

(* The parts of the invariant are kept together. *)
LEMMA InductiveStep == IInv /\ [Next]_vars => IInv'
<1>. SUFFICES ASSUME IInv, [Next]_vars PROVE IInv'
  OBVIOUS
<1>1. TypeOK'
  BY TypeStep DEF IInv
<1>2. SlotInv'
  BY SlotStep DEF IInv
<1>3. EventsInv'
  BY EventsStep DEF IInv
<1>4. CancelInv'
  BY CancelStep DEF IInv
<1>5. DoneInv'
  BY DoneStep DEF IInv
<1>6. ShutInv'
  BY <1>1, ShutStep DEF IInv
<1>. QED
  BY <1>1, <1>2, <1>3, <1>4, <1>5, <1>6 DEF IInv

(* Nothing has started yet. *)
LEMMA InductiveInit == Init => IInv
<1>. SUFFICES ASSUME Init PROVE IInv
  OBVIOUS
<1>1. TypeOK
  BY TypeInit
<1>2. SlotInv
  BY FS_EmptySet, LimitAssumption DEF Init, SessionsInit, SlotInv, Registered
<1>3. EventsInv
  BY DEF Init, SessionsInit, EventsInv, Silent
<1>4. CancelInv
  BY DEF Init, SessionsInit, CancelInv
<1>5. DoneInv
  BY DEF Init, SessionsInit, DoneInv
<1>6. ShutInv
  BY DEF Init, SessionsInit, ShutInv, Told
<1>. QED
  BY <1>1, <1>2, <1>3, <1>4, <1>5, <1>6 DEF IInv

(* The inductive invariant holds of every behaviour. *)
THEOREM Inductive == Spec => []IInv
  BY InductiveInit, InductiveStep, PTL DEF Spec

(* Requests in flight and bodies being read never exceed the limit: each   *)
(* of them owns a slot, and the slots are counted under the lock.          *)
THEOREM LimitHolds == Spec => []LiveWithinLimit
<1>1. IInv => LiveWithinLimit
  <2> SUFFICES ASSUME IInv PROVE LiveWithinLimit
    OBVIOUS
  <2> DEFINE L == {s \in Streams : phase[s] \in Live}
  <2>1. L \in SUBSET streams
    BY DEF IInv, SlotInv, Registered, Live
  <2>2. IsFiniteSet(streams) /\ Cardinality(streams) <= MaxStreams
    BY DEF IInv, SlotInv
  <2>3. IsFiniteSet(L) /\ Cardinality(L) <= Cardinality(streams)
    BY <2>1, <2>2, FS_Subset
  <2>4. Cardinality(L) \in Nat /\ Cardinality(streams) \in Nat
    BY <2>2, <2>3, FS_CardinalityType
  <2>. QED
    BY <2>2, <2>3, <2>4, LimitAssumption DEF LiveWithinLimit
<1>. QED
  BY <1>1, Inductive, PTL

(* What the webview hears of a stream is well formed: data, at most one    *)
(* error, one close, silence.                                              *)
THEOREM EventsHold == Spec => []EventsWellFormed
<1>1. IInv => EventsWellFormed
  <2> SUFFICES ASSUME IInv, NEW s \in Streams
      PROVE  /\ \A i \in 1..Len(events[s]) :
                  /\ events[s][i] \in CloseStatuses => i = Len(events[s])
                  /\ events[s][i] = "error" =>
                       i + 1 = Len(events[s]) /\ events[s][i + 1] = "failed"
             /\ phase[s] \in Starting \cup {"idle", "refused"} => events[s] = <<>>
             /\ phase[s] \in {"removed", "ended"} => IsClosed(s)
    BY DEF EventsWellFormed
  <2>1. CASE phase[s] \in Starting \cup {"idle", "refused"}
    BY <2>1 DEF IInv, EventsInv, Silent, Starting
  <2>2. CASE phase[s] \in {"reading", "drainedNil", "drainedErr"}
    BY <2>2 DEF IInv, EventsInv, OnlyData, CloseStatuses, Starting
  <2>3. CASE phase[s] \in {"reported", "removed", "ended"}
    BY <2>3 DEF IInv, EventsInv, Farewelled, WellClosed, IsClosed, Starting
  <2>. QED
    BY <2>1, <2>2, <2>3 DEF IInv, TypeOK, SessionsTypeOK, Phases, Starting, Pumping
<1>. QED
  BY <1>1, Inductive, PTL

(* "stopped" is reported only of a stream that was told to stop or whose   *)
(* session is closed.                                                      *)
THEOREM StoppedHolds == Spec => []StoppedOnlyWhenAsked
<1>1. IInv => StoppedOnlyWhenAsked
  BY DEF IInv, CancelInv, StoppedOnlyWhenAsked
<1>. QED
  BY <1>1, Inductive, PTL

(* A stream unknown to StopStream has said its last word or never opened. *)
THEOREM UnknownHolds == Spec => []UnknownMeansClosed
<1>1. IInv => UnknownMeansClosed
  BY DEF IInv, TypeOK, SessionsTypeOK, DoneInv, EventsInv, Farewelled, WellClosed, IsClosed, UnknownMeansClosed
<1>. QED
  BY <1>1, Inductive, PTL

(* Both halves of what is said of a stop: "stopped" has a cause, and what   *)
(* StopStream does not know can be heard no more.                           *)
THEOREM StopsHold == Spec => []StopsAreTrue
<1>1. StoppedOnlyWhenAsked /\ UnknownMeansClosed => StopsAreTrue
  BY DEF StopsAreTrue
<1>. QED
  BY <1>1, StoppedHolds, UnknownHolds, PTL

(* When the sessions are closed, every stream that was told to stop is out *)
(* of the map, unless its reader outlasted the timer: a stop that began    *)
(* before the shutdown and ends after it is waited for too.                *)
THEOREM ShutdownHolds == Spec => []StoppedBeforeSessionsClose
<1>1. IInv => StoppedBeforeSessionsClose
  BY DEF IInv, TypeOK, ShutInv, Told, StoppedBeforeSessionsClose
<1>. QED
  BY <1>1, Inductive, PTL

(* After an answered StopStream the stream is out of the map and silent. *)
THEOREM AnsweredHolds == Spec => AnsweredMeansSilent
<1>. DEFINE Silence == \A c \in Callers : stopper[c].pc = "answered" =>
       \A s \in stopper[c].on : s \notin streams' /\ events'[s] = events[s]
<1>1. IInv /\ IInv' /\ [Next]_vars => [Silence]_vars
  <2> SUFFICES ASSUME IInv, IInv', [Next]_vars,
                      NEW c \in Callers, stopper[c].pc = "answered", NEW s \in stopper[c].on
               PROVE  s \notin streams' /\ events'[s] = events[s]
    OBVIOUS
  <2> DEFINE G == phase'[s] \in {"refused", "ended"} /\ events'[s] = events[s]
  <2>0. s \in Streams /\ phase[s] \in {"refused", "ended"}
    BY DEF IInv, TypeOK, SessionsTypeOK, DoneInv
  <2> HIDE DEF IInv
  <2>A. TypeOK
    BY DEF IInv
  <2> USE DEF TypeOK, SessionsTypeOK
  <2>1. ASSUME NEW k \in Sessions, Connect(k) PROVE G
    BY <2>A, <2>0, <2>1 DEF Connect, Add, sessionVars, streamVars, stopVars
  <2>2. ASSUME NEW k \in Sessions, Disconnect(k) PROVE G
    BY <2>A, <2>0, <2>2 DEF Disconnect, Remove, sessionVars, streamVars, stopVars
  <2>3. ASSUME NEW k \in Sessions, CloseSession(k) PROVE G
    BY <2>A, <2>0, <2>3 DEF CloseSession, CloseOne, sessionVars, streamVars, stopVars
  <2>4. ASSUME NEW t \in Streams, NEW k \in Sessions, StartStream(t, k) PROVE G
    BY <2>A, <2>0, <2>4 DEF StartStream, sessionVars, streamVars, stopVars
  <2>5. ASSUME NEW t \in Streams, register(t) PROVE G
    BY <2>A, <2>0, <2>5 DEF register, sessionVars, streamVars, stopVars
  <2>6. ASSUME NEW t \in Streams, Opened(t) PROVE G
    BY <2>A, <2>0, <2>6 DEF Opened, sessionVars, streamVars, stopVars
  <2>7. ASSUME NEW t \in Streams, OpenFailed(t) PROVE G
    BY <2>A, <2>0, <2>7 DEF OpenFailed, sessionVars, streamVars, stopVars
  <2>8. ASSUME NEW t \in Streams, release(t) PROVE G
    BY <2>A, <2>0, <2>8 DEF release, sessionVars, streamVars, stopVars
  <2>9. ASSUME NEW t \in Streams, ReleaseDone(t) PROVE G
    BY <2>A, <2>0, <2>9 DEF ReleaseDone, sessionVars, streamVars, stopVars
  <2>10. ASSUME NEW t \in Streams, Chunk(t) PROVE G
    BY <2>A, <2>0, <2>10 DEF Chunk, sessionVars, streamVars, stopVars
  <2>11. ASSUME NEW t \in Streams, DrainedToEof(t) PROVE G
    BY <2>A, <2>0, <2>11 DEF DrainedToEof, sessionVars, streamVars, stopVars
  <2>12. ASSUME NEW t \in Streams, DrainFailed(t) PROVE G
    BY <2>A, <2>0, <2>12 DEF DrainFailed, sessionVars, streamVars, stopVars
  <2>13. ASSUME NEW t \in Streams, Report(t) PROVE G
    BY <2>A, <2>0, <2>13 DEF Report, sessionVars, streamVars, stopVars
  <2>14. ASSUME NEW t \in Streams, Unregister(t) PROVE G
    BY <2>A, <2>0, <2>14 DEF Unregister, sessionVars, streamVars, stopVars
  <2>15. ASSUME NEW t \in Streams, PumpDone(t) PROVE G
    BY <2>A, <2>0, <2>15 DEF PumpDone, sessionVars, streamVars, stopVars
  <2>16. ASSUME NEW d \in Callers, NEW t \in Streams, StopStream(d, t) PROVE G
    BY <2>A, <2>0, <2>16 DEF StopStream, sessionVars, streamVars, stopVars
  <2>17. ASSUME NEW d \in Callers, stop(d) PROVE G
    BY <2>A, <2>0, <2>17 DEF stop, sessionVars, streamVars, stopVars
  <2>18. ASSUME NEW d \in Callers, StopAnswered(d) PROVE G
    BY <2>A, <2>0, <2>18 DEF StopAnswered, sessionVars, streamVars, stopVars
  <2>19. ASSUME NEW d \in Callers, StopTimedOut(d) PROVE G
    BY <2>A, <2>0, <2>19 DEF StopTimedOut, sessionVars, streamVars, stopVars
  <2>20. ASSUME StopAllSnapshot PROVE G
    BY <2>A, <2>0, <2>20 DEF StopAllSnapshot, sessionVars, streamVars, stopVars
  <2>21. ASSUME StopAllCancel PROVE G
    BY <2>A, <2>0, <2>21 DEF StopAllCancel, sessionVars, streamVars, stopVars
  <2>22. ASSUME NEW t \in Streams, StopAllNext(t) PROVE G
    BY <2>A, <2>0, <2>22 DEF StopAllNext, sessionVars, streamVars, stopVars
  <2>23. ASSUME RegistryClose PROVE G
    BY <2>A, <2>0, <2>23 DEF RegistryClose, CloseAll, sessionVars, streamVars, stopVars
  <2>24. ASSUME Exit PROVE G
    BY <2>A, <2>0, <2>24 DEF Exit, sessionVars, streamVars, stopVars, vars
  <2>25. ASSUME UNCHANGED vars PROVE G
    BY <2>0, <2>25 DEF vars, sessionVars, streamVars, stopVars
  <2>Z. G
    BY <2>1, <2>2, <2>3, <2>4, <2>5, <2>6, <2>7, <2>8, <2>9, <2>10, <2>11, <2>12, <2>13,
       <2>14, <2>15, <2>16, <2>17, <2>18, <2>19, <2>20, <2>21, <2>22, <2>23, <2>24, <2>25
       DEF Next, StartStep, PumpStep, StopStep, ShutdownStep
  <2>B. s \notin streams'
    BY <2>Z, <2>0 DEF IInv, SlotInv, Registered
  <2>. QED
    BY <2>Z, <2>B
<1>. QED
  BY <1>1, Inductive, PTL DEF Spec, AnsweredMeansSilent
(* A sequence of data only has not said farewell yet. *)
LEMMA OpenFeed ==
  ASSUME NEW s \in Streams, events[s] \in Seq(Events), OnlyData(s)
  PROVE  ~Feed!FeedClosed(s)
<1>1. ASSUME events[s] # <<>> PROVE events[s][Len(events[s])] = "chunk"
  BY <1>1, EmptySeq, LenProperties DEF OnlyData
<1>. QED
  BY <1>1 DEF Feed!FeedClosed, Feed!FeedCloses

(* A step leaves the events alone or is a step of StreamFeed: only Chunk   *)
(* and Report emit, and they find the feed open.                           *)
LEMMA FeedStep ==
  TypeOK /\ EventsInv /\ [Next]_vars => [Feed!FeedNext]_events
<1> SUFFICES ASSUME TypeOK, EventsInv, [Next]_vars
             PROVE  [Feed!FeedNext]_events
    OBVIOUS
<1> DEFINE Steps == [Feed!FeedNext]_events
<1>1. ASSUME NEW k \in Sessions, Connect(k) PROVE Steps
  BY <1>1 DEF Connect, Add, sessionVars, streamVars, stopVars
<1>2. ASSUME NEW k \in Sessions, Disconnect(k) PROVE Steps
  BY <1>2 DEF Disconnect, Remove, sessionVars, streamVars, stopVars
<1>3. ASSUME NEW k \in Sessions, CloseSession(k) PROVE Steps
  BY <1>3 DEF CloseSession, CloseOne, sessionVars, streamVars, stopVars
<1>4. ASSUME NEW s \in Streams, NEW k \in Sessions, StartStream(s, k) PROVE Steps
  BY <1>4 DEF StartStream, sessionVars, streamVars, stopVars
<1>5. ASSUME NEW s \in Streams, register(s) PROVE Steps
  BY <1>5 DEF register, sessionVars, streamVars, stopVars
<1>6. ASSUME NEW s \in Streams, Opened(s) PROVE Steps
  BY <1>6 DEF Opened, sessionVars, streamVars, stopVars
<1>7. ASSUME NEW s \in Streams, OpenFailed(s) PROVE Steps
  BY <1>7 DEF OpenFailed, sessionVars, streamVars, stopVars
<1>8. ASSUME NEW s \in Streams, release(s) PROVE Steps
  BY <1>8 DEF release, sessionVars, streamVars, stopVars
<1>9. ASSUME NEW s \in Streams, ReleaseDone(s) PROVE Steps
  BY <1>9 DEF ReleaseDone, sessionVars, streamVars, stopVars
<1>10. ASSUME NEW s \in Streams, Chunk(s) PROVE Steps
  <2>1. ~Feed!FeedClosed(s)
    BY <1>10, OpenFeed DEF Chunk, TypeOK, SessionsTypeOK, EventsInv
  <2>2. events' = [events EXCEPT ![s] = @ \o <<"chunk">>]
    <3>1. Append(events[s], "chunk") = events[s] \o <<"chunk">>
      BY DEF TypeOK, SessionsTypeOK
    <3>. QED
      BY <1>10, <3>1 DEF Chunk
  <2>. QED
    BY <2>1, <2>2 DEF Feed!FeedNext, Feed!EmitChunk, Feed!Emit
<1>11. ASSUME NEW s \in Streams, DrainedToEof(s) PROVE Steps
  BY <1>11 DEF DrainedToEof, sessionVars, streamVars, stopVars
<1>12. ASSUME NEW s \in Streams, DrainFailed(s) PROVE Steps
  BY <1>12 DEF DrainFailed, sessionVars, streamVars, stopVars
<1>13. ASSUME NEW s \in Streams, Report(s) PROVE Steps
  <2>1. ~Feed!FeedClosed(s)
    BY <1>13, OpenFeed DEF Report, TypeOK, SessionsTypeOK, EventsInv
  <2>2. Farewell(s) \in Feed!Farewells
    BY DEF Farewell, Feed!Farewells
  <2>3. events' = [events EXCEPT ![s] = @ \o Farewell(s)]
    BY <1>13 DEF Report
  <2>. QED
    BY <2>1, <2>2, <2>3 DEF Feed!FeedNext, Feed!EmitFarewell, Feed!Emit
<1>14. ASSUME NEW s \in Streams, Unregister(s) PROVE Steps
  BY <1>14 DEF Unregister, sessionVars, streamVars, stopVars
<1>15. ASSUME NEW s \in Streams, PumpDone(s) PROVE Steps
  BY <1>15 DEF PumpDone, sessionVars, streamVars, stopVars
<1>16. ASSUME NEW c \in Callers, NEW s \in Streams, StopStream(c, s) PROVE Steps
  BY <1>16 DEF StopStream, sessionVars, streamVars, stopVars
<1>17. ASSUME NEW c \in Callers, stop(c) PROVE Steps
  BY <1>17 DEF stop, sessionVars, streamVars, stopVars
<1>18. ASSUME NEW c \in Callers, StopAnswered(c) PROVE Steps
  BY <1>18 DEF StopAnswered, sessionVars, streamVars, stopVars
<1>19. ASSUME NEW c \in Callers, StopTimedOut(c) PROVE Steps
  BY <1>19 DEF StopTimedOut, sessionVars, streamVars, stopVars
<1>20. CASE StopAllSnapshot
  BY <1>20 DEF StopAllSnapshot, sessionVars, streamVars, stopVars
<1>21. CASE StopAllCancel
  BY <1>21 DEF StopAllCancel, sessionVars, streamVars, stopVars
<1>22. ASSUME NEW s \in Streams, StopAllNext(s) PROVE Steps
  BY <1>22 DEF StopAllNext, sessionVars, streamVars, stopVars
<1>23. CASE RegistryClose
  BY <1>23 DEF RegistryClose, CloseAll, sessionVars, streamVars, stopVars
<1>24. CASE Exit
  BY <1>24 DEF Exit, sessionVars, streamVars, stopVars, vars
<1>25. CASE UNCHANGED vars
  BY <1>25 DEF vars, sessionVars, streamVars, stopVars
<1>. QED
  BY <1>1, <1>2, <1>3, <1>4, <1>5, <1>6, <1>7, <1>8, <1>9, <1>10, <1>11, <1>12, <1>13,
     <1>14, <1>15, <1>16, <1>17, <1>18, <1>19, <1>20, <1>21, <1>22, <1>23, <1>24, <1>25
     DEF Next, StartStep, PumpStep, StopStep, ShutdownStep

(* KubeStreams implements StreamFeed: what the Go side emits of a stream   *)
(* is what the webview's subscription is built to consume.                 *)
THEOREM FeedImplemented == Spec => KeepsTheFeed
<1>1. Init => Feed!FeedInit
  BY DEF Init, SessionsInit, Feed!FeedInit
<1>2. IInv /\ [Next]_vars => [Feed!FeedNext]_events
  BY FeedStep DEF IInv
<1>. QED
  BY <1>1, <1>2, Inductive, PTL DEF Spec, KeepsTheFeed, Feed!FeedSpec
=============================================================================
