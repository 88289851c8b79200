--------------------------- MODULE ChannelsProofs ---------------------------
(***************************************************************************)
(* Proofs about Channels for any number of calls and any limit.            *)
(***************************************************************************)
EXTENDS Channels, FiniteSetTheorems, SequenceTheorems, TLAPS

(* The counter is exact and leaves room for what it counts. *)
Counted ==
  /\ IsFiniteSet(Dialing) /\ IsFiniteSet(channels)
  /\ opening = Cardinality(Dialing)
  /\ Cardinality(channels) + opening <= MaxChannels

(* The map holds the channels between addChannel and removeChannel. *)
Published ==
  \A c \in Chans :
    c \in channels <=> phase[c] \in {"reading", "drainedNil", "drainedErr", "reported"}

(* A Close call that is on its way is about a channel. *)
Targets == \A a \in Callers : closer[a].pc # "idle" => closer[a].on \in Chans

SlotInv == TypeOK /\ Counted /\ Published /\ Targets

-----------------------------------------------------------------------------
(* What the switch at the end of the reader emits is a sequence of events. *)
LEMMA FarewellType ==
  ASSUME NEW c
  PROVE  Farewell(c) \in Seq(Events)
<1>1. <<"closed">> \in Seq(Events) /\ <<"eof">> \in Seq(Events)
  BY DEF Events, CloseStatuses
<1>2. <<"error", "failed">> \in Seq(Events)
  BY DEF Events, CloseStatuses
<1>. QED
  BY <1>1, <1>2 DEF Farewell

(* Nothing is open and nothing is being opened. *)
LEMMA SlotInit == Init => SlotInv
<1> SUFFICES ASSUME Init PROVE SlotInv
    OBVIOUS
<1>1. TypeOK
  BY ChannelNone DEF Init, SessionsInit, TypeOK, SessionsTypeOK, Phases, Events
<1>2. Dialing = {}
  BY DEF Init, Dialing, Opening
<1>3. Counted
  BY <1>2, FS_EmptySet, ChannelLimit DEF Init, Counted
<1>4. Published /\ Targets
  BY DEF Init, Published, Targets
<1>. QED
  BY <1>1, <1>3, <1>4 DEF SlotInv

(* The types are kept; that the counter stays a natural number rests on    *)
(* its being exact.                                                        *)
LEMMA TypeStep == SlotInv /\ [Next]_vars => TypeOK'
<1> SUFFICES ASSUME TypeOK, Counted, Targets, [Next]_vars PROVE TypeOK'
    BY DEF SlotInv
<1> USE DEF TypeOK, SessionsTypeOK, Phases, Opening, Reading, Events, CloseStatuses
<1>1. ASSUME NEW k \in Sessions, Connect(k) PROVE TypeOK'
  BY <1>1 DEF Connect, Add, sessionVars, chanVars, callVars
<1>2. ASSUME NEW k \in Sessions, Disconnect(k) PROVE TypeOK'
  BY <1>2 DEF Disconnect, Remove, sessionVars, chanVars, callVars
<1>3. ASSUME NEW k \in Sessions, CloseSession(k) PROVE TypeOK'
  BY <1>3 DEF CloseSession, CloseOne, sessionVars, chanVars, callVars
<1>4. ASSUME NEW c \in Chans, NEW k \in Sessions, Open(c, k) PROVE TypeOK'
  <2>0. {"looked", "refused"} \subseteq Phases
    OBVIOUS
  <2>1. session' \in [Chans -> Sessions \cup {None}]
    BY <1>4 DEF Open
  <2>2. phase' \in [Chans -> Phases]
    <3>. HIDE DEF Phases
    <3>1. CASE k \in registry
      BY <1>4, <2>0, <3>1 DEF Open
    <3>2. CASE k \notin registry
      BY <1>4, <2>0, <3>2 DEF Open
    <3>. QED
      BY <3>1, <3>2
  <2>. QED
    BY <1>4, <2>1, <2>2 DEF Open, sessionVars, callVars
<1>5. ASSUME NEW c \in Chans, reserveChannel(c) PROVE TypeOK'
  <2>0. {"dialing", "refused"} \subseteq Phases
    OBVIOUS
  <2>1. phase' \in [Chans -> Phases]
    <3>. HIDE DEF Phases
    <3>1. PICK p \in {"dialing", "refused"} : phase' = [phase EXCEPT ![c] = p]
      BY <1>5 DEF reserveChannel
    <3>. QED
      BY <2>0, <3>1
  <2>2. opening' \in Nat
    BY <1>5 DEF reserveChannel
  <2>. QED
    BY <1>5, <2>1, <2>2 DEF reserveChannel, sessionVars, callVars
<1>6. ASSUME NEW c \in Chans, Dialed(c) PROVE TypeOK'
  BY <1>6 DEF Dialed, sessionVars, chanVars, callVars
<1>7. ASSUME NEW c \in Chans, abandonChannel(c) PROVE TypeOK'
  <2>1. opening' \in Nat
    <3>1. c \in Dialing
      BY <1>7 DEF abandonChannel, Dialing, Opening
    <3>2. opening > 0
      BY <3>1, FS_EmptySet, FS_CardinalityType DEF Counted
    <3>. QED
      BY <1>7, <3>2 DEF abandonChannel
  <2>. QED
    BY <1>7, <2>1 DEF abandonChannel, sessionVars, callVars
<1>8. ASSUME NEW c \in Chans, addChannel(c) PROVE TypeOK'
  <2>1. opening' \in Nat
    <3>1. c \in Dialing
      BY <1>8 DEF addChannel, Dialing, Opening
    <3>2. opening > 0
      BY <3>1, FS_EmptySet, FS_CardinalityType DEF Counted
    <3>. QED
      BY <1>8, <3>2 DEF addChannel
  <2>. QED
    BY <1>8, <2>1 DEF addChannel, sessionVars, callVars
<1>9. ASSUME NEW c \in Chans, Data(c) PROVE TypeOK'
  BY <1>9 DEF Data, sessionVars, chanVars, callVars
<1>10. ASSUME NEW c \in Chans, Drained(c) PROVE TypeOK'
  BY <1>10 DEF Drained, sessionVars, chanVars, callVars
<1>11. ASSUME NEW c \in Chans, Report(c) PROVE TypeOK'
  <2>1. events[c] \o Farewell(c) \in Seq(Events)
    BY FarewellType, ConcatProperties
  <2>2. events' \in [Chans -> Seq(Events)]
    BY <1>11, <2>1 DEF Report
  <2>. QED
    BY <1>11, <2>2 DEF Report, sessionVars, callVars
<1>12. ASSUME NEW c \in Chans, removeChannel(c) PROVE TypeOK'
  BY <1>12 DEF removeChannel, sessionVars, chanVars, callVars
<1>13. ASSUME NEW c \in Chans, ReaderDone(c) PROVE TypeOK'
  BY <1>13 DEF ReaderDone, sessionVars, chanVars, callVars
<1>14. ASSUME NEW a \in Callers, NEW c \in Chans, CloseCall(a, c) PROVE TypeOK'
  BY <1>14 DEF CloseCall, sessionVars, chanVars, callVars
<1>15. ASSUME NEW a \in Callers, CloseCancels(a) PROVE TypeOK'
  <2>1. closer[a].on \in Chans
    BY <1>15 DEF CloseCancels, Targets
  <2>. QED
    BY ZenonT(30), <1>15, <2>1 DEF CloseCancels, sessionVars, callVars
<1>16. ASSUME NEW a \in Callers, awaitDone(a) PROVE TypeOK'
  <2>1. PICK p \in {"answered", "timedOut"} : closer' = [closer EXCEPT ![a].pc = p]
    BY <1>16 DEF awaitDone
  <2>2. closer' \in [Callers -> [pc : {"idle", "found", "unknown", "waiting", "answered", "timedOut"},
                                on : Chans \cup {None}]]
    BY ZenonT(30), <2>1
  <2>. QED
    BY <1>16, <2>2 DEF awaitDone, sessionVars, chanVars
<1>17. ASSUME NEW w \in Writers, NEW c \in Chans, Write(w, c) PROVE TypeOK'
  BY <1>17 DEF Write, sessionVars, chanVars, callVars
<1>18. ASSUME NEW w \in Writers, send(w) PROVE TypeOK'
  BY ZenonT(30), <1>18 DEF send, sessionVars, chanVars, callVars
<1>19. ASSUME NEW w \in Writers, Sent(w) PROVE TypeOK'
  BY ZenonT(30), <1>19 DEF Sent, sessionVars, chanVars, callVars
<1>20. ASSUME NEW w \in Writers, SendFails(w) PROVE TypeOK'
  BY ZenonT(30), <1>20 DEF SendFails, sessionVars, chanVars, callVars
<1>21. ASSUME closeAllChannels PROVE TypeOK'
  BY <1>21 DEF closeAllChannels, sessionVars, chanVars, callVars
<1>22. ASSUME CloseAllCancel PROVE TypeOK'
  BY <1>22 DEF CloseAllCancel, sessionVars, chanVars, callVars
<1>23. ASSUME NEW c \in Chans, CloseAllAwait(c) PROVE TypeOK'
  BY <1>23 DEF CloseAllAwait, sessionVars, chanVars, callVars
<1>24. ASSUME RegistryCloses PROVE TypeOK'
  BY <1>24 DEF RegistryCloses, CloseAll, sessionVars, chanVars, callVars
<1>25. ASSUME Exit PROVE TypeOK'
  BY <1>25 DEF Exit, sessionVars, chanVars, callVars, vars
<1>26. ASSUME UNCHANGED vars PROVE TypeOK'
  BY <1>26 DEF vars, sessionVars, chanVars, callVars
<1>. QED
  BY <1>1, <1>2, <1>3, <1>4, <1>5, <1>6, <1>7, <1>8, <1>9, <1>10, <1>11, <1>12,
     <1>13, <1>14, <1>15, <1>16, <1>17, <1>18, <1>19, <1>20, <1>21, <1>22, <1>23, <1>24,
     <1>25, <1>26
     DEF Next, OpenStep, ReadStep, CloseStep, WriteStep, ShutStep

(* Every reservation is given back exactly once: by abandonChannel, or by  *)
(* addChannel, which turns it into an entry of the map.                    *)
LEMMA SlotStep == SlotInv /\ [Next]_vars => Counted' /\ Published'
<1> SUFFICES ASSUME TypeOK, Counted, Published, [Next]_vars
             PROVE  Counted' /\ Published'
    BY DEF SlotInv
<1> USE DEF TypeOK, Counted, Published
<1> DEFINE Kept == Counted' /\ Published'
<1>1. ASSUME NEW k \in Sessions, Connect(k) PROVE Kept
  BY <1>1 DEF Connect, Add, sessionVars, chanVars, callVars, Dialing
<1>2. ASSUME NEW k \in Sessions, Disconnect(k) PROVE Kept
  BY <1>2 DEF Disconnect, Remove, sessionVars, chanVars, callVars, Dialing
<1>3. ASSUME NEW k \in Sessions, CloseSession(k) PROVE Kept
  BY <1>3 DEF CloseSession, CloseOne, sessionVars, chanVars, callVars, Dialing
<1>4. ASSUME NEW c \in Chans, NEW k \in Sessions, Open(c, k) PROVE Kept
  <2>1. Dialing' = Dialing /\ UNCHANGED <<channels, opening>>
    BY <1>4 DEF Open, Dialing, Opening
  <2>2. Published'
    BY <1>4 DEF Open
  <2>. QED
    BY <2>1, <2>2
<1>5. ASSUME NEW c \in Chans, reserveChannel(c) PROVE Kept
  <2>1. CASE Cardinality(channels) + opening >= MaxChannels
    <3>1. phase' = [phase EXCEPT ![c] = "refused"] /\ phase[c] = "looked"
          /\ UNCHANGED <<channels, opening>>
      BY <1>5, <2>1 DEF reserveChannel
    <3>2. Dialing' = Dialing
      BY <3>1 DEF Dialing, Opening
    <3>. QED
      BY <3>1, <3>2
  <2>2. CASE ~(Cardinality(channels) + opening >= MaxChannels)
    <3>1. Dialing' = Dialing \cup {c} /\ c \notin Dialing
      BY <1>5, <2>2 DEF reserveChannel, Dialing, Opening
    <3>2. IsFiniteSet(Dialing') /\ Cardinality(Dialing') = Cardinality(Dialing) + 1
      BY <3>1, FS_AddElement
    <3>3. Cardinality(channels) \in Nat
      BY FS_CardinalityType
    <3>4. opening' = opening + 1 /\ channels' = channels
          /\ phase' = [phase EXCEPT ![c] = "dialing"]
      BY <1>5, <2>2 DEF reserveChannel
    <3>5. Counted'
      BY <2>2, <3>2, <3>3, <3>4, ChannelLimit
    <3>6. Published'
      BY <1>5, <3>4 DEF reserveChannel
    <3>. QED
      BY <3>5, <3>6
  <2>. QED
    BY <2>1, <2>2
<1>6. ASSUME NEW c \in Chans, Dialed(c) PROVE Kept
  <2>1. Dialing' = Dialing /\ UNCHANGED <<channels, opening>>
    BY <1>6 DEF Dialed, Dialing, Opening
  <2>2. Published'
    BY <1>6 DEF Dialed
  <2>. QED
    BY <2>1, <2>2
<1>7. ASSUME NEW c \in Chans, abandonChannel(c) PROVE Kept
  <2>1. Dialing' = Dialing \ {c} /\ c \in Dialing
    BY <1>7 DEF abandonChannel, Dialing, Opening
  <2>2. IsFiniteSet(Dialing') /\ Cardinality(Dialing') = Cardinality(Dialing) - 1
    BY <2>1, FS_RemoveElement
  <2>3. opening' = opening - 1 /\ channels' = channels
    BY <1>7 DEF abandonChannel
  <2>4. Cardinality(channels) \in Nat
    BY FS_CardinalityType
  <2>5. Counted'
    BY <2>2, <2>3, <2>4, ChannelLimit
  <2>6. Published'
    BY <1>7 DEF abandonChannel, Opening
  <2>. QED
    BY <2>5, <2>6
<1>8. ASSUME NEW c \in Chans, addChannel(c) PROVE Kept
  <2>1. Dialing' = Dialing \ {c} /\ c \in Dialing
    BY <1>8 DEF addChannel, Dialing, Opening
  <2>2. IsFiniteSet(Dialing') /\ Cardinality(Dialing') = Cardinality(Dialing) - 1
    BY <2>1, FS_RemoveElement
  <2>3. channels' = channels \cup {c} /\ c \notin channels /\ opening' = opening - 1
    BY <1>8 DEF addChannel
  <2>4. IsFiniteSet(channels') /\ Cardinality(channels') = Cardinality(channels) + 1
    BY <2>3, FS_AddElement
  <2>5. Cardinality(channels) \in Nat
    BY FS_CardinalityType
  <2>6. Counted'
    BY <2>2, <2>3, <2>4, <2>5, ChannelLimit
  <2>7. Published'
    BY <1>8 DEF addChannel
  <2>. QED
    BY <2>6, <2>7
<1>9. ASSUME NEW c \in Chans, Data(c) PROVE Kept
  BY <1>9 DEF Data, sessionVars, chanVars, callVars, Dialing
<1>10. ASSUME NEW c \in Chans, Drained(c) PROVE Kept
  <2>1. Dialing' = Dialing /\ UNCHANGED <<channels, opening>>
    BY <1>10 DEF Drained, Dialing, Opening
  <2>2. Published'
    BY <1>10 DEF Drained
  <2>. QED
    BY <2>1, <2>2
<1>11. ASSUME NEW c \in Chans, Report(c) PROVE Kept
  <2>1. Dialing' = Dialing /\ UNCHANGED <<channels, opening>>
    BY <1>11 DEF Report, Dialing, Opening
  <2>2. Published'
    BY <1>11 DEF Report
  <2>. QED
    BY <2>1, <2>2
<1>12. ASSUME NEW c \in Chans, removeChannel(c) PROVE Kept
  <2>1. channels' = channels \ {c} /\ opening' = opening /\ Dialing' = Dialing
    BY <1>12 DEF removeChannel, Dialing, Opening
  <2>2. IsFiniteSet(channels') /\ Cardinality(channels') <= Cardinality(channels)
    BY <2>1, FS_Subset
  <2>3. Cardinality(channels) \in Nat /\ Cardinality(channels') \in Nat
    BY <2>2, FS_CardinalityType
  <2>4. Counted'
    BY <2>1, <2>2, <2>3, ChannelLimit
  <2>5. Published'
    BY <1>12 DEF removeChannel
  <2>. QED
    BY <2>4, <2>5
<1>13. ASSUME NEW c \in Chans, ReaderDone(c) PROVE Kept
  <2>1. Dialing' = Dialing /\ UNCHANGED <<channels, opening>>
    BY <1>13 DEF ReaderDone, Dialing, Opening
  <2>2. Published'
    BY <1>13 DEF ReaderDone
  <2>. QED
    BY <2>1, <2>2
<1>14. ASSUME NEW a \in Callers, NEW c \in Chans, CloseCall(a, c) PROVE Kept
  BY <1>14 DEF CloseCall, sessionVars, chanVars, callVars, Dialing
<1>15. ASSUME NEW a \in Callers, CloseCancels(a) PROVE Kept
  BY <1>15 DEF CloseCancels, sessionVars, chanVars, callVars, Dialing
<1>16. ASSUME NEW a \in Callers, awaitDone(a) PROVE Kept
  BY <1>16 DEF awaitDone, sessionVars, chanVars, callVars, Dialing
<1>17. ASSUME NEW w \in Writers, NEW c \in Chans, Write(w, c) PROVE Kept
  BY <1>17 DEF Write, sessionVars, chanVars, callVars, Dialing
<1>18. ASSUME NEW w \in Writers, send(w) PROVE Kept
  BY <1>18 DEF send, sessionVars, chanVars, callVars, Dialing
<1>19. ASSUME NEW w \in Writers, Sent(w) PROVE Kept
  BY <1>19 DEF Sent, sessionVars, chanVars, callVars, Dialing
<1>20. ASSUME NEW w \in Writers, SendFails(w) PROVE Kept
  BY <1>20 DEF SendFails, sessionVars, chanVars, callVars, Dialing
<1>21. ASSUME closeAllChannels PROVE Kept
  BY <1>21 DEF closeAllChannels, sessionVars, chanVars, callVars, Dialing
<1>22. ASSUME CloseAllCancel PROVE Kept
  BY <1>22 DEF CloseAllCancel, sessionVars, chanVars, callVars, Dialing
<1>23. ASSUME NEW c \in Chans, CloseAllAwait(c) PROVE Kept
  BY <1>23 DEF CloseAllAwait, sessionVars, chanVars, callVars, Dialing
<1>24. ASSUME RegistryCloses PROVE Kept
  BY <1>24 DEF RegistryCloses, CloseAll, sessionVars, chanVars, callVars, Dialing
<1>25. ASSUME Exit PROVE Kept
  BY <1>25 DEF Exit, sessionVars, chanVars, callVars, Dialing, vars
<1>26. ASSUME UNCHANGED vars PROVE Kept
  BY <1>26 DEF vars, sessionVars, chanVars, callVars, Dialing
<1>. QED
  BY <1>1, <1>2, <1>3, <1>4, <1>5, <1>6, <1>7, <1>8, <1>9, <1>10, <1>11, <1>12,
     <1>13, <1>14, <1>15, <1>16, <1>17, <1>18, <1>19, <1>20, <1>21, <1>22, <1>23, <1>24,
     <1>25, <1>26
     DEF Next, OpenStep, ReadStep, CloseStep, WriteStep, ShutStep

(* A Close call never changes the channel it is about. *)
LEMMA TargetsStep == SlotInv /\ [Next]_vars => Targets'
<1> SUFFICES ASSUME TypeOK, Targets, [Next]_vars PROVE Targets'
    BY DEF SlotInv
<1> USE DEF TypeOK, Targets
<1>1. ASSUME NEW k \in Sessions, Connect(k) PROVE Targets'
  BY <1>1 DEF Connect, Add, sessionVars, chanVars, callVars
<1>2. ASSUME NEW k \in Sessions, Disconnect(k) PROVE Targets'
  BY <1>2 DEF Disconnect, Remove, sessionVars, chanVars, callVars
<1>3. ASSUME NEW k \in Sessions, CloseSession(k) PROVE Targets'
  BY <1>3 DEF CloseSession, CloseOne, sessionVars, chanVars, callVars
<1>4. ASSUME NEW c \in Chans, NEW k \in Sessions, Open(c, k) PROVE Targets'
  BY <1>4 DEF Open, sessionVars, chanVars, callVars
<1>5. ASSUME NEW c \in Chans, reserveChannel(c) PROVE Targets'
  BY <1>5 DEF reserveChannel, sessionVars, chanVars, callVars
<1>6. ASSUME NEW c \in Chans, Dialed(c) PROVE Targets'
  BY <1>6 DEF Dialed, sessionVars, chanVars, callVars
<1>7. ASSUME NEW c \in Chans, abandonChannel(c) PROVE Targets'
  BY <1>7 DEF abandonChannel, sessionVars, chanVars, callVars
<1>8. ASSUME NEW c \in Chans, addChannel(c) PROVE Targets'
  BY <1>8 DEF addChannel, sessionVars, chanVars, callVars
<1>9. ASSUME NEW c \in Chans, Data(c) PROVE Targets'
  BY <1>9 DEF Data, sessionVars, chanVars, callVars
<1>10. ASSUME NEW c \in Chans, Drained(c) PROVE Targets'
  BY <1>10 DEF Drained, sessionVars, chanVars, callVars
<1>11. ASSUME NEW c \in Chans, Report(c) PROVE Targets'
  BY <1>11 DEF Report, sessionVars, chanVars, callVars
<1>12. ASSUME NEW c \in Chans, removeChannel(c) PROVE Targets'
  BY <1>12 DEF removeChannel, sessionVars, chanVars, callVars
<1>13. ASSUME NEW c \in Chans, ReaderDone(c) PROVE Targets'
  BY <1>13 DEF ReaderDone, sessionVars, chanVars, callVars
<1>14. ASSUME NEW a \in Callers, NEW c \in Chans, CloseCall(a, c) PROVE Targets'
  BY <1>14 DEF CloseCall, sessionVars, chanVars, callVars
<1>15. ASSUME NEW a \in Callers, CloseCancels(a) PROVE Targets'
  BY <1>15 DEF CloseCancels, sessionVars, chanVars, callVars
<1>16. ASSUME NEW a \in Callers, awaitDone(a) PROVE Targets'
  <2>1. PICK p \in {"answered", "timedOut"} : closer' = [closer EXCEPT ![a].pc = p]
    BY <1>16 DEF awaitDone
  <2>2. closer[a].pc = "waiting"
    BY <1>16 DEF awaitDone
  <2>. QED
    BY <2>1, <2>2
<1>17. ASSUME NEW w \in Writers, NEW c \in Chans, Write(w, c) PROVE Targets'
  BY <1>17 DEF Write, sessionVars, chanVars, callVars
<1>18. ASSUME NEW w \in Writers, send(w) PROVE Targets'
  BY <1>18 DEF send, sessionVars, chanVars, callVars
<1>19. ASSUME NEW w \in Writers, Sent(w) PROVE Targets'
  BY <1>19 DEF Sent, sessionVars, chanVars, callVars
<1>20. ASSUME NEW w \in Writers, SendFails(w) PROVE Targets'
  BY <1>20 DEF SendFails, sessionVars, chanVars, callVars
<1>21. ASSUME closeAllChannels PROVE Targets'
  BY <1>21 DEF closeAllChannels, sessionVars, chanVars, callVars
<1>22. ASSUME CloseAllCancel PROVE Targets'
  BY <1>22 DEF CloseAllCancel, sessionVars, chanVars, callVars
<1>23. ASSUME NEW c \in Chans, CloseAllAwait(c) PROVE Targets'
  BY <1>23 DEF CloseAllAwait, sessionVars, chanVars, callVars
<1>24. ASSUME RegistryCloses PROVE Targets'
  BY <1>24 DEF RegistryCloses, CloseAll, sessionVars, chanVars, callVars
<1>25. ASSUME Exit PROVE Targets'
  BY <1>25 DEF Exit, sessionVars, chanVars, callVars, vars
<1>26. ASSUME UNCHANGED vars PROVE Targets'
  BY <1>26 DEF vars, sessionVars, chanVars, callVars
<1>. QED
  BY <1>1, <1>2, <1>3, <1>4, <1>5, <1>6, <1>7, <1>8, <1>9, <1>10, <1>11, <1>12,
     <1>13, <1>14, <1>15, <1>16, <1>17, <1>18, <1>19, <1>20, <1>21, <1>22, <1>23, <1>24,
     <1>25, <1>26
     DEF Next, OpenStep, ReadStep, CloseStep, WriteStep, ShutStep

(* The accounting holds in every behaviour. *)
THEOREM SlotInvHolds == Spec => []SlotInv
<1>1. SlotInv /\ [Next]_vars => SlotInv'
  BY TypeStep, SlotStep, TargetsStep DEF SlotInv
<1>. QED
  BY <1>1, SlotInit, PTL DEF Spec

(* Every variable keeps its type. *)
THEOREM ChannelTypes == Spec => []TypeOK
<1>1. SlotInv => TypeOK
  BY DEF SlotInv
<1>. QED
  BY <1>1, SlotInvHolds, PTL

(* Sockets being dialed, sized and read never exceed the limit together,   *)
(* and no slot is lost or given back twice.                                *)
THEOREM SlotsHold == Spec => []SlotsAccounted
<1>1. SlotInv => SlotsAccounted
  BY DEF SlotInv, Counted, Published, SlotsAccounted, SocketOpen
<1>. QED
  BY <1>1, SlotInvHolds, PTL
=============================================================================
