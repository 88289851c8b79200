-------------------------- MODULE StreamBridgeProofs --------------------------
(***************************************************************************)
(* Proofs about StreamBridge for any number of subscriptions and streams   *)
(* and any number of stop() calls on each.                                 *)
(***************************************************************************)
EXTENDS StreamBridge, SequenceTheorems, TLAPS

(* The parts of the types the argument needs. *)
Calls == {"idle", "waiting", "attached", "failed", "broken", "offline"}
Shapes ==
  /\ call \in [Streams -> Calls]
  /\ stops \in [Streams -> Nat]
  /\ DOMAIN heard = Streams
  /\ DOMAIN outcome = Streams
  /\ heard = [s \in Streams |-> heard[s]]
  /\ outcome = [s \in Streams |-> outcome[s]]
  /\ listening \subseteq Streams
  /\ closed \subseteq Streams

(* Where a subscription listens, by how far begin() has come: the three    *)
(* listeners are taken before the call goes out, so a subscription that    *)
(* waits has them and one that never asked has none.                       *)
Ears ==
  \A s \in Streams :
    /\ s \in closed => s \notin listening
    /\ call[s] \in {"idle", "offline"} => s \notin listening
    /\ call[s] = "idle" => s \notin closed
    /\ call[s] = "waiting" => s \in listening
    /\ call[s] = "attached" /\ s \notin closed => s \in listening

(* Only a subscription whose caller has it in hand is being stopped. *)
StopsInv == \A s \in Streams : stops[s] > 0 => call[s] = "attached"

(* A handler is called for an attached subscription only. *)
SilentBefore == \A s \in Streams : call[s] # "attached" => heard[s] = <<>>

EarsInv == Shapes /\ Ears /\ StopsInv

-----------------------------------------------------------------------------
(* What dispatching does to the ears: nothing, or it ends the subscription *)
(* and takes its listeners in one step.                                    *)
Ended(s) ==
  \/ UNCHANGED <<closed, listening>>
  \/ closed' = closed \cup {s} /\ listening' = listening \ {s}

Dispatched(s) ==
  /\ Ended(s)
  /\ \E v : heard' = [heard EXCEPT ![s] = v]
  /\ outcome' = outcome \/ \E v : outcome' = [outcome EXCEPT ![s] = v]

(* The same with what the handler is given. *)
LEMMA DispatchShape ==
  ASSUME NEW s, NEW ms, Dispatch(s, ms)
  PROVE  Dispatched(s)
<1>1. (\E v : heard' = [heard EXCEPT ![s] = v]) /\ Ended(s)
  BY DEF Dispatch, Ended
<1>2. outcome' = outcome \/ \E v : outcome' = [outcome EXCEPT ![s] = v]
  BY DEF Dispatch
<1>. QED
  BY <1>1, <1>2 DEF Dispatched

(* A dispatch keeps the shapes. *)
LEMMA DispatchedShape ==
  ASSUME Shapes, NEW s \in Streams, Dispatched(s)
  PROVE  /\ DOMAIN heard' = Streams /\ heard' = [t \in Streams |-> heard'[t]]
         /\ DOMAIN outcome' = Streams /\ outcome' = [t \in Streams |-> outcome'[t]]
         /\ listening' \subseteq Streams /\ closed' \subseteq Streams
<1>1. DOMAIN heard' = Streams /\ heard' = [t \in Streams |-> heard'[t]]
  <2>1. PICK v : heard' = [heard EXCEPT ![s] = v]
    BY DEF Dispatched
  <2>. QED
    BY <2>1 DEF Shapes
<1>2. DOMAIN outcome' = Streams /\ outcome' = [t \in Streams |-> outcome'[t]]
  <2>1. CASE outcome' = outcome
    BY <2>1 DEF Shapes
  <2>2. ASSUME NEW v, outcome' = [outcome EXCEPT ![s] = v]
        PROVE  DOMAIN outcome' = Streams /\ outcome' = [t \in Streams |-> outcome'[t]]
    BY <2>2 DEF Shapes
  <2>. QED
    BY <2>1, <2>2 DEF Dispatched
<1>3. listening' \subseteq Streams /\ closed' \subseteq Streams
  BY DEF Dispatched, Ended, Shapes
<1>. QED
  BY <1>1, <1>2, <1>3

(* Dispatching ends the subscription or leaves its ears alone. *)
LEMMA DispatchEnds ==
  ASSUME NEW s, NEW ms, Dispatch(s, ms)
  PROVE  Ended(s)
BY DEF Dispatch, Ended

(* Nothing has begun. *)
LEMMA BridgeInit == Init => EarsInv /\ SilentBefore
BY DEF Init, EarsInv, Shapes, Ears, StopsInv, SilentBefore, Calls

(* The shapes are kept. *)
LEMMA ShapesStep == Shapes /\ [Next]_vars => Shapes'
<1> SUFFICES ASSUME Shapes, [Next]_vars PROVE Shapes'
    OBVIOUS
<1> USE DEF Shapes, Calls
<1>1. ASSUME NEW s \in Streams, GoStarts(s) PROVE Shapes'
  BY <1>1 DEF GoStarts, goVars, subVars, haltVars
<1>2. ASSUME NEW s \in Streams, GoChunk(s) PROVE Shapes'
  BY <1>2 DEF GoChunk, GoEmits, goVars, subVars, haltVars
<1>3. ASSUME NEW s \in Streams, GoCloses(s) PROVE Shapes'
  BY <1>3 DEF GoCloses, GoEmits, goVars, subVars, haltVars
<1>4. ASSUME NEW s \in Streams, Begin(s) PROVE Shapes'
  BY <1>4 DEF Begin, goVars, subVars, haltVars
<1>5. ASSUME NEW s \in Streams, attach(s) PROVE Shapes'
  <2>1. /\ call' = [call EXCEPT ![s] = "attached"] /\ UNCHANGED <<stops, stopsMade>>
    BY <1>5 DEF attach, haltVars
  <2>2. Dispatched(s)
    BY <1>5, DispatchShape DEF attach
  <2>. QED
    BY <2>1, <2>2, DispatchedShape
<1>6. ASSUME NEW s \in Streams, cancel(s) PROVE Shapes'
  BY <1>6 DEF cancel, goVars, subVars, haltVars
<1>7. ASSUME NEW s \in Streams, StartThrows(s) PROVE Shapes'
  BY <1>7 DEF StartThrows, goVars, subVars, haltVars
<1>8. ASSUME NEW s \in Streams, stopOffline(s) PROVE Shapes'
  BY <1>8 DEF stopOffline, close, goVars, subVars, haltVars
<1>9. ASSUME NEW s \in Streams, stop(s) PROVE Shapes'
  BY <1>9 DEF stop, Known, goVars, subVars, haltVars
<1>10. ASSUME NEW s \in Streams, Stopped(s) PROVE Shapes'
  BY <1>10 DEF Stopped, close, goVars, subVars, haltVars
<1>11. ASSUME NEW s \in Streams, Deliver(s) PROVE Shapes'
  <2>1. call' = call /\ UNCHANGED <<stops, stopsMade>>
    BY <1>11 DEF Deliver, haltVars
  <2>2. UNCHANGED <<heard, closed, listening, outcome>> \/ Dispatched(s)
    BY <1>11, DispatchShape DEF Deliver
  <2>. QED
    BY <2>1, <2>2, DispatchedShape
<1>12. CASE Rest
  BY <1>12 DEF Rest, vars, goVars, subVars, haltVars
<1>13. CASE UNCHANGED vars
  BY <1>13 DEF vars, goVars, subVars, haltVars
<1>. QED
  BY <1>1, <1>2, <1>3, <1>4, <1>5, <1>6, <1>7, <1>8, <1>9, <1>10, <1>11, <1>12, <1>13 DEF Next

(* The ears are kept. *)
LEMMA EarsStep == EarsInv /\ [Next]_vars => EarsInv'
<1> SUFFICES ASSUME EarsInv, [Next]_vars PROVE Ears' /\ StopsInv'
    BY ShapesStep DEF EarsInv
<1> USE DEF EarsInv, Shapes, Calls, Ears, StopsInv
<1>1. ASSUME NEW s \in Streams, GoStarts(s) PROVE Ears' /\ StopsInv'
  BY <1>1 DEF GoStarts, goVars, subVars, haltVars
<1>2. ASSUME NEW s \in Streams, GoChunk(s) PROVE Ears' /\ StopsInv'
  BY <1>2 DEF GoChunk, GoEmits, goVars, subVars, haltVars
<1>3. ASSUME NEW s \in Streams, GoCloses(s) PROVE Ears' /\ StopsInv'
  BY <1>3 DEF GoCloses, GoEmits, goVars, subVars, haltVars
<1>4. ASSUME NEW s \in Streams, Begin(s) PROVE Ears' /\ StopsInv'
  BY <1>4 DEF Begin, goVars, subVars, haltVars
<1>5. ASSUME NEW s \in Streams, attach(s) PROVE Ears' /\ StopsInv'
  <2>1. /\ call' = [call EXCEPT ![s] = "attached"] /\ UNCHANGED <<stops, stopsMade>>
        /\ call[s] = "waiting"
    BY <1>5 DEF attach, haltVars
  <2>2. Ended(s)
    BY <1>5, DispatchEnds DEF attach
  <2>. QED
    BY <2>1, <2>2 DEF Ended
<1>6. ASSUME NEW s \in Streams, cancel(s) PROVE Ears' /\ StopsInv'
  BY <1>6 DEF cancel, goVars, subVars, haltVars
<1>7. ASSUME NEW s \in Streams, StartThrows(s) PROVE Ears' /\ StopsInv'
  BY <1>7 DEF StartThrows, goVars, subVars, haltVars
<1>8. ASSUME NEW s \in Streams, stopOffline(s) PROVE Ears' /\ StopsInv'
  BY <1>8 DEF stopOffline, close, goVars, subVars, haltVars
<1>9. ASSUME NEW s \in Streams, stop(s) PROVE Ears' /\ StopsInv'
  BY <1>9 DEF stop, Known, goVars, subVars, haltVars
<1>10. ASSUME NEW s \in Streams, Stopped(s) PROVE Ears' /\ StopsInv'
  BY <1>10 DEF Stopped, close, goVars, subVars, haltVars
<1>11. ASSUME NEW s \in Streams, Deliver(s) PROVE Ears' /\ StopsInv'
  <2>1. call' = call /\ UNCHANGED <<stops, stopsMade>>
    BY <1>11 DEF Deliver, haltVars
  <2>2. UNCHANGED <<closed, listening, heard>> \/ (Known(s) /\ Ended(s))
    BY <1>11, DispatchEnds DEF Deliver
  <2>. QED
    BY <2>1, <2>2 DEF Ended, Known
<1>12. CASE Rest
  BY <1>12 DEF Rest, vars, goVars, subVars, haltVars
<1>13. CASE UNCHANGED vars
  BY <1>13 DEF vars, goVars, subVars, haltVars
<1>. QED
  BY <1>1, <1>2, <1>3, <1>4, <1>5, <1>6, <1>7, <1>8, <1>9, <1>10, <1>11, <1>12, <1>13 DEF Next

(* The ears hold in every behaviour. *)
THEOREM EarsHold == Spec => []EarsInv
<1>1. EarsInv /\ [Next]_vars => EarsInv'
  BY EarsStep
<1>. QED
  BY <1>1, BridgeInit, PTL DEF Spec

(* A closed subscription holds no listener and an open one that knows its  *)
(* id holds its own.                                                       *)
THEOREM ListensHold == Spec => []ListensWhileOpen
<1>1. EarsInv => ListensWhileOpen
  BY DEF EarsInv, Ears, ListensWhileOpen, Known
<1>. QED
  BY <1>1, EarsHold, PTL

-----------------------------------------------------------------------------
(* A handler is not called before its id is known. *)
LEMMA SilentStep == EarsInv /\ SilentBefore /\ [Next]_vars => SilentBefore'
<1> SUFFICES ASSUME EarsInv, SilentBefore, [Next]_vars PROVE SilentBefore'
    OBVIOUS
<1> USE DEF EarsInv, Shapes, Calls, Ears, SilentBefore
<1>1. ASSUME NEW s \in Streams, GoStarts(s) PROVE SilentBefore'
  BY <1>1 DEF GoStarts, goVars, subVars, haltVars
<1>2. ASSUME NEW s \in Streams, GoChunk(s) PROVE SilentBefore'
  BY <1>2 DEF GoChunk, GoEmits, goVars, subVars, haltVars
<1>3. ASSUME NEW s \in Streams, GoCloses(s) PROVE SilentBefore'
  BY <1>3 DEF GoCloses, GoEmits, goVars, subVars, haltVars
<1>4. ASSUME NEW s \in Streams, Begin(s) PROVE SilentBefore'
  BY <1>4 DEF Begin, goVars, subVars, haltVars
<1>5. ASSUME NEW s \in Streams, attach(s) PROVE SilentBefore'
  <2>1. /\ call' = [call EXCEPT ![s] = "attached"] /\ call[s] = "waiting"
        /\ s \notin closed
    BY <1>5 DEF attach
  <2>2. \A t \in Streams : t # s => heard'[t] = heard[t] /\ outcome'[t] = outcome[t]
    BY <1>5 DEF attach, Dispatch
  <2>. QED
    BY <2>1, <2>2
<1>6. ASSUME NEW s \in Streams, cancel(s) PROVE SilentBefore'
  BY <1>6 DEF cancel, goVars, subVars, haltVars
<1>7. ASSUME NEW s \in Streams, StartThrows(s) PROVE SilentBefore'
  BY <1>7 DEF StartThrows, goVars, subVars, haltVars
<1>8. ASSUME NEW s \in Streams, stopOffline(s) PROVE SilentBefore'
  BY <1>8 DEF stopOffline, close, goVars, subVars, haltVars
<1>9. ASSUME NEW s \in Streams, stop(s) PROVE SilentBefore'
  BY <1>9 DEF stop, Known, goVars, subVars, haltVars
<1>10. ASSUME NEW s \in Streams, Stopped(s) PROVE SilentBefore'
  BY <1>10 DEF Stopped, close, goVars, subVars, haltVars
<1>11. ASSUME NEW s \in Streams, Deliver(s) PROVE SilentBefore'
  <2>1. call' = call
    BY <1>11 DEF Deliver
  <2>2. \A t \in Streams : t \in closed \/ ~Known(t) =>
          heard'[t] = heard[t] /\ outcome'[t] = outcome[t]
    <3>1. CASE UNCHANGED <<heard, closed, listening, outcome>>
      BY <3>1
    <3>2. CASE /\ s \in listening \ closed /\ Known(s)
               /\ Dispatch(s, <<Head(bus[s])>>)
      BY <3>2 DEF Dispatch
    <3>. QED
      BY <1>11, <3>1, <3>2 DEF Deliver
  <2>. QED
    BY <2>1, <2>2 DEF Known
<1>12. CASE Rest
  BY <1>12 DEF Rest, vars, goVars, subVars, haltVars
<1>13. CASE UNCHANGED vars
  BY <1>13 DEF vars, goVars, subVars, haltVars
<1>. QED
  BY <1>1, <1>2, <1>3, <1>4, <1>5, <1>6, <1>7, <1>8, <1>9, <1>10, <1>11, <1>12, <1>13 DEF Next

(* Once a subscription is over its handler is left alone, and one that     *)
(* could not be started has never called it.                               *)
THEOREM ClosesOnceHolds == Spec => ClosesOnce
<1> DEFINE Kept == \A s \in Streams :
       s \in closed => heard'[s] = heard[s] /\ outcome'[s] = outcome[s]
<1>1. ASSUME EarsInv, [Next]_vars PROVE Kept
  <2> USE <1>1 DEF EarsInv, Shapes, Calls, Ears, StopsInv
<2>1. ASSUME NEW s \in Streams, GoStarts(s) PROVE Kept
  BY <2>1 DEF GoStarts, goVars, subVars, haltVars
<2>2. ASSUME NEW s \in Streams, GoChunk(s) PROVE Kept
  BY <2>2 DEF GoChunk, GoEmits, goVars, subVars, haltVars
<2>3. ASSUME NEW s \in Streams, GoCloses(s) PROVE Kept
  BY <2>3 DEF GoCloses, GoEmits, goVars, subVars, haltVars
<2>4. ASSUME NEW s \in Streams, Begin(s) PROVE Kept
  BY <2>4 DEF Begin, goVars, subVars, haltVars
<2>5. ASSUME NEW s \in Streams, attach(s) PROVE Kept
  <3>1. /\ call' = [call EXCEPT ![s] = "attached"] /\ call[s] = "waiting"
        /\ s \notin closed
    BY <2>5 DEF attach
  <3>2. \A t \in Streams : t # s => heard'[t] = heard[t] /\ outcome'[t] = outcome[t]
    BY <2>5 DEF attach, Dispatch
  <3>. QED
    BY <3>1, <3>2
<2>6. ASSUME NEW s \in Streams, cancel(s) PROVE Kept
  BY <2>6 DEF cancel, goVars, subVars, haltVars
<2>7. ASSUME NEW s \in Streams, StartThrows(s) PROVE Kept
  BY <2>7 DEF StartThrows, goVars, subVars, haltVars
<2>8. ASSUME NEW s \in Streams, stopOffline(s) PROVE Kept
  BY <2>8 DEF stopOffline, close, goVars, subVars, haltVars
<2>9. ASSUME NEW s \in Streams, stop(s) PROVE Kept
  BY <2>9 DEF stop, Known, goVars, subVars, haltVars
<2>10. ASSUME NEW s \in Streams, Stopped(s) PROVE Kept
  BY <2>10 DEF Stopped, close, goVars, subVars, haltVars
<2>11. ASSUME NEW s \in Streams, Deliver(s) PROVE Kept
  <3>1. call' = call
    BY <2>11 DEF Deliver
  <3>2. \A t \in Streams : t \in closed \/ ~Known(t) =>
          heard'[t] = heard[t] /\ outcome'[t] = outcome[t]
    <4>1. CASE UNCHANGED <<heard, closed, listening, outcome>>
      BY <4>1
    <4>2. CASE /\ s \in listening \ closed /\ Known(s)
               /\ Dispatch(s, <<Head(bus[s])>>)
      BY <4>2 DEF Dispatch
    <4>. QED
      BY <2>11, <4>1, <4>2 DEF Deliver
  <3>. QED
    BY <3>1, <3>2 DEF Known
<2>12. ASSUME Rest PROVE Kept
  BY <2>12 DEF Rest, vars, goVars, subVars, haltVars
<2>13. ASSUME UNCHANGED vars PROVE Kept
  BY <2>13 DEF vars, goVars, subVars, haltVars
<2>. QED
  BY <2>1, <2>2, <2>3, <2>4, <2>5, <2>6, <2>7, <2>8, <2>9, <2>10, <2>11, <2>12, <2>13 DEF Next
<1>2. SilentBefore' /\ Kept =>
        (\A s \in Streams :
           /\ s \in closed => heard'[s] = heard[s] /\ outcome'[s] = outcome[s]
           /\ call'[s] \in {"failed", "broken"} => heard'[s] = <<>>)
  BY DEF SilentBefore
<1>3. Spec => []SilentBefore
  BY BridgeInit, SilentStep, EarsHold, PTL DEF Spec
<1>. QED
  <2>1. EarsInv /\ SilentBefore' /\ [Next]_vars =>
          [\A s \in Streams :
             /\ s \in closed => heard'[s] = heard[s] /\ outcome'[s] = outcome[s]
             /\ call'[s] \in {"failed", "broken"} => heard'[s] = <<>>]_vars
    BY <1>1, <1>2
  <2>. QED
    BY <2>1, <1>3, EarsHold, PTL DEF Spec, ClosesOnce

-----------------------------------------------------------------------------
(* Runs of events.                                                         *)

(* The events m + 1 to n of a stream. *)
Run(s, m, n) == [i \in 1..(n - m) |-> [id |-> s, at |-> m + i]]

(* A run is a sequence of messages as long as it says. *)
LEMMA RunIs ==
  \A s \in Streams, m \in Nat, n \in Nat : m <= n =>
     Run(s, m, n) \in Seq(Message) /\ Len(Run(s, m, n)) = n - m
<1> SUFFICES ASSUME NEW s \in Streams, NEW m \in Nat, NEW n \in Nat, m <= n
             PROVE  Run(s, m, n) \in Seq(Message) /\ Len(Run(s, m, n)) = n - m
    OBVIOUS
<1>1. Run(s, m, n) \in [1..(n - m) -> Message]
  BY DEF Run, Message
<1>2. n - m \in Nat
  OBVIOUS
<1>. QED
  BY <1>1, <1>2, SMT DEF Run

(* Its members in order. *)
LEMMA RunAt ==
  \A s \in Streams, m \in Nat, n \in Nat : m <= n =>
     \A i \in 1..(n - m) : Run(s, m, n)[i] = [id |-> s, at |-> m + i]
BY DEF Run

(* Two sequences of messages that agree everywhere are one. *)
LEMMA SameMessages ==
  \A a \in Seq(Message), b \in Seq(Message) :
    Len(a) = Len(b) /\ (\A i \in 1..Len(a) : a[i] = b[i]) => a = b
BY SeqEqual

(* The run of one event. *)
LEMMA RunOne ==
  ASSUME NEW s \in Streams, NEW m \in Nat
  PROVE  Run(s, m, m + 1) = <<[id |-> s, at |-> m + 1]>>
<1>1. <<[id |-> s, at |-> m + 1]>> \in Seq(Message)
  BY DEF Message
<1>2. Run(s, m, m + 1) \in Seq(Message) /\ Len(Run(s, m, m + 1)) = 1
  <2>1. m + 1 \in Nat /\ m <= m + 1 /\ (m + 1) - m = 1
    OBVIOUS
  <2>. QED
    BY <2>1, RunIs
<1>3. Run(s, m, m + 1)[1] = [id |-> s, at |-> m + 1]
  BY (m + 1) - m = 1 DEF Run
<1>. QED
  BY <1>1, <1>2, <1>3, SameMessages

(* Runs that meet are one run. *)
LEMMA RunJoin ==
  \A s \in Streams, m \in Nat, k \in Nat, n \in Nat :
    m <= k /\ k <= n => Run(s, m, k) \o Run(s, k, n) = Run(s, m, n)
<1> SUFFICES ASSUME NEW s \in Streams, NEW m \in Nat, NEW k \in Nat, NEW n \in Nat,
                    m <= k, k <= n
             PROVE  Run(s, m, k) \o Run(s, k, n) = Run(s, m, n)
    OBVIOUS
<1>1. Run(s, m, k) \in Seq(Message) /\ Len(Run(s, m, k)) = k - m
  BY RunIs
<1>2. Run(s, k, n) \in Seq(Message) /\ Len(Run(s, k, n)) = n - k
  BY RunIs
<1>3. Run(s, m, n) \in Seq(Message) /\ Len(Run(s, m, n)) = n - m
  BY RunIs
<1>4. /\ Run(s, m, k) \o Run(s, k, n) \in Seq(Message)
      /\ Len(Run(s, m, k) \o Run(s, k, n)) = n - m
  <2>1. /\ Run(s, m, k) \o Run(s, k, n) \in Seq(Message)
        /\ Len(Run(s, m, k) \o Run(s, k, n)) = Len(Run(s, m, k)) + Len(Run(s, k, n))
    BY <1>1, <1>2, ConcatProperties
  <2>. QED
    BY <1>1, <1>2, <2>1
<1>5. ASSUME NEW i \in 1..(n - m)
      PROVE  (Run(s, m, k) \o Run(s, k, n))[i] = Run(s, m, n)[i]
  <2>1. Run(s, m, n)[i] = [id |-> s, at |-> m + i]
    BY DEF Run
  <2>2. CASE i <= k - m
    <3>1. Run(s, m, k)[i] = [id |-> s, at |-> m + i]
      BY <2>2, RunAt
    <3>. QED
      BY <1>1, <1>2, <2>1, <2>2, <3>1, ConcatProperties
  <2>3. CASE ~(i <= k - m)
    <3>1. i - (k - m) \in 1..(n - k)
      BY <2>3
    <3>2. Run(s, k, n)[i - (k - m)] = [id |-> s, at |-> k + (i - (k - m))]
      BY <3>1, RunAt
    <3>3. k + (i - (k - m)) = m + i
      OBVIOUS
    <3>. QED
      BY <1>1, <1>2, <2>1, <2>3, <3>2, <3>3, ConcatProperties
  <2>. QED
    BY <2>2, <2>3
<1>. QED
  BY <1>3, <1>4, <1>5, SameMessages

(* The first event of a run and the rest. *)
LEMMA RunTail ==
  ASSUME NEW s \in Streams, NEW m \in Nat, NEW n \in Nat, m < n
  PROVE  /\ Head(Run(s, m, n)) = [id |-> s, at |-> m + 1]
         /\ Tail(Run(s, m, n)) = Run(s, m + 1, n)
<1>1. Run(s, m, n) \in Seq(Message) /\ Len(Run(s, m, n)) = n - m
  BY RunIs
<1>2. Run(s, m + 1, n) \in Seq(Message) /\ Len(Run(s, m + 1, n)) = n - (m + 1)
  BY RunIs
<1>3. Run(s, m, n)[1] = [id |-> s, at |-> m + 1]
  BY 1 \in 1..(n - m) DEF Run
<1>4. Run(s, m, n) # <<>>
  BY <1>1
<1>5. /\ Tail(Run(s, m, n)) \in Seq(Message)
      /\ Len(Tail(Run(s, m, n))) = n - (m + 1)
      /\ \A i \in 1..(n - (m + 1)) : Tail(Run(s, m, n))[i] = Run(s, m, n)[i + 1]
  BY <1>1, <1>4, HeadTailProperties
<1>6. ASSUME NEW i \in 1..(n - (m + 1))
      PROVE  Tail(Run(s, m, n))[i] = Run(s, m + 1, n)[i]
  <2>1. Run(s, m, n)[i + 1] = [id |-> s, at |-> m + (i + 1)]
    BY RunAt
  <2>2. Run(s, m + 1, n)[i] = [id |-> s, at |-> (m + 1) + i]
    BY RunAt
  <2>3. m + (i + 1) = (m + 1) + i
    OBVIOUS
  <2>. QED
    BY <1>5, <2>1, <2>2, <2>3
<1>7. Tail(Run(s, m, n)) = Run(s, m + 1, n)
  BY <1>2, <1>5, <1>6, SameMessages
<1>. QED
  BY <1>1, <1>3, <1>4, <1>7

(* The beginning of a run. *)
LEMMA RunPrefix ==
  ASSUME NEW s \in Streams, NEW m \in Nat, NEW n \in Nat, m <= n, NEW k \in 0..(n - m)
  PROVE  SubSeq(Run(s, m, n), 1, k) = Run(s, m, m + k)
<1>1. Run(s, m, m + k) \in Seq(Message) /\ Len(Run(s, m, m + k)) = k
  <2>1. m + k \in Nat /\ m <= m + k /\ (m + k) - m = k
    OBVIOUS
  <2>. QED
    BY <2>1, RunIs
<1>2. \A i \in 1..k : Run(s, m, n)[i] \in Message /\ Run(s, m, n)[i] = Run(s, m, m + k)[i]
  BY DEF Run, Message
<1>3. /\ SubSeq(Run(s, m, n), 1, k) \in Seq(Message)
      /\ Len(SubSeq(Run(s, m, n), 1, k)) = k
      /\ \A i \in 1..k : SubSeq(Run(s, m, n), 1, k)[i] = Run(s, m, n)[i]
  BY <1>2, SubSeqProperties
<1>. QED
  BY <1>1, <1>2, <1>3, SameMessages

(* What a stream emits, and that it ends with its first close. *)
FeedEvents == {"chunk", "error"} \cup FeedCloses
FeedInv ==
  /\ feed \in [Streams -> Seq(FeedEvents)]
  /\ \A s \in Streams : \A i \in 1..Len(feed[s]) :
       feed[s][i] \in FeedCloses => i = Len(feed[s])

Boxes ==
  /\ answer \in [Streams -> {"none", "id", "error"}]
  /\ bus \in [Streams -> Seq(Message)]
  /\ pending \in [Streams -> [Streams -> Seq(Message)]]
  /\ heard \in [Streams -> Seq(Message)]

(* What is on its way is the end of what was emitted. *)
Underway ==
  \A s \in Streams :
    /\ Len(bus[s]) <= Len(feed[s])
    /\ bus[s] = Run(s, Len(feed[s]) - Len(bus[s]), Len(feed[s]))

(* Nothing is emitted before the start is answered with an id, nothing is  *)
(* buffered before begin() or after attach, and only what closes a         *)
(* subscription gives it an outcome.                                       *)
Quiet ==
  \A s \in Streams :
    /\ answer[s] # "id" => feed[s] = <<>>
    /\ call[s] \in {"idle", "offline"} => answer[s] = "none"
    /\ call[s] \in {"idle", "attached"} => pending[s][s] = <<>>
    /\ s \notin closed => outcome[s] = "open"

(* Heard, buffered and on its way are three runs that meet. *)
Meets(s) ==
  /\ Len(heard[s]) + Len(pending[s][s]) + Len(bus[s]) = Len(feed[s])
  /\ heard[s] = Run(s, 0, Len(heard[s]))
  /\ pending[s][s] =
       Run(s, Len(heard[s]), Len(heard[s]) + Len(pending[s][s]))
Arrived == \A s \in listening : Meets(s)

FlowInv == FeedInv /\ Boxes /\ Underway /\ Quiet /\ Arrived

(* A run from the beginning. *)
LEMMA RunWhole ==
  \A s \in Streams, n \in Nat : Run(s, 0, n) = [i \in 1..n |-> [id |-> s, at |-> i]]
<1> SUFFICES ASSUME NEW s \in Streams, NEW n \in Nat
             PROVE  Run(s, 0, n) = [i \in 1..n |-> [id |-> s, at |-> i]]
    OBVIOUS
<1>1. n - 0 = n /\ \A i \in 1..n : 0 + i = i
  OBVIOUS
<1>. QED
  BY <1>1 DEF Run

(* A handler that has heard the first h events and is given those up to    *)
(* the n-th hears them all, and the subscription closes with the last of   *)
(* them if that is the stream's close: no event follows it.                *)
LEMMA DispatchRun ==
  ASSUME FeedInv, heard \in [Streams -> Seq(Message)],
         NEW s \in Streams, NEW h \in Nat, NEW n \in Nat,
         h <= n, n <= Len(feed[s]), heard[s] = Run(s, 0, h),
         Dispatch(s, Run(s, h, n))
  PROVE  /\ heard' = [heard EXCEPT ![s] = Run(s, 0, n)]
         /\ \/ /\ UNCHANGED <<closed, listening, outcome>>
               /\ n > h => feed[s][n] \notin FeedCloses
            \/ /\ n > h /\ feed[s][n] \in FeedCloses
               /\ closed' = closed \cup {s} /\ listening' = listening \ {s}
               /\ outcome' = [outcome EXCEPT ![s] = feed[s][n]]
<1>k. PICK k \in Nat : k = n - h
  OBVIOUS
<1>0. /\ n - h = k /\ n = h + k
      /\ feed[s] \in Seq(FeedEvents) /\ Len(feed[s]) \in Nat
  BY <1>k DEF FeedInv
<1>1. Run(s, h, n) \in Seq(Message) /\ Len(Run(s, h, n)) = k
  BY <1>0, RunIs
<1>2. \A i \in 1..k : Run(s, h, n)[i] = [id |-> s, at |-> h + i]
  BY <1>0 DEF Run
<1>3. \A i \in 1..k : Kind(Run(s, h, n)[i]) = feed[s][h + i]
  <2>1. ASSUME NEW m, NEW i \in 1..k, m = [id |-> s, at |-> h + i]
        PROVE  Kind(m) = feed[s][h + i]
    <3>1. m.id = s /\ m.at = h + i
      BY <2>1
    <3>. QED
      BY <3>1 DEF Kind
  <2>. QED
    BY <1>2, <2>1
<1>4. ClosesAt(Run(s, h, n)) = {i \in 1..k : feed[s][h + i] \in FeedCloses}
  BY <1>1, <1>3 DEF ClosesAt
<1>5. ASSUME NEW i \in 1..k, feed[s][h + i] \in FeedCloses PROVE i = k
  <2>1. h + i \in 1..Len(feed[s])
    BY <1>0
  <2>2. h + i = Len(feed[s])
    BY <1>5, <2>1 DEF FeedInv
  <2>. QED
    BY <1>0, <2>2
<1>6. heard[s] \o Run(s, h, n) = Run(s, 0, n)
  <2>1. PICK z \in Nat : z = 0
    OBVIOUS
  <2>2. z <= h
    BY <2>1
  <2>3. Run(s, z, h) \o Run(s, h, n) = Run(s, z, n)
    BY <2>2, RunJoin
  <2>. QED
    BY <2>1, <2>3
<1>7. UpToClose(Run(s, h, n)) = Run(s, h, n)
  <2>1. CASE ClosesAt(Run(s, h, n)) = {}
    BY <2>1 DEF UpToClose
  <2>2. CASE ClosesAt(Run(s, h, n)) # {}
    <3>1. ClosesAt(Run(s, h, n)) = {k}
      BY <1>4, <1>5, <2>2
    <3>2. (CHOOSE i \in {k} : \A j \in {k} : i <= j) = k
      OBVIOUS
    <3>3. UpToClose(Run(s, h, n)) = SubSeq(Run(s, h, n), 1, k)
      BY <2>2, <3>1, <3>2 DEF UpToClose
    <3>4. k \in 0..(n - h)
      BY <1>0
    <3>. QED
      BY <1>0, <3>3, <3>4, RunPrefix
  <2>. QED
    BY <2>1, <2>2
<1>8. heard' = [heard EXCEPT ![s] = Run(s, 0, n)]
  BY <1>6, <1>7 DEF Dispatch
<1>9. CASE ClosesAt(Run(s, h, n)) = {}
  <2>1. UNCHANGED <<closed, listening, outcome>>
    BY <1>9 DEF Dispatch
  <2>2. n > h => k \in 1..k
    BY <1>0
  <2>. QED
    BY <1>0, <1>4, <1>8, <1>9, <2>1, <2>2
<1>10. CASE ClosesAt(Run(s, h, n)) # {}
  <2>1. n > h /\ k \in 1..k /\ feed[s][n] \in FeedCloses
    <3>1. PICK i \in 1..k : feed[s][h + i] \in FeedCloses
      BY <1>4, <1>10
    <3>2. i = k
      BY <1>5, <3>1
    <3>3. n > h /\ k \in 1..k
      BY <1>0, <3>2
    <3>. QED
      BY <1>0, <3>1, <3>2, <3>3
  <2>2. /\ closed' = closed \cup {s} /\ listening' = listening \ {s}
        /\ outcome' = [outcome EXCEPT ![s] =
             Kind(UpToClose(Run(s, h, n))[Len(UpToClose(Run(s, h, n)))])]
    BY <1>10 DEF Dispatch
  <2>3. outcome' = [outcome EXCEPT ![s] = Kind(Run(s, h, n)[k])]
    BY <1>1, <1>7, <2>2
  <2>. QED
    BY <1>0, <1>3, <1>8, <2>1, <2>2, <2>3
<1>. QED
  BY <1>9, <1>10

(* What the Go side emits joins what is on its way. *)
LEMMA Emits ==
  ASSUME FeedInv, Boxes, Underway, Arrived, listening \subseteq Streams,
         NEW s \in Streams, NEW es \in Seq(FeedEvents),
         \A i \in 1..Len(es) : es[i] \in FeedCloses => i = Len(es),
         GoEmits(s, es)
  PROVE  FeedInv' /\ Boxes' /\ Underway' /\ Arrived'
<1> DEFINE f == Len(feed[s])  b == Len(bus[s])  n == Len(es)
<1>0. /\ feed[s] \in Seq(FeedEvents) /\ f \in Nat /\ b \in Nat /\ n \in Nat /\ b <= f
      /\ feed \in [Streams -> Seq(FeedEvents)]
      /\ bus \in [Streams -> Seq(Message)] /\ bus[s] \in Seq(Message)
  BY DEF FeedInv, Boxes, Underway
<1>1. /\ feed' = [feed EXCEPT ![s] = feed[s] \o es]
      /\ bus' = [bus EXCEPT ![s] = bus[s] \o Travel(s, es)]
      /\ ~FeedClosed(s)
      /\ UNCHANGED <<answer, listening, pending, heard>>
  BY DEF GoEmits, Emit, subVars
<1>2. /\ feed[s] \o es \in Seq(FeedEvents) /\ Len(feed[s] \o es) = f + n
      /\ \A i \in 1..(f + n) : (feed[s] \o es)[i] = IF i <= f THEN feed[s][i] ELSE es[i - f]
  BY <1>0, ConcatProperties
<1>3. feed' \in [Streams -> Seq(FeedEvents)] /\ feed'[s] = feed[s] \o es
      /\ \A t \in Streams : t # s => feed'[t] = feed[t]
  BY <1>0, <1>1, <1>2
<1>4. ASSUME NEW i \in 1..f PROVE feed[s][i] \notin FeedCloses
  <2>1. CASE feed[s] = <<>>
    <3>1. f = 0
      BY <2>1
    <3>. QED
      BY <3>1
  <2>2. CASE feed[s] # <<>>
    BY <1>0, <1>1, <2>2 DEF FeedClosed, FeedInv
  <2>. QED
    BY <2>1, <2>2
<1>5. ASSUME NEW i \in 1..(f + n), (feed[s] \o es)[i] \in FeedCloses PROVE i = f + n
  <2>1. CASE i <= f
    BY <1>0, <1>2, <1>4, <1>5, <2>1
  <2>2. CASE ~(i <= f)
    <3>1. i - f \in 1..n /\ es[i - f] \in FeedCloses
      BY <1>0, <1>2, <1>5, <2>2
    <3>2. i - f = n
      BY <3>1
    <3>. QED
      BY <1>0, <3>2
  <2>. QED
    BY <2>1, <2>2
<1>6. FeedInv'
  <2>1. ASSUME NEW t \in Streams, NEW i \in 1..Len(feed'[t]), feed'[t][i] \in FeedCloses
        PROVE  i = Len(feed'[t])
    <3>1. CASE t = s
      BY <1>2, <1>3, <1>5, <2>1, <3>1
    <3>2. CASE t # s
      BY <1>3, <2>1, <3>2 DEF FeedInv
    <3>. QED
      BY <3>1, <3>2
  <2>. QED
    BY <1>3, <2>1 DEF FeedInv
<1>7. Travel(s, es) = Run(s, f, f + n)
  <2>1. (f + n) - f = n
    BY <1>0
  <2>. QED
    BY <2>1 DEF Travel, Run
<1>8. bus[s] \o Travel(s, es) = Run(s, f - b, f + n)
  <2>1. f - b \in Nat /\ f + n \in Nat /\ f - b <= f /\ f <= f + n
    BY <1>0
  <2>2. bus[s] = Run(s, f - b, f)
    BY DEF Underway
  <2>3. Run(s, f - b, f) \o Run(s, f, f + n) = Run(s, f - b, f + n)
    BY <1>0, <2>1, RunJoin
  <2>. QED
    BY <1>7, <2>2, <2>3, Zenon
<1>9. /\ Run(s, f - b, f + n) \in Seq(Message)
      /\ Len(Run(s, f - b, f + n)) = b + n
  <2>1. f - b \in Nat /\ f + n \in Nat /\ f - b <= f + n /\ (f + n) - (f - b) = b + n
    BY <1>0
  <2>. QED
    BY <2>1, RunIs
<1>10. /\ bus' \in [Streams -> Seq(Message)] /\ bus'[s] = Run(s, f - b, f + n)
       /\ \A t \in Streams : t # s => bus'[t] = bus[t]
  BY <1>0, <1>1, <1>8, <1>9
<1>11. Boxes'
  BY <1>1, <1>10 DEF Boxes
<1>12. Underway'
  <2>1. ASSUME NEW t \in Streams, t # s
        PROVE  /\ Len(bus'[t]) <= Len(feed'[t])
               /\ bus'[t] = Run(t, Len(feed'[t]) - Len(bus'[t]), Len(feed'[t]))
    BY <1>3, <1>10, <2>1 DEF Underway
  <2>2. Len(bus'[s]) = b + n /\ Len(feed'[s]) = f + n
    BY <1>2, <1>3, <1>9, <1>10
  <2>3. b + n <= f + n /\ (f + n) - (b + n) = f - b
    BY <1>0
  <2>4. /\ Len(bus'[s]) <= Len(feed'[s])
        /\ bus'[s] = Run(s, Len(feed'[s]) - Len(bus'[s]), Len(feed'[s]))
    BY <1>10, <2>2, <2>3
  <2>. QED
    BY <2>1, <2>4 DEF Underway
<1>13. Arrived'
  <2> SUFFICES ASSUME NEW t \in listening PROVE Meets(t)'
      BY <1>1 DEF Arrived
  <2>1. Meets(t) /\ t \in Streams
    BY DEF Arrived
  <2>2. CASE t # s
    BY <1>1, <1>3, <1>10, <2>1, <2>2 DEF Meets
  <2>3. CASE t = s
    <3>1. Len(heard[s]) \in Nat /\ Len(pending[s][s]) \in Nat
      BY DEF Boxes
    <3>2. Len(bus'[s]) = b + n /\ Len(feed'[s]) = f + n
      BY <1>2, <1>3, <1>9, <1>10
    <3>3. Len(heard[s]) + Len(pending[s][s]) + b = f
      BY <2>1, <2>3 DEF Meets
    <3>4. b \in Nat /\ n \in Nat /\ f \in Nat
      BY <1>0
    <3>5. Len(heard[s]) + Len(pending[s][s]) + (b + n) = f + n
      <4>1. \A u, x, y \in Nat : u + x \in Nat /\ u + (x + y) = (u + x) + y
        OBVIOUS
      <4>2. Len(heard[s]) + Len(pending[s][s]) \in Nat
        BY <3>1, <3>4, <4>1, Zenon
      <4>3. Len(heard[s]) + Len(pending[s][s]) + (b + n)
              = (Len(heard[s]) + Len(pending[s][s]) + b) + n
        BY <3>4, <4>1, <4>2, Zenon
      <4>. QED
        BY <3>3, <4>3, Zenon
    <3>. QED
      BY <1>1, <2>1, <2>3, <3>2, <3>5 DEF Meets
  <2>. QED
    BY <2>2, <2>3
<1>. QED
  BY <1>6, <1>11, <1>12, <1>13

(* A handler is given the next events of its own stream. *)
Given(s) ==
  /\ s \in listening \ closed
  /\ \E h, n \in Nat :
       /\ h <= n /\ n <= Len(feed[s]) /\ heard[s] = Run(s, 0, h)
       /\ Dispatch(s, Run(s, h, n))

(* An event that arrives is buffered, dispatched or ignored. *)
LEMMA Arrives ==
  ASSUME EarsInv, FlowInv, NEW s \in Streams, Deliver(s)
  PROVE  /\ Boxes' /\ Underway' /\ Quiet' /\ Arrived'
         /\ Given(s) \/ UNCHANGED <<heard, closed, listening, outcome>>
<1> USE DEF FlowInv
<1>0. /\ feed \in [Streams -> Seq(FeedEvents)] /\ bus \in [Streams -> Seq(Message)]
      /\ pending \in [Streams -> [Streams -> Seq(Message)]]
      /\ heard \in [Streams -> Seq(Message)]
      /\ Len(feed[s]) \in Nat /\ Len(bus[s]) \in Nat /\ bus[s] # <<>>
      /\ listening \subseteq Streams
  BY DEF FeedInv, Boxes, Deliver, EarsInv, Shapes
<1>1. PICK f \in Nat : f = Len(feed[s])
  BY <1>0
<1>2. PICK b \in Nat : b = Len(bus[s])
  BY <1>0
<1>3. b > 0 /\ b <= f
  BY <1>0, <1>1, <1>2 DEF Underway
<1>4. PICK g \in Nat : g + b = f
  <2>1. f - b \in Nat /\ (f - b) + b = f
    BY <1>3
  <2>. QED
    BY <2>1
<1>5. bus[s] = Run(s, g, f)
  <2>1. f - b = g
    BY <1>4
  <2>. QED
    BY <1>1, <1>2, <2>1 DEF Underway
<1>6. /\ Head(bus[s]) = [id |-> s, at |-> g + 1] /\ Tail(bus[s]) = Run(s, g + 1, f)
      /\ Head(bus[s]) \in Message
  <2>1. g < f
    BY <1>3, <1>4
  <2>2. Head(Run(s, g, f)) = [id |-> s, at |-> g + 1] /\ Tail(Run(s, g, f)) = Run(s, g + 1, f)
    BY <2>1, RunTail
  <2>. QED
    BY <1>5, <2>2 DEF Message
<1>7. Run(s, g + 1, f) \in Seq(Message) /\ Len(Run(s, g + 1, f)) = b - 1
  <2>1. g + 1 \in Nat /\ g + 1 <= f /\ f - (g + 1) = b - 1
    BY <1>3, <1>4
  <2>. QED
    BY <2>1, RunIs
<1>8. /\ bus' \in [Streams -> Seq(Message)] /\ bus'[s] = Run(s, g + 1, f)
      /\ \A t \in Streams : t # s => bus'[t] = bus[t]
      /\ Len(bus'[s]) = b - 1
  BY <1>0, <1>6, <1>7 DEF Deliver
<1>9. <<Head(bus[s])>> = Run(s, g, g + 1)
  BY <1>6, RunOne
<1>10. /\ feed' = feed /\ answer' = answer /\ call' = call
       /\ pending' = [t \in Streams |->
            IF t \in Buffering THEN [pending[t] EXCEPT ![s] = Append(pending[t][s], Head(bus[s]))]
                               ELSE pending[t]]
  BY DEF Deliver
<1>11. /\ pending' \in [Streams -> [Streams -> Seq(Message)]]
       /\ \A t \in Streams : t \notin Buffering => pending'[t] = pending[t]
       /\ \A t \in Streams : t # s => pending'[t][t] = pending[t][t]
       /\ s \in Buffering => pending'[s][s] = Append(pending[s][s], Head(bus[s]))
  <2>1. \A t \in Streams : Append(pending[t][s], Head(bus[s])) \in Seq(Message)
    BY <1>0, <1>6, AppendProperties
  <2>2. \A t \in Streams : pending'[t] \in [Streams -> Seq(Message)]
    BY <1>0, <1>10, <2>1
  <2>3. pending' \in [Streams -> [Streams -> Seq(Message)]]
    BY <1>10, <2>2
  <2>. QED
    BY <1>0, <1>10, <2>3
<1>12. Underway'
  <2>1. ASSUME NEW t \in Streams, t # s
        PROVE  /\ Len(bus'[t]) <= Len(feed'[t])
               /\ bus'[t] = Run(t, Len(feed'[t]) - Len(bus'[t]), Len(feed'[t]))
    BY <1>8, <1>10, <2>1 DEF Underway
  <2>2. Len(bus'[s]) = b - 1 /\ Len(feed'[s]) = f
    BY <1>1, <1>8, <1>10
  <2>3. b - 1 <= f /\ f - (b - 1) = g + 1
    BY <1>3, <1>4
  <2>4. /\ Len(bus'[s]) <= Len(feed'[s])
        /\ bus'[s] = Run(s, Len(feed'[s]) - Len(bus'[s]), Len(feed'[s]))
    BY <1>8, <2>2, <2>3
  <2>. QED
    BY <2>1, <2>4 DEF Underway
(* Whoever hears nothing of this event keeps what it had. *)
<1>13. ASSUME NEW t \in listening', heard'[t] = heard[t], t \in listening, t # s
       PROVE  Meets(t)'
  BY <1>0, <1>8, <1>10, <1>11, <1>13 DEF Meets, Arrived
<1>14. Known(s) => pending[s][s] = <<>>
  BY DEF Quiet, Known
<1>15. CASE s \in listening \ closed /\ Known(s)
  <2>1. Dispatch(s, Run(s, g, g + 1))
    BY <1>9, <1>15 DEF Deliver
  <2>2. pending[s][s] = <<>> /\ Meets(s) /\ Len(heard[s]) \in Nat
    BY <1>0, <1>14, <1>15 DEF Arrived
  <2>3. Len(heard[s]) = g /\ heard[s] = Run(s, 0, g)
    <3>1. Len(pending[s][s]) = 0
      BY <2>2
    <3>2. PICK h \in Nat : h = Len(heard[s])
      BY <2>2
    <3>3. Len(heard[s]) = g
      <4>1. h + 0 + b = f
        BY <1>1, <1>2, <2>2, <3>1, <3>2 DEF Meets
      <4>. QED
        BY <1>4, <3>2, <4>1
    <3>. QED
      BY <2>2, <3>3 DEF Meets
  <2>4. g + 1 <= Len(feed[s]) /\ g <= g + 1 /\ g + 1 \in Nat
    BY <1>1, <1>3, <1>4
  <2>5. /\ heard' = [heard EXCEPT ![s] = Run(s, 0, g + 1)]
        /\ \/ UNCHANGED <<closed, listening, outcome>>
           \/ /\ closed' = closed \cup {s} /\ listening' = listening \ {s}
              /\ outcome' = [outcome EXCEPT ![s] = feed[s][g + 1]]
    BY <1>0, <2>1, <2>3, <2>4, DispatchRun
  <2>6. Run(s, 0, g + 1) \in Seq(Message) /\ Len(Run(s, 0, g + 1)) = g + 1
    <3>1. g + 1 \in Nat /\ 0 \in Nat /\ 0 <= g + 1 /\ (g + 1) - 0 = g + 1
      OBVIOUS
    <3>. QED
      BY <3>1, RunIs
  <2>7. /\ heard' \in [Streams -> Seq(Message)] /\ heard'[s] = Run(s, 0, g + 1)
        /\ \A t \in Streams : t # s => heard'[t] = heard[t]
    BY <1>0, <2>5, <2>6
  <2>8. Boxes'
    BY <1>8, <1>10, <1>11, <2>7 DEF Boxes
  <2>9. Quiet'
    <3>1. \A t \in Streams : t \notin closed' => outcome'[t] = outcome[t] /\ t \notin closed
      BY <2>5 DEF EarsInv, Shapes
    <3>2. \A t \in Streams : call[t] \in {"idle", "attached"} => t \notin Buffering
      BY DEF EarsInv, Ears, Buffering, Known
    <3>. QED
      BY <1>10, <1>11, <3>1, <3>2 DEF Quiet
  <2>10. Meets(s)'
    <3>1. pending'[s][s] = <<>> /\ Len(heard'[s]) = g + 1
      BY <1>11, <1>15, <2>2, <2>6, <2>7 DEF Buffering
    <3>2. (g + 1) + 0 + (b - 1) = f /\ (g + 1) + 0 = g + 1 /\ (g + 1) - (g + 1) = 0
      BY <1>4
    <3>3. Run(s, g + 1, g + 1) = <<>>
      <4>1. g + 1 \in Nat /\ g + 1 <= g + 1
        OBVIOUS
      <4>2. Run(s, g + 1, g + 1) \in Seq(Message) /\ Len(Run(s, g + 1, g + 1)) = 0
        BY <3>2, <4>1, RunIs
      <4>. QED
        BY <4>2
    <3>4. Len(heard'[s]) + Len(pending'[s][s]) + Len(bus'[s]) = Len(feed'[s])
      BY <1>1, <1>8, <1>10, <3>1, <3>2
    <3>5. Len(heard'[s]) + Len(pending'[s][s]) = g + 1
      BY <3>1, <3>2
    <3>. QED
      BY <2>7, <3>1, <3>3, <3>4, <3>5 DEF Meets
  <2>11. Arrived'
    <3>1. \A t \in listening' : t \in listening /\ t \in Streams
      BY <1>0, <2>5
    <3>. QED
      BY <1>13, <2>7, <2>10, <3>1 DEF Arrived
  <2>12. Given(s)
    BY <1>15, <2>1, <2>3, <2>4 DEF Given
  <2>. QED
    BY <1>12, <2>8, <2>9, <2>11, <2>12
<1>16. CASE ~(s \in listening \ closed /\ Known(s))
  <2>1. UNCHANGED <<heard, closed, listening, outcome>>
    BY <1>16 DEF Deliver
  <2>2. Boxes'
    BY <1>8, <1>10, <1>11, <2>1 DEF Boxes
  <2>3. Quiet'
    <3>1. \A t \in Streams : call[t] \in {"idle", "attached"} => t \notin Buffering
      BY DEF EarsInv, Ears, Buffering, Known
    <3>. QED
      BY <1>10, <1>11, <2>1, <3>1 DEF Quiet
  <2>4. ASSUME s \in listening PROVE Meets(s)'
    <3>1. s \in Buffering
      BY <1>16, <2>4 DEF Buffering, EarsInv, Ears
    <3>2. Meets(s)
      BY <2>4 DEF Arrived
    <3>3. PICK h \in Nat : h = Len(heard[s])
      BY <1>0
    <3>4. PICK p \in Nat : p = Len(pending[s][s])
      BY <1>0
    <3>5. h + p = g
      <4>1. h + p + b = f
        BY <1>1, <1>2, <3>2, <3>3, <3>4 DEF Meets
      <4>. QED
        BY <1>4, <4>1
    <3>6. pending[s][s] = Run(s, h, g)
      BY <3>2, <3>3, <3>4, <3>5 DEF Meets
    <3>7. pending'[s][s] = Run(s, h, g + 1)
      <4>1. Append(pending[s][s], Head(bus[s])) = pending[s][s] \o <<Head(bus[s])>>
        BY <1>0, <1>6, AppendIsConcat
      <4>2. h <= g /\ g <= g + 1 /\ g + 1 \in Nat
        BY <3>5
      <4>3. Run(s, h, g) \o Run(s, g, g + 1) = Run(s, h, g + 1)
        BY <4>2, RunJoin
      <4>4. pending'[s][s] = pending[s][s] \o <<Head(bus[s])>>
        BY <1>11, <3>1, <4>1
      <4>. QED
        BY <1>9, <3>6, <4>3, <4>4
    <3>8. Len(Run(s, h, g + 1)) = p + 1
      <4>1. h <= g + 1 /\ g + 1 \in Nat /\ (g + 1) - h = p + 1
        BY <3>5
      <4>. QED
        BY <4>1, RunIs
    <3>9. h + (p + 1) + (b - 1) = f /\ h + (p + 1) = g + 1
      BY <1>4, <3>5
    <3>10. Len(heard'[s]) = h /\ Len(pending'[s][s]) = p + 1 /\ Len(feed'[s]) = f
      BY <1>1, <1>10, <2>1, <3>3, <3>7, <3>8
    <3>11. Len(heard'[s]) + Len(pending'[s][s]) + Len(bus'[s]) = Len(feed'[s])
      BY <1>8, <3>9, <3>10
    <3>12. pending'[s][s] = Run(s, Len(heard'[s]), Len(heard'[s]) + Len(pending'[s][s]))
      BY <3>7, <3>9, <3>10
    <3>13. heard'[s] = Run(s, 0, Len(heard'[s]))
      BY <2>1, <3>2 DEF Meets
    <3>. QED
      BY <3>11, <3>12, <3>13 DEF Meets
  <2>5. Arrived'
    BY <1>13, <2>1, <2>4 DEF Arrived
  <2>. QED
    BY <1>12, <2>1, <2>2, <2>3, <2>5
<1>. QED
  BY <1>15, <1>16

(* The id arrives: the buffer is handed over whole. *)
LEMMA Attaches ==
  ASSUME EarsInv, SilentBefore, FlowInv, NEW s \in Streams, attach(s)
  PROVE  /\ Boxes' /\ Quiet' /\ Arrived'
         /\ Given(s)
<1> USE DEF FlowInv
<1>0. /\ feed \in [Streams -> Seq(FeedEvents)] /\ bus \in [Streams -> Seq(Message)]
      /\ pending \in [Streams -> [Streams -> Seq(Message)]]
      /\ heard \in [Streams -> Seq(Message)] /\ call \in [Streams -> Calls]
      /\ Len(feed[s]) \in Nat /\ Len(bus[s]) \in Nat /\ Len(pending[s][s]) \in Nat
      /\ listening \subseteq Streams
  BY DEF FeedInv, Boxes, EarsInv, Shapes
<1>1. /\ call[s] = "waiting" /\ call' = [call EXCEPT ![s] = "attached"]
      /\ s \in listening \ closed /\ heard[s] = <<>> /\ Meets(s)
      /\ pending' = [pending EXCEPT ![s] = [t \in Streams |-> <<>>]]
      /\ Dispatch(s, pending[s][s])
      /\ UNCHANGED <<feed, bus, answer>> /\ answer[s] = "id"
  BY DEF attach, EarsInv, Ears, SilentBefore, Arrived, goVars
<1>2. PICK p \in Nat : p = Len(pending[s][s])
  BY <1>0
<1>3. PICK b \in Nat : b = Len(bus[s])
  BY <1>0
<1>4. PICK f \in Nat : f = Len(feed[s])
  BY <1>0
<1>5. p + b = f
  <2>1. Len(heard[s]) = 0
    BY <1>1
  <2>2. 0 + p + b = f
    BY <1>1, <1>2, <1>3, <1>4, <2>1 DEF Meets
  <2>. QED
    BY <2>2
<1>6. heard[s] = Run(s, 0, 0)
  <2>1. Len(heard[s]) = 0
    BY <1>1
  <2>. QED
    BY <1>1, <2>1 DEF Meets
<1>7. pending[s][s] = Run(s, 0, p)
  <2>1. Len(heard[s]) = 0 /\ 0 + p = p
    BY <1>1
  <2>. QED
    BY <1>1, <1>2, <2>1 DEF Meets
<1>8. Dispatch(s, Run(s, 0, p)) /\ p <= Len(feed[s]) /\ 0 \in Nat /\ 0 <= p
  BY <1>1, <1>4, <1>5, <1>7
<1>9. /\ heard' = [heard EXCEPT ![s] = Run(s, 0, p)]
      /\ \/ UNCHANGED <<closed, listening, outcome>>
         \/ /\ closed' = closed \cup {s} /\ listening' = listening \ {s}
            /\ outcome' = [outcome EXCEPT ![s] = feed[s][p]]
  BY <1>0, <1>6, <1>8, DispatchRun
<1>10. Run(s, 0, p) \in Seq(Message) /\ Len(Run(s, 0, p)) = p
  <2>1. p \in Nat /\ 0 <= p /\ p - 0 = p /\ 0 \in Nat
    OBVIOUS
  <2>. QED
    BY <2>1, RunIs
<1>11. /\ heard' \in [Streams -> Seq(Message)] /\ heard'[s] = Run(s, 0, p)
       /\ \A t \in Streams : t # s => heard'[t] = heard[t]
  BY <1>0, <1>9, <1>10
<1>12. /\ pending' \in [Streams -> [Streams -> Seq(Message)]]
       /\ pending'[s][s] = <<>>
       /\ \A t \in Streams : t # s => pending'[t] = pending[t]
  <2>1. [t \in Streams |-> <<>>] \in [Streams -> Seq(Message)]
    BY EmptySeq
  <2>. QED
    BY <1>0, <1>1, <2>1
<1>13. Boxes'
  BY <1>1, <1>11, <1>12 DEF Boxes
<1>14. Quiet'
  <2>1. \A t \in Streams : t \notin closed' => outcome'[t] = outcome[t] /\ t \notin closed
    BY <1>9 DEF EarsInv, Shapes
  <2>2. \A t \in Streams : t # s => call'[t] = call[t]
    BY <1>0, <1>1
  <2>3. call'[s] = "attached"
    BY <1>0, <1>1
  <2>. QED
    BY <1>1, <1>12, <2>1, <2>2, <2>3 DEF Quiet
<1>15. Arrived'
  <2> SUFFICES ASSUME NEW t \in listening' PROVE Meets(t)'
      BY DEF Arrived
  <2>1. t \in listening /\ t \in Streams
    BY <1>0, <1>9
  <2>2. CASE t # s
    BY <1>1, <1>11, <1>12, <2>1, <2>2 DEF Meets, Arrived
  <2>3. CASE t = s
    <3>1. Len(heard'[s]) = p /\ Len(pending'[s][s]) = 0 /\ Len(bus'[s]) = b /\ Len(feed'[s]) = f
      BY <1>1, <1>3, <1>4, <1>10, <1>11, <1>12
    <3>2. p + 0 + b = f /\ p + 0 = p /\ 0 + p = p
      BY <1>5
    <3>3. Run(s, p, p) = <<>>
      <4>1. p <= p /\ p - p = 0
        OBVIOUS
      <4>2. Run(s, p, p) \in Seq(Message) /\ Len(Run(s, p, p)) = 0
        BY <4>1, RunIs
      <4>. QED
        BY <4>2
    <3>4. Len(heard'[s]) + Len(pending'[s][s]) + Len(bus'[s]) = Len(feed'[s])
      BY <3>1, <3>2
    <3>5. Len(heard'[s]) + Len(pending'[s][s]) = p
      BY <3>1, <3>2
    <3>6. heard'[s] = Run(s, 0, p)
      BY <1>11, <3>2
    <3>. QED
      BY <1>12, <2>3, <3>1, <3>3, <3>4, <3>5, <3>6 DEF Meets
  <2>. QED
    BY <2>2, <2>3
<1>16. Given(s)
  BY <1>1, <1>6, <1>8 DEF Given
<1>. QED
  BY <1>13, <1>14, <1>15, <1>16

(* A step that hands nothing over and takes no new ears. *)
LEMMA FlowKept ==
  ASSUME FlowInv, UNCHANGED <<feed, bus, pending, heard, answer>>,
         listening' \subseteq listening
  PROVE  FeedInv' /\ Boxes' /\ Underway' /\ Arrived'
<1>1. FeedInv'
  BY DEF FlowInv, FeedInv
<1>2. Boxes' /\ Underway'
  BY DEF FlowInv, Boxes, Underway
<1>3. Arrived'
  BY DEF FlowInv, Arrived, Meets
<1>. QED
  BY <1>1, <1>2, <1>3

(* Nothing has been emitted. *)
LEMMA FlowInit == Init => FlowInv
<1> SUFFICES ASSUME Init PROVE FlowInv
    OBVIOUS
<1>1. FeedInv
  BY DEF Init, FeedInit, FeedInv
<1>2. Boxes
  BY DEF Init, Boxes
<1>3. Underway
  <2> SUFFICES ASSUME NEW s \in Streams
               PROVE  /\ Len(bus[s]) <= Len(feed[s])
                      /\ bus[s] = Run(s, Len(feed[s]) - Len(bus[s]), Len(feed[s]))
      BY DEF Underway
  <2>1. bus[s] = <<>> /\ Len(bus[s]) = 0 /\ Len(feed[s]) = 0
    BY DEF Init, FeedInit
  <2>2. Run(s, 0, 0) = <<>> /\ 0 - 0 = 0
    BY DEF Run
  <2>. QED
    BY <2>1, <2>2
<1>4. Quiet /\ Arrived
  BY DEF Init, FeedInit, Quiet, Arrived
<1>. QED
  BY <1>1, <1>2, <1>3, <1>4 DEF FlowInv

(* What begin() finds: nothing has been emitted for its stream. *)
LEMMA Begins ==
  ASSUME EarsInv, SilentBefore, FlowInv, NEW s \in Streams, Begin(s)
  PROVE  FlowInv'
<1>1. /\ UNCHANGED <<feed, bus, pending, heard, answer, closed, outcome>>
      /\ listening' \subseteq listening \cup {s}
      /\ call[s] = "idle" /\ call \in [Streams -> Calls]
      /\ \E c \in {"waiting", "offline"} : call' = [call EXCEPT ![s] = c]
  BY DEF Begin, goVars, EarsInv, Shapes
<1>2. feed[s] = <<>> /\ pending[s][s] = <<>> /\ heard[s] = <<>> /\ answer[s] = "none"
  BY <1>1 DEF FlowInv, Quiet, SilentBefore
<1>3. FeedInv' /\ Boxes' /\ Underway'
  BY <1>1 DEF FlowInv, FeedInv, Boxes, Underway
<1>4. Quiet'
  BY <1>1, <1>2 DEF FlowInv, Quiet
<1>5. Arrived'
  <2> SUFFICES ASSUME NEW t \in listening' PROVE Meets(t)
      BY <1>1 DEF Arrived, Meets
  <2>1. CASE t \in listening
    BY <2>1 DEF FlowInv, Arrived
  <2>2. CASE t = s
    <3>1. bus[s] \in Seq(Message) /\ Len(bus[s]) <= 0 /\ Len(bus[s]) \in Nat
      BY <1>2 DEF FlowInv, Boxes, Underway
    <3>2. Len(bus[s]) = 0
      BY <3>1
    <3>3. Run(s, 0, 0) = <<>> /\ Len(<<>>) = 0 /\ 0 + 0 + 0 = 0 /\ 0 + 0 = 0
      BY DEF Run
    <3>4. Len(heard[s]) = 0 /\ Len(pending[s][s]) = 0 /\ Len(feed[s]) = 0
      BY <1>2
    <3>. QED
      BY <1>2, <2>2, <3>2, <3>3, <3>4 DEF Meets
  <2>. QED
    BY <1>1, <2>1, <2>2
<1>. QED
  BY <1>3, <1>4, <1>5 DEF FlowInv

(* Every step keeps the flow. *)
LEMMA FlowStep ==
  EarsInv /\ SilentBefore /\ FlowInv /\ [Next]_vars => FlowInv'
<1> SUFFICES ASSUME EarsInv, SilentBefore, FlowInv, [Next]_vars PROVE FlowInv'
    OBVIOUS
<1>0. listening \subseteq Streams /\ call \in [Streams -> Calls]
  BY DEF EarsInv, Shapes
<1>1. ASSUME NEW s \in Streams, GoStarts(s) PROVE FlowInv'
  <2>1. /\ UNCHANGED <<feed, bus, subVars>> /\ call[s] = "waiting" /\ answer[s] = "none"
        /\ \E r \in {"id", "error"} : answer' = [answer EXCEPT ![s] = r]
    BY <1>1 DEF GoStarts
  <2>2. FeedInv' /\ Underway' /\ Arrived'
    BY <2>1 DEF FlowInv, FeedInv, Underway, Arrived, Meets, subVars
  <2>3. Boxes'
    BY <2>1 DEF FlowInv, Boxes, subVars
  <2>4. Quiet'
    BY <2>1 DEF FlowInv, Boxes, Quiet, subVars
  <2>. QED
    BY <2>2, <2>3, <2>4 DEF FlowInv
<1>2. ASSUME NEW s \in Streams, NEW es \in Seq(FeedEvents), GoEmits(s, es),
             \A i \in 1..Len(es) : es[i] \in FeedCloses => i = Len(es)
      PROVE  FlowInv'
  <2>1. FeedInv' /\ Boxes' /\ Underway' /\ Arrived'
    BY <1>0, <1>2, Emits DEF FlowInv
  <2>2. Quiet'
    <3>1. \A t \in Streams : t # s => feed'[t] = feed[t]
      BY <1>2 DEF GoEmits, Emit, FlowInv, FeedInv
    <3>2. answer[s] = "id" /\ UNCHANGED <<answer, subVars>>
      BY <1>2 DEF GoEmits
    <3>. QED
      BY <3>1, <3>2 DEF FlowInv, Quiet, subVars
  <2>. QED
    BY <2>1, <2>2 DEF FlowInv
<1>3. ASSUME NEW s \in Streams, GoChunk(s) PROVE FlowInv'
  <2>1. <<"chunk">> \in Seq(FeedEvents) /\ Len(<<"chunk">>) = 1
    BY DEF FeedEvents
  <2>2. \A i \in 1..Len(<<"chunk">>) : i = Len(<<"chunk">>)
    BY <2>1
  <2>. QED
    BY <1>2, <1>3, <2>1, <2>2 DEF GoChunk
<1>4. ASSUME NEW s \in Streams, GoCloses(s) PROVE FlowInv'
  <2>1. PICK es \in Farewells : GoEmits(s, es)
    BY <1>4 DEF GoCloses
  <2>2. es \in Seq(FeedEvents)
    <3>1. <<"stopped">> \in Seq(FeedEvents) /\ <<"eof">> \in Seq(FeedEvents)
      BY DEF FeedEvents, FeedCloses
    <3>2. <<"error", "failed">> \in Seq(FeedEvents)
      BY DEF FeedEvents, FeedCloses
    <3>. QED
      BY <3>1, <3>2 DEF Farewells
  <2>3. \A i \in 1..Len(es) : es[i] \in FeedCloses => i = Len(es)
    <3>1. CASE es = <<"error", "failed">>
      BY <3>1 DEF FeedCloses
    <3>2. CASE es # <<"error", "failed">>
      <4>1. Len(es) = 1
        BY <3>2 DEF Farewells
      <4>. QED
        BY <4>1
    <3>. QED
      BY <3>1, <3>2
  <2>. QED
    BY <1>2, <2>1, <2>2, <2>3
<1>5. ASSUME NEW s \in Streams, Begin(s) PROVE FlowInv'
  BY <1>5, Begins
<1>6. ASSUME NEW s \in Streams, attach(s) PROVE FlowInv'
  <2>1. Boxes' /\ Quiet' /\ Arrived'
    BY <1>6, Attaches
  <2>2. FeedInv' /\ Underway'
    BY <1>6 DEF attach, goVars, FlowInv, FeedInv, Underway
  <2>. QED
    BY <2>1, <2>2 DEF FlowInv
<1>7. ASSUME NEW s \in Streams, Deliver(s) PROVE FlowInv'
  <2>1. Boxes' /\ Underway' /\ Quiet' /\ Arrived'
    BY <1>7, Arrives
  <2>2. FeedInv'
    BY <1>7 DEF Deliver, FlowInv, FeedInv
  <2>. QED
    BY <2>1, <2>2 DEF FlowInv
<1>8. ASSUME NEW s \in Streams, cancel(s) PROVE FlowInv'
  <2>1. FeedInv' /\ Boxes' /\ Underway' /\ Arrived'
    BY <1>8, FlowKept DEF cancel, goVars
  <2>2. Quiet'
    BY <1>0, <1>8 DEF cancel, goVars, FlowInv, Quiet
  <2>. QED
    BY <2>1, <2>2 DEF FlowInv
<1>9. ASSUME NEW s \in Streams, StartThrows(s) PROVE FlowInv'
  <2>1. FeedInv' /\ Boxes' /\ Underway' /\ Arrived'
    BY <1>9, FlowKept DEF StartThrows, goVars
  <2>2. Quiet'
    BY <1>0, <1>9 DEF StartThrows, goVars, FlowInv, Quiet
  <2>. QED
    BY <2>1, <2>2 DEF FlowInv
<1>10. ASSUME NEW s \in Streams, stopOffline(s) PROVE FlowInv'
  <2>1. FeedInv' /\ Boxes' /\ Underway' /\ Arrived'
    BY <1>10, FlowKept DEF stopOffline, close, goVars
  <2>2. Quiet'
    BY <1>0, <1>10 DEF stopOffline, close, goVars, FlowInv, Quiet, EarsInv, Shapes
  <2>. QED
    BY <2>1, <2>2 DEF FlowInv
<1>11. ASSUME NEW s \in Streams, stop(s) PROVE FlowInv'
  <2>1. FeedInv' /\ Boxes' /\ Underway' /\ Arrived'
    BY <1>11, FlowKept DEF stop, goVars, subVars
  <2>2. Quiet'
    BY <1>11 DEF stop, goVars, subVars, FlowInv, Quiet
  <2>. QED
    BY <2>1, <2>2 DEF FlowInv
<1>12. ASSUME NEW s \in Streams, Stopped(s) PROVE FlowInv'
  <2>1. FeedInv' /\ Boxes' /\ Underway' /\ Arrived'
    BY <1>12, FlowKept DEF Stopped, close, goVars
  <2>2. Quiet'
    BY <1>0, <1>12 DEF Stopped, close, goVars, FlowInv, Quiet, EarsInv, Shapes
  <2>. QED
    BY <2>1, <2>2 DEF FlowInv
<1>13. CASE UNCHANGED vars
  <2>1. FeedInv' /\ Boxes' /\ Underway' /\ Arrived'
    BY <1>13, FlowKept DEF vars, goVars, subVars
  <2>2. Quiet'
    BY <1>13 DEF vars, goVars, subVars, FlowInv, Quiet
  <2>. QED
    BY <2>1, <2>2 DEF FlowInv
<1>14. CASE Rest
  BY <1>13, <1>14 DEF Rest
<1>. QED
  BY <1>1, <1>3, <1>4, <1>5, <1>6, <1>7, <1>8, <1>9, <1>10, <1>11, <1>12, <1>13, <1>14
     DEF Next

(* The flow holds in every behaviour. *)
THEOREM FlowHolds == Spec => [](EarsInv /\ SilentBefore /\ FlowInv)
<1>1. Init => EarsInv /\ SilentBefore /\ FlowInv
  BY BridgeInit, FlowInit
<1>2. (EarsInv /\ SilentBefore /\ FlowInv) /\ [Next]_vars
        => (EarsInv /\ SilentBefore /\ FlowInv)'
  BY EarsStep, SilentStep, FlowStep
<1>. QED
  BY <1>1, <1>2, PTL DEF Spec

(* While a subscription listens, what it has heard, buffered and has on    *)
(* its way is all the Go side emitted of its stream, in order and once.    *)
THEOREM LosesNothing == Spec => []NothingLost
<1>1. EarsInv /\ FlowInv => NothingLost
  <2> SUFFICES ASSUME EarsInv, FlowInv, NEW s \in listening
               PROVE  heard[s] \o pending[s][s] \o bus[s] =
                        [i \in 1..Len(feed[s]) |-> [id |-> s, at |-> i]]
      BY DEF NothingLost
  <2>0. /\ s \in Streams /\ Meets(s)
        /\ Len(feed[s]) \in Nat /\ Len(bus[s]) \in Nat
        /\ Len(heard[s]) \in Nat /\ Len(pending[s][s]) \in Nat
    BY DEF EarsInv, Shapes, FlowInv, FeedInv, Boxes, Arrived
  <2>1. PICK h \in Nat : h = Len(heard[s])
    BY <2>0
  <2>2. PICK p \in Nat : p = Len(pending[s][s])
    BY <2>0
  <2>3. PICK b \in Nat : b = Len(bus[s])
    BY <2>0
  <2>4. PICK f \in Nat : f = Len(feed[s])
    BY <2>0
  <2>5. PICK g \in Nat : g = h + p
    OBVIOUS
  <2>6. h <= g /\ g <= f /\ f - b = g
    <3>1. h + p + b = f
      BY <2>0, <2>1, <2>2, <2>3, <2>4 DEF Meets
    <3>. QED
      BY <2>5, <3>1
  <2>7. heard[s] = Run(s, 0, h) /\ pending[s][s] = Run(s, h, g)
    BY <2>0, <2>1, <2>2, <2>5 DEF Meets
  <2>8. bus[s] = Run(s, g, f)
    BY <2>0, <2>3, <2>4, <2>6 DEF FlowInv, Underway
  <2>9. PICK z \in Nat : z = 0
    OBVIOUS
  <2>10. z <= h /\ z <= g
    BY <2>9
  <2>11. Run(s, z, h) \o Run(s, h, g) = Run(s, z, g)
    BY <2>0, <2>6, <2>10, RunJoin
  <2>12. Run(s, z, g) \o Run(s, g, f) = Run(s, z, f)
    BY <2>0, <2>6, <2>10, RunJoin
  <2>13. heard[s] \o pending[s][s] \o bus[s] = Run(s, 0, f)
    BY <2>7, <2>8, <2>9, <2>11, <2>12
  <2>. QED
    BY <2>0, <2>4, <2>13, RunWhole
<1>. QED
  BY <1>1, FlowHolds, PTL

-----------------------------------------------------------------------------
(* What the abstract subscription is told, step by step.                   *)
Told == [s \in Streams |-> Outcome(s)]
Promised == Delivery!DeliveryNext \/ UNCHANGED <<feed, heard, Told>>

(* A step that closes nothing and gives no outcome tells nothing.          *)
LEMMA ToldKept == UNCHANGED <<closed, outcome>> => Told' = Told
BY DEF Told, Outcome

(* Handing over the next events of a stream is one Hear, and handing over  *)
(* none of them is nothing.                                                *)
LEMMA GivenHears ==
  ASSUME EarsInv, FlowInv, NEW s \in Streams, Given(s), feed' = feed
  PROVE  Promised
<1>0. /\ heard \in [Streams -> Seq(Message)] /\ FeedInv /\ s \notin closed
      /\ outcome[s] = "open" /\ DOMAIN outcome = Streams
      /\ outcome = [t \in Streams |-> outcome[t]] /\ closed \subseteq Streams
  BY DEF Given, FlowInv, Boxes, Quiet, EarsInv, Shapes
<1>1. PICK h \in Nat, n \in Nat :
        /\ h <= n /\ n <= Len(feed[s]) /\ heard[s] = Run(s, 0, h)
        /\ Dispatch(s, Run(s, h, n))
  BY DEF Given
<1>2. /\ heard' = [heard EXCEPT ![s] = Run(s, 0, n)]
      /\ \/ /\ UNCHANGED <<closed, listening, outcome>>
            /\ n > h => feed[s][n] \notin FeedCloses
         \/ /\ n > h /\ feed[s][n] \in FeedCloses
            /\ closed' = closed \cup {s} /\ listening' = listening \ {s}
            /\ outcome' = [outcome EXCEPT ![s] = feed[s][n]]
  BY <1>0, <1>1, DispatchRun
<1>3. CASE n = h
  <2>1. heard' = heard
    BY <1>0, <1>1, <1>2, <1>3
  <2>2. UNCHANGED <<closed, outcome>>
    BY <1>2, <1>3
  <2>. QED
    BY <2>1, <2>2, ToldKept DEF Promised
<1>4. CASE n # h
  <2>1. n > h /\ Len(heard[s]) = h
    <3>1. n > h /\ 0 <= h /\ h - 0 = h
      BY <1>1, <1>4
    <3>2. Len(Run(s, 0, h)) = h
      BY <3>1, RunIs
    <3>. QED
      BY <1>1, <3>1, <3>2
  <2>2. n \in Len(heard[s]) + 1 .. Len(feed[s])
    <3>1. Len(feed[s]) \in Nat
      BY <1>0 DEF FeedInv
    <3>. QED
      BY <1>1, <2>1, <3>1
  <2>3. heard' = [heard EXCEPT ![s] = Delivery!Transcript(s, n)]
    BY <1>2, RunWhole DEF Delivery!Transcript
  <2>4. Told[s] = "open"
    BY <1>0 DEF Told, Outcome
  <2>5. Told' = [Told EXCEPT ![s] =
          IF feed[s][n] \in FeedCloses THEN feed[s][n] ELSE "open"]
    <3>1. CASE UNCHANGED <<closed, outcome>> /\ feed[s][n] \notin FeedCloses
      <4>1. Told' = Told
        BY <3>1, ToldKept
      <4>. QED
        BY <2>4, <3>1, <4>1 DEF Told
    <3>2. CASE /\ feed[s][n] \in FeedCloses /\ closed' = closed \cup {s}
               /\ outcome' = [outcome EXCEPT ![s] = feed[s][n]]
      <4>1. outcome'[s] = feed[s][n] /\ feed[s][n] # "open"
        BY <1>0, <3>2 DEF FeedCloses
      <4>2. \A t \in Streams : t # s => outcome'[t] = outcome[t] /\ (t \in closed' <=> t \in closed)
        BY <1>0, <3>2
      <4>. QED
        BY <3>2, <4>1, <4>2 DEF Told, Outcome
    <3>. QED
      BY <1>2, <2>1, <3>1, <3>2
  <2>6. Delivery!Hear(s)
    <3>1. Delivery!FeedCloses = FeedCloses
      BY DEF Delivery!FeedCloses, FeedCloses
    <3>. QED
      BY <2>2, <2>3, <2>4, <2>5, <3>1 DEF Delivery!Hear, Told
  <2>. QED
    BY <2>6 DEF Promised, Delivery!DeliveryNext
<1>. QED
  BY <1>3, <1>4

(* stop() is the subscriber giving up, unless the stream is over.          *)
LEMMA CloseGivesUp ==
  ASSUME EarsInv, FlowInv, NEW s \in Streams, close(s), UNCHANGED <<feed, heard>>
  PROVE  Promised
<1>0. /\ DOMAIN outcome = Streams /\ outcome = [t \in Streams |-> outcome[t]]
      /\ closed \subseteq Streams
  BY DEF EarsInv, Shapes
<1>1. CASE s \in closed
  <2>1. UNCHANGED <<closed, outcome>>
    BY <1>1 DEF close
  <2>. QED
    BY <2>1, ToldKept DEF Promised
<1>2. CASE s \notin closed
  <2>1. /\ closed' = closed \cup {s} /\ outcome' = [outcome EXCEPT ![s] = "stopped"]
        /\ outcome[s] = "open"
    BY <1>2 DEF close, FlowInv, Quiet
  <2>2. Told[s] = "open"
    BY <1>2, <2>1 DEF Told, Outcome
  <2>3. Told' = [Told EXCEPT ![s] = "stopped"]
    <3>1. outcome'[s] = "stopped"
      BY <1>0, <2>1
    <3>2. \A t \in Streams : t # s => outcome'[t] = outcome[t] /\ (t \in closed' <=> t \in closed)
      BY <1>0, <2>1
    <3>. QED
      BY <3>1, <3>2 DEF Told, Outcome
  <2>4. Delivery!GiveUp(s)
    BY <2>2, <2>3 DEF Delivery!GiveUp, Told
  <2>. QED
    BY <2>4 DEF Promised, Delivery!DeliveryNext
<1>. QED
  BY <1>1, <1>2

(* A failed start abandons a stream whose handler was never called.        *)
LEMMA CancelAbandons ==
  ASSUME EarsInv, SilentBefore, FlowInv, NEW s \in Streams, cancel(s)
  PROVE  Promised
<1>1. /\ closed' = closed \cup {s} /\ UNCHANGED <<feed, heard, outcome>>
      /\ s \notin closed /\ heard[s] = <<>>
  BY DEF cancel, goVars, EarsInv, Ears, SilentBefore
<1>2. outcome[s] = "open"
  BY <1>1 DEF FlowInv, Quiet
<1>3. Told[s] = "open"
  BY <1>1, <1>2 DEF Told, Outcome
<1>4. Told' = [Told EXCEPT ![s] = "never"]
  <2>1. \A t \in Streams : t # s => (t \in closed' <=> t \in closed)
    BY <1>1
  <2>. QED
    BY <1>1, <1>2, <2>1 DEF Told, Outcome
<1>5. Delivery!Abandon(s)
  BY <1>1, <1>3, <1>4 DEF Delivery!Abandon, Told
<1>. QED
  BY <1>5 DEF Promised, Delivery!DeliveryNext

(* Every step keeps the promise of StreamDelivery.                         *)
LEMMA PromiseStep ==
  EarsInv /\ SilentBefore /\ FlowInv /\ [Next]_vars => Promised
<1> SUFFICES ASSUME EarsInv, SilentBefore, FlowInv, [Next]_vars PROVE Promised
    OBVIOUS
<1>0. ASSUME UNCHANGED <<feed, heard, closed, outcome>> PROVE Promised
  BY <1>0, ToldKept DEF Promised
<1>1. ASSUME NEW s \in Streams, GoStarts(s) PROVE Promised
  BY <1>0, <1>1 DEF GoStarts, subVars
<1>2. ASSUME NEW s \in Streams, NEW es, GoEmits(s, es),
             es = <<"chunk">> \/ es \in Farewells
      PROVE  Promised
  <2>1. UNCHANGED <<heard, closed, outcome>> /\ Emit(s, es)
    BY <1>2 DEF GoEmits, subVars
  <2>2. Told' = Told
    BY <2>1, ToldKept
  <2>3. Delivery!Emit(s, es)
    BY <2>1 DEF Emit, Delivery!Emit, FeedClosed, Delivery!FeedClosed, FeedCloses,
                Delivery!FeedCloses
  <2>4. Delivery!Farewells = Farewells
    BY DEF Farewells, Delivery!Farewells
  <2>5. Delivery!FeedNext
    BY <1>2, <2>3, <2>4 DEF Delivery!FeedNext, Delivery!EmitChunk, Delivery!EmitFarewell
  <2>. QED
    BY <2>1, <2>2, <2>5 DEF Promised, Delivery!DeliveryNext, Delivery!Speak, Told
<1>3. ASSUME NEW s \in Streams, GoChunk(s) PROVE Promised
  BY <1>2, <1>3 DEF GoChunk
<1>4. ASSUME NEW s \in Streams, GoCloses(s) PROVE Promised
  BY <1>2, <1>4 DEF GoCloses
<1>5. ASSUME NEW s \in Streams, Begin(s) PROVE Promised
  BY <1>0, <1>5 DEF Begin, goVars
<1>6. ASSUME NEW s \in Streams, attach(s) PROVE Promised
  <2>1. feed' = feed
    BY <1>6 DEF attach, goVars
  <2>. QED
    BY <1>6, <2>1, Attaches, GivenHears
<1>7. ASSUME NEW s \in Streams, cancel(s) PROVE Promised
  BY <1>7, CancelAbandons
<1>8. ASSUME NEW s \in Streams, StartThrows(s) PROVE Promised
  BY <1>0, <1>8 DEF StartThrows, goVars
<1>9. ASSUME NEW s \in Streams, stopOffline(s) PROVE Promised
  BY <1>9, CloseGivesUp DEF stopOffline, goVars
<1>10. ASSUME NEW s \in Streams, stop(s) PROVE Promised
  BY <1>0, <1>10 DEF stop, goVars, subVars
<1>11. ASSUME NEW s \in Streams, Stopped(s) PROVE Promised
  BY <1>11, CloseGivesUp DEF Stopped, goVars
<1>12. ASSUME NEW s \in Streams, Deliver(s) PROVE Promised
  <2>1. feed' = feed
    BY <1>12 DEF Deliver
  <2>2. Given(s) \/ UNCHANGED <<heard, closed, listening, outcome>>
    BY <1>12, Arrives
  <2>. QED
    BY <1>0, <2>1, <2>2, GivenHears
<1>13. CASE Rest \/ UNCHANGED vars
  BY <1>0, <1>13 DEF Rest, vars, goVars, subVars
<1>. QED
  BY <1>1, <1>3, <1>4, <1>5, <1>6, <1>7, <1>8, <1>9, <1>10, <1>11, <1>12, <1>13 DEF Next

(* StreamBridge implements StreamDelivery: a handler hears the events of   *)
(* its own stream, from the first one on, in order and once, up to the     *)
(* close, the stop or the failed start.                                    *)
THEOREM DeliveryImplemented == Spec => DeliversTheFeed
<1>1. Init => Delivery!DeliveryInit
  <2> SUFFICES ASSUME Init PROVE Delivery!DeliveryInit
      OBVIOUS
  <2>1. Delivery!FeedInit /\ heard = [s \in Streams |-> <<>>]
    BY DEF Init, FeedInit, Delivery!FeedInit
  <2>2. [s \in Streams |-> Outcome(s)] = [s \in Streams |-> "open"]
    BY DEF Init, Outcome
  <2>. QED
    BY <2>1, <2>2 DEF Delivery!DeliveryInit
<1>2. Promised => [Delivery!DeliveryNext]_(Delivery!deliveryVars)
  BY DEF Promised, Delivery!deliveryVars, Told
<1>3. (EarsInv /\ SilentBefore /\ FlowInv) /\ [Next]_vars
        => [Delivery!DeliveryNext]_(Delivery!deliveryVars)
  BY <1>2, PromiseStep
<1>. QED
  BY <1>1, <1>3, FlowHolds, PTL DEF Spec, DeliversTheFeed, Delivery!DeliverySpec
=============================================================================
