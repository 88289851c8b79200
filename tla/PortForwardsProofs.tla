-------------------------- MODULE PortForwardsProofs --------------------------
(***************************************************************************)
(* Proofs about the two halves of a port forward: the webview's service    *)
(* and store (PortForwards), for any number of launches of the forward,    *)
(* overlapping or not, and any modes; and the listeners of the Go service  *)
(* (Forwards), for any number of forwards, connections and callers.        *)
(***************************************************************************)
EXTENDS PortForwards, Forwards, SequenceTheorems, TLAPS

(* The values the actions assign, each in its set. *)
LEMMA Values ==
  /\ "starting" \in Statuses /\ "active" \in Statuses /\ "reconnecting" \in Statuses
  /\ "stopped" \in Statuses /\ "waiting" \in Statuses /\ "error" \in Statuses
  /\ "idle" \in Pcs /\ "clearing" \in Pcs /\ "resolving" \in Pcs
  /\ "listening" \in Pcs /\ "replacing" \in Pcs /\ "done" \in Pcs
  /\ "none" \in GoStates /\ "asked" \in GoStates /\ "open" \in GoStates
  /\ "closing" \in GoStates /\ "closed" \in GoStates
  /\ "idle" \in Rechecks /\ "probing" \in Rechecks /\ "resolving" \in Rechecks
  /\ "moving" \in Rechecks /\ "abandoning" \in Rechecks
BY DEF Statuses, Pcs, GoStates, Rechecks

(* What Stopped makes of a session, and of no other. *)
LEMMA StoppedIs ==
  ASSUME NEW s \in [Launches -> SessionRecords], NEW l \in Launches \cup {None}
  PROVE  /\ Stopped(s, l) \in [Launches -> SessionRecords]
         /\ \A k \in Launches : k # l => Stopped(s, l)[k] = s[k]
         /\ l \in Launches => /\ Stopped(s, l)[l].stopped /\ ~Stopped(s, l)[l].held
                              /\ Stopped(s, l)[l].go = (IF s[l].stopped THEN s[l].go ELSE "closing")
                              /\ s[l].stopped => Stopped(s, l)[l].bye = s[l].bye
                              /\ ~s[l].stopped => ~Stopped(s, l)[l].bye
                              /\ Stopped(s, l)[l].check = s[l].check
<1>1. CASE l = None
  BY <1>1, NoneApart DEF Stopped
<1>2. CASE l \in Launches
  <2>1. s[l] \in SessionRecords /\ l # None
    BY <1>2, NoneApart
  <2>2. CASE s[l].stopped
    <3>1. Stopped(s, l) = [s EXCEPT ![l].held = FALSE]
      BY <2>1, <2>2 DEF Stopped
    <3>2. [s[l] EXCEPT !.held = FALSE] \in SessionRecords
      BY <2>1 DEF SessionRecords
    <3>. QED
      BY <1>2, <2>1, <2>2, <3>1, <3>2 DEF SessionRecords
  <2>3. CASE ~s[l].stopped
    <3> DEFINE r == [s[l] EXCEPT !.stopped = TRUE, !.held = FALSE, !.bye = FALSE, !.go = "closing", !.status = "starting"]
    <3>1. Stopped(s, l) = [s EXCEPT ![l] = r]
      BY <2>1, <2>3 DEF Stopped
    <3>2. r \in SessionRecords /\ r.stopped /\ ~r.held /\ r.go = "closing" /\ ~r.bye
          /\ r.check = s[l].check
      BY <2>1, Values DEF SessionRecords
    <3> HIDE DEF r
    <3>. QED
      BY <1>2, <2>1, <2>3, <3>1, <3>2
  <2>. QED
    BY <2>2, <2>3
<1>. QED
  BY <1>1, <1>2

(* A status is set and nothing else of the record. *)
LEMMA RecordUpdate ==
  ASSUME NEW r \in Records, NEW st \in Statuses
  PROVE  /\ [r EXCEPT !.status = st] \in Records /\ [r EXCEPT !.status = st].status = st
         /\ [r EXCEPT !.status = st].present = r.present /\ [r EXCEPT !.status = st].byUser = r.byUser
<1>1. [r EXCEPT !.status = st] \in Records
  BY DEF Records
<1>2. [r EXCEPT !.status = st].status = st
  BY DEF Records
<1>3. [r EXCEPT !.status = st].present = r.present
  BY DEF Records
<1>4. [r EXCEPT !.status = st].byUser = r.byUser
  BY DEF Records
<1>. QED
  BY <1>1, <1>2, <1>3, <1>4

(* The call of launch moves to another await. *)
LEMMA CallUpdate ==
  ASSUME NEW c \in Calls, NEW p \in Pcs, NEW w \in Launches \cup {None}, NEW b \in BOOLEAN
  PROVE  /\ [c EXCEPT !.pc = p, !.waits = w, !.lost = b] \in Calls
         /\ [c EXCEPT !.pc = p, !.waits = w, !.lost = b].pc = p
BY DEF Calls

(* A report changes nothing of a record at rest, and never brings one to rest. *)
LEMMA ToldIs ==
  ASSUME NEW r \in Records, NEW st \in Statuses
  PROVE  /\ Told(r, st) \in Records
         /\ Told(r, st).present = r.present /\ Told(r, st).byUser = r.byUser
         /\ Told(r, st).status \in {r.status, st}
         /\ r.status \in {"stopped", "waiting"} => Told(r, st).status = r.status
<1>1. CASE ~r.present \/ r.status \in {"stopped", "waiting"}
  <2>1. Told(r, st) = r
    BY <1>1 DEF Told
  <2>. QED
    BY <2>1
<1>2. CASE r.present /\ r.status \notin {"stopped", "waiting"}
  <2>1. Told(r, st) = [r EXCEPT !.status = st]
    BY <1>2 DEF Told
  <2> DEFINE q == [r EXCEPT !.status = st]
  <2>2. q \in Records /\ q.status = st /\ q.present = r.present /\ q.byUser = r.byUser
    BY RecordUpdate
  <2>3. Told(r, st) = q
    BY <2>1
  <2> HIDE DEF q
  <2>. QED
    BY <1>2, <2>2, <2>3
<1>. QED
  BY <1>1, <1>2

(* What becomes of a record that is still starting, and of no other. *)
LEMMA IfStarting ==
  ASSUME NEW r \in Records, NEW st \in Statuses, NEW q,
         q = IF r.present /\ r.status = "starting" THEN [r EXCEPT !.status = st] ELSE r
  PROVE  /\ q \in Records /\ q.present = r.present /\ q.byUser = r.byUser
         /\ r.present /\ r.status = "starting" => q.status = st
         /\ ~(r.present /\ r.status = "starting") => q.status = r.status
<1>1. CASE r.present /\ r.status = "starting"
  BY <1>1, RecordUpdate
<1>2. CASE ~(r.present /\ r.status = "starting")
  BY <1>2
<1>. QED
  BY <1>1, <1>2

(* A launch that fails is over, and says so if it was still wanted. *)
LEMMA FailsType ==
  ASSUME TypeOK, NEW l \in Launches, LaunchFails(l)
  PROVE  /\ record' \in Records /\ launch' \in [Launches -> Calls]
         /\ record'.present = record.present /\ record'.byUser = record.byUser
         /\ record'.status \in {record.status, "error"}
         /\ record.status \in {"stopped", "waiting"} => record'.status = record.status
         /\ launch'[l].pc = "done" /\ \A k \in Launches : k # l => launch'[k] = launch[k]
<1>1. /\ record' \in Records /\ record'.present = record.present /\ record'.byUser = record.byUser
      /\ record'.status \in {record.status, "error"}
      /\ record.status \in {"stopped", "waiting"} => record'.status = record.status
  BY IfStarting, Values DEF TypeOK, LaunchFails
<1>2. launch[l] \in Calls /\ launch \in [Launches -> Calls]
  BY DEF TypeOK
<1> DEFINE c == [launch[l] EXCEPT !.pc = "done", !.waits = None, !.lost = FALSE]
<1>3. launch' = [launch EXCEPT ![l] = c]
  BY <1>2 DEF LaunchFails
<1>5. c \in Calls /\ c.pc = "done"
  BY <1>2, CallUpdate, Values
<1> HIDE DEF c
<1>4. launch' \in [Launches -> Calls] /\ launch'[l].pc = "done" /\ \A k \in Launches : k # l => launch'[k] = launch[k]
  BY <1>2, <1>3, <1>5
<1>. QED
  BY <1>1, <1>4

(* A launch begins: what runs is stopped, and the record says so. *)
LEMMA BeginsType ==
  ASSUME TypeOK, NEW l \in Launches, NEW r \in Records, LaunchBegins(l, r)
  PROVE  /\ record' \in Records /\ record'.status = "starting"
         /\ record'.present = r.present /\ record'.byUser = r.byUser
         /\ launch' \in [Launches -> Calls] /\ session' \in [Launches -> SessionRecords]
         /\ current' = None /\ crossed' \in BOOLEAN
         /\ launch[l].pc = "idle" /\ launch'[l].pc \in {"resolving", "clearing"}
         /\ \A k \in Launches : k # l => launch'[k] = launch[k]
         /\ session' = Stopped(session, current)
<1>1. record' \in Records /\ record'.status = "starting" /\ record'.present = r.present /\ record'.byUser = r.byUser
  BY RecordUpdate, Values DEF LaunchBegins
<1>2. StopAwaited(current) \in Launches \cup {None} /\ launch[l] \in Calls /\ launch \in [Launches -> Calls]
  BY DEF TypeOK, StopAwaited
<1> DEFINE p == IF StopAwaited(current) = None THEN "resolving" ELSE "clearing"
           b == SessionGone
<1>3. /\ p \in Pcs /\ p \in {"resolving", "clearing"}
      /\ b \in BOOLEAN
      /\ launch' = [launch EXCEPT ![l].pc = p, ![l].waits = StopAwaited(current), ![l].lost = b]
  BY Values DEF LaunchBegins, SessionGone
<1> HIDE DEF p, b
<1> DEFINE c == [launch[l] EXCEPT !.pc = p, !.waits = StopAwaited(current), !.lost = b]
<1>7. launch' = [launch EXCEPT ![l] = c]
  BY <1>2, <1>3
<1>8. c \in Calls /\ c.pc = p
  <2>1. p \in Pcs /\ b \in BOOLEAN
    BY <1>3
  <2>. QED
    BY <1>2, <2>1 DEF Calls
<1> HIDE DEF c
<1>4. session' = Stopped(session, current) /\ session' \in [Launches -> SessionRecords] /\ current' = None
  BY StoppedIs DEF TypeOK, LaunchBegins, serviceStop
<1>5. crossed' \in BOOLEAN /\ launch[l].pc = "idle"
  BY DEF TypeOK, LaunchBegins, Quiet, InFlight, Abandoning, Fresh
<1>6. /\ launch' \in [Launches -> Calls] /\ launch'[l].pc \in {"resolving", "clearing"}
      /\ \A k \in Launches : k # l => launch'[k] = launch[k]
  <2>1. launch' \in [Launches -> Calls] /\ launch'[l] = c /\ \A k \in Launches : k # l => launch'[k] = launch[k]
    BY <1>2, <1>7, <1>8
  <2>2. c.pc = p /\ p \in {"resolving", "clearing"}
    BY <1>3, <1>8
  <2>. QED
    BY <2>1, <2>2
<1>. QED
  BY <1>1, <1>4, <1>5, <1>6

(* The answer of a launch: the forward is shown, or what was opened is stopped. *)
LEMMA ShownType ==
  ASSUME NEW l \in Launches, NEW r \in Records, NEW s \in [Launches -> SessionRecords], NEW c \in Launches \cup {None},
         Shown(l, r, s, c)
  PROVE  /\ record' \in Records /\ session' \in [Launches -> SessionRecords] /\ current' \in Launches \cup {None}
         /\ record'.byUser = r.byUser /\ record'.present = r.present
         /\ r.present /\ r.status = "starting" => record'.status = "active"
         /\ ~(r.present /\ r.status = "starting") => record'.status = r.status
<1>1. CASE r.present /\ r.status = "starting"
  <2>1. record' = [r EXCEPT !.status = "active"] /\ session' = s /\ current' = c
    BY <1>1 DEF Shown
  <2>. QED
    BY <1>1, <2>1, RecordUpdate, Values
<1>2. CASE ~(r.present /\ r.status = "starting")
  <2>1. record' = r /\ session' = Stopped(s, c) /\ current' = None
    BY <1>2 DEF Shown
  <2>. QED
    BY <1>2, <2>1, StoppedIs
<1>. QED
  BY <1>1, <1>2

(* The registry holds a session more. *)
LEMMA HeldType ==
  ASSUME NEW s \in [Launches -> SessionRecords], NEW l \in Launches
  PROVE  Held(s, l) \in [Launches -> SessionRecords]
  BY DEF Held, SessionRecords

(* A start, or a forward that is created: a launch, or the wait for a connect. *)
LEMMA StartsType ==
  ASSUME TypeOK, NEW r \in Records, Starts(r)
  PROVE  /\ record' \in Records /\ record'.byUser = r.byUser /\ record'.present = r.present
         /\ record'.status \in {"starting", "waiting"} /\ (record'.status = "waiting" => ~isConnected)
         /\ launch' \in [Launches -> Calls] /\ session' \in [Launches -> SessionRecords]
         /\ current' \in Launches \cup {None} /\ crossed' \in BOOLEAN
         /\ edit' = edit /\ removal' = removal /\ starter' \subseteq {"asked", "joined"}
<1>1. CASE isConnected
  <2>1. PICK l \in Launches : LaunchBegins(l, r)
    BY <1>1 DEF Starts
  <2>2. UNCHANGED <<edit, starter, removal>>
    BY <1>1 DEF Starts, calls, cluster
  <2>. QED
    BY <2>1, <2>2, BeginsType DEF TypeOK
<1>2. CASE ~isConnected
  <2>1. /\ record' = [r EXCEPT !.status = "waiting"] /\ starter' = starter \cup {"asked"}
        /\ UNCHANGED <<launch, current, session, edit, removal, crossed>>
    BY <1>2 DEF Starts
  <2>. QED
    BY <1>2, <2>1, RecordUpdate, Values DEF TypeOK
<1>. QED
  BY <1>1, <1>2

(* A drain stops the sessions the registry holds, and no other. *)
LEMMA DrainIs ==
  ASSUME TypeOK, NEW next, NEW again \in BOOLEAN, drain(next, again)
  PROVE  /\ session' \in [Launches -> SessionRecords] /\ drained' \subseteq Launches /\ conn' = next
         /\ \A k \in Launches :
              /\ session'[k].check = session[k].check
              /\ ~session[k].held => session'[k] = session[k]
              /\ session[k].held => /\ session'[k].stopped /\ ~session'[k].held
                                    /\ session'[k].go = (IF session[k].stopped THEN session[k].go ELSE "closing")
                                    /\ session[k].stopped => session'[k].bye = session[k].bye
                                    /\ ~session[k].stopped => ~session'[k].bye
                                    /\ session'[k].renewed = again
<1>1. ASSUME NEW k \in Launches, session[k].held
      PROVE  /\ session'[k] \in SessionRecords
             /\ session'[k].check = session[k].check
             /\ session'[k].stopped /\ ~session'[k].held
             /\ session'[k].go = (IF session[k].stopped THEN session[k].go ELSE "closing")
             /\ session[k].stopped => session'[k].bye = session[k].bye
             /\ ~session[k].stopped => ~session'[k].bye
             /\ session'[k].renewed = again
  <2> DEFINE s == Stopped(session, k)[k]
  <2>1. /\ s \in SessionRecords /\ s.check = session[k].check /\ s.stopped /\ ~s.held
        /\ s.go = (IF session[k].stopped THEN session[k].go ELSE "closing")
        /\ session[k].stopped => s.bye = session[k].bye
        /\ ~session[k].stopped => ~s.bye
    BY StoppedIs DEF TypeOK
  <2>2. session'[k] = [s EXCEPT !.renewed = again]
    BY <1>1 DEF drain
  <2> HIDE DEF s
  <2>. QED
    BY <2>1, <2>2 DEF SessionRecords
<1>2. \A k \in Launches : ~session[k].held => session'[k] = session[k]
  BY DEF drain
<1>3. session' \in [Launches -> SessionRecords]
  <2>1. \A k \in Launches : session'[k] \in SessionRecords
    BY <1>1, <1>2 DEF TypeOK
  <2>2. session' = [k \in Launches |-> session'[k]]
    BY DEF drain
  <2>. QED
    BY <2>1, <2>2
<1>. QED
  BY <1>1, <1>2, <1>3 DEF drain

(* A connect of a cluster at rest, or one that closes its session first. *)
LEMMA ConnectIs ==
  ASSUME TypeOK, NEW joins \in BOOLEAN, connectBegins(joins)
  PROVE  /\ session' \in [Launches -> SessionRecords] /\ drained' \subseteq Launches
         /\ joinable' \in BOOLEAN /\ UNCHANGED shows
         /\ \/ conn = "closed" /\ conn' = "connecting" /\ UNCHANGED session
            \/ conn = "open" /\ conn' = "redraining" /\ drain("redraining", TRUE)
<1>1. CASE conn = "open"
  BY <1>1, DrainIs DEF connectBegins
<1>2. CASE conn # "open"
  BY <1>2 DEF connectBegins, TypeOK
<1>. QED
  BY <1>1, <1>2

(* What Go makes of a session whose listener it closes. *)
LEMMA GoClosesType ==
  ASSUME NEW s \in SessionRecords
  PROVE  GoCloses(s) \in SessionRecords
BY Values DEF GoCloses, SessionRecords

(* Every action keeps the types. *)
LEMMA TypeStep == TypeOK /\ [Next]_vars => TypeOK'
<1> SUFFICES ASSUME TypeOK, [Next]_vars PROVE TypeOK'
    OBVIOUS
<1>s. launch \in [Launches -> Calls] /\ session \in [Launches -> SessionRecords]
  BY DEF TypeOK
<1>1. CASE Loaded
  <2>1. [record EXCEPT !.present = TRUE, !.status = restingStatus(record)] \in Records
    BY <1>1, Values DEF TypeOK, restingStatus, Records
  <2>. QED
    BY <1>1, <2>1, BeginsType DEF TypeOK, Loaded, calls, cluster
<1>2. CASE LoadFails
  BY <1>2 DEF TypeOK, LoadFails, calls, cluster
<1>3. CASE start
  <2>1. [record EXCEPT !.byUser = FALSE] \in Records
    BY <1>3 DEF TypeOK, Records
  <2>. QED
    BY <1>3, <2>1, StartsType DEF TypeOK, start, cluster
<1>4. CASE stop
  <2>1. record' \in Records
    BY <1>4, Values DEF TypeOK, stop, Records
  <2>2. session' \in [Launches -> SessionRecords]
    BY <1>4, StoppedIs DEF TypeOK, stop, serviceStop
  <2>. QED
    BY <1>4, <2>1, <2>2 DEF TypeOK, stop, serviceStop, calls, cluster
<1>5. CASE remove
  <2>1. record' \in Records
    BY <1>5, RecordUpdate, Values DEF TypeOK, remove, Shows
  <2>2. session' \in [Launches -> SessionRecords]
    BY <1>5, StoppedIs DEF TypeOK, remove, serviceStop
  <2>. QED
    BY <1>5, <2>1, <2>2, Values DEF TypeOK, remove, serviceStop, StopAwaited, calls, cluster
<1>6. CASE Removed
  <2>1. record' \in Records
    <3>1. record \in Records /\ record' \in {record, [present |-> FALSE, status |-> "stopped", byUser |-> FALSE, mode |-> record.mode]}
      BY <1>6 DEF TypeOK, Removed
    <3>2. record.mode \in Modes
      BY <3>1 DEF Records
    <3>3. [present |-> FALSE, status |-> "stopped", byUser |-> FALSE, mode |-> record.mode] \in Records
      BY <3>2, Values DEF Records
    <3>. QED
      BY <3>1, <3>3
  <2>. QED
    BY <1>6, <2>1 DEF TypeOK, Removed, calls, cluster
<1>7. CASE Updated
  <2>1. (\E l \in Launches : LaunchBegins(l, record)) \/ record' \in Records
    BY <1>7, Values DEF TypeOK, Updated, Records
  <2>. QED
    BY <1>7, <2>1, BeginsType DEF TypeOK, Updated, calls, cluster
<1>8. CASE UpdateFails
  BY <1>8 DEF TypeOK, UpdateFails, calls, cluster
<1>9. CASE Connects \/ Enters
  BY <1>9, ConnectIs DEF TypeOK, ConnStates, Connects, Enters, calls, cluster
<1>9a. CASE StartDials
  BY <1>9a, ConnectIs DEF TypeOK, ConnStates, StartDials, calls, cluster
<1>9b. CASE Restored
  <2>1. CASE connectBegins(TRUE)
    BY <1>9b, <2>1, ConnectIs DEF TypeOK, ConnStates, Restored, calls
  <2>2. CASE UNCHANGED <<cluster, session>>
    BY <1>9b, <2>2 DEF TypeOK, Restored, calls, cluster
  <2>. QED
    BY <1>9b, <2>1, <2>2 DEF Restored
<1>9c. CASE StartJoins \/ Dialed \/ Reclosed
  BY <1>9c DEF TypeOK, ConnStates, StartJoins, Dialed, Reclosed, calls, cluster
<1>9d. ASSUME GivesUp \/ UNCHANGED record PROVE record' \in Records
  <2>1. record \in Records /\ record' \in {record, [record EXCEPT !.status = "error"]}
    BY <1>9d DEF TypeOK, GivesUp, Shows
  <2>. QED
    BY <2>1, RecordUpdate, Values
<1>9e. CASE StartReturns
  <2>1. record' \in Records
    BY <1>9d, <1>9e DEF StartReturns
  <2>. QED
    BY <1>9e, <2>1 DEF TypeOK, StartReturns, calls, cluster
<1>10. CASE ScopeRead
  BY <1>10, BeginsType DEF TypeOK, ConnStates, ScopeRead, connectEnds, calls, cluster
<1>10a. CASE ScopeFails
  BY <1>10a DEF TypeOK, ConnStates, ScopeFails, connectEnds, calls, cluster
<1>11. CASE Unreached
  <2>1. record' \in Records
    BY <1>9d, <1>11 DEF Unreached
  <2>. QED
    BY <1>11, <2>1 DEF TypeOK, ConnStates, Unreached, connectEnds, calls, cluster
<1>12. CASE Drains
  <2>1. session' \in [Launches -> SessionRecords] /\ conn' = "draining" /\ drained' \subseteq Launches
    BY <1>12, DrainIs DEF Drains
  <2>. QED
    BY <1>12, <2>1 DEF TypeOK, ConnStates, Drains, calls, cluster
<1>13. CASE GoDisconnects
  <2>1. session' \in [Launches -> SessionRecords]
    BY <1>13, <1>s, GoClosesType DEF GoDisconnects
  <2>2. launch' \in [Launches -> Calls]
    BY <1>13 DEF TypeOK, GoDisconnects, Calls
  <2>. QED
    BY <1>13, <2>1, <2>2 DEF TypeOK, ConnStates, GoDisconnects, calls, cluster
<1>14. CASE Disconnected
  <2>1. record' \in Records
    BY <1>14, RecordUpdate, Values DEF TypeOK, Disconnected, restingStatus
  <2>2. session' \in [Launches -> SessionRecords]
    BY <1>14, StoppedIs DEF TypeOK, Disconnected, serviceStop
  <2>. QED
    BY <1>14, <2>1, <2>2 DEF TypeOK, ConnStates, Disconnected, serviceStop, calls, cluster
<1>15. ASSUME NEW mode \in Modes, create(mode) PROVE TypeOK'
  <2>1. [present |-> TRUE, status |-> "stopped", byUser |-> FALSE, mode |-> mode] \in Records
    BY <1>15, Values DEF TypeOK, Records
  <2>. QED
    BY <1>15, <2>1, StartsType DEF TypeOK, create, cluster
<1>16. ASSUME NEW change \in {"ports"} \cup Modes, update(change) PROVE TypeOK'
  BY <1>16 DEF TypeOK, update, calls, cluster
<1>17. ASSUME NEW l \in Launches, Cleared(l) PROVE TypeOK'
  <2>1. record' \in Records /\ launch' \in [Launches -> Calls]
    BY <1>17, FailsType, Values DEF TypeOK, Cleared, Calls
  <2>. QED
    BY <1>17, <2>1 DEF TypeOK, Cleared, calls, cluster
<1>18. ASSUME NEW l \in Launches, Resolved(l) PROVE TypeOK'
  <2>1. session' \in [Launches -> SessionRecords]
    BY <1>18, Values DEF TypeOK, Resolved, SessionRecords
  <2>2. launch' \in [Launches -> Calls]
    BY <1>18, Values DEF TypeOK, Resolved, Calls
  <2>. QED
    BY <1>18, <2>1, <2>2 DEF TypeOK, Resolved, calls, cluster
<1>19. ASSUME NEW l \in Launches, Unresolved(l) PROVE TypeOK'
  BY <1>19, FailsType DEF TypeOK, Unresolved, calls, cluster
<1>20. ASSUME NEW l \in Launches, GoListens(l) PROVE TypeOK'
  <2>1. session' \in [Launches -> SessionRecords]
    BY <1>20, Values DEF TypeOK, GoListens, SessionRecords
  <2>. QED
    BY <1>20, <2>1 DEF TypeOK, GoListens, calls, cluster
<1>21. ASSUME NEW l \in Launches, Refused(l) PROVE TypeOK'
  <2>1. session' \in [Launches -> SessionRecords]
    BY <1>21, Values DEF TypeOK, Refused, SessionRecords
  <2>. QED
    BY <1>21, <2>1, FailsType DEF TypeOK, Refused, calls, cluster
<1>22. ASSUME NEW l \in Launches, Answered(l) PROVE TypeOK'
  <2> DEFINE attached == [session EXCEPT ![l].status = "active"]
  <2>1. attached \in [Launches -> SessionRecords]
    BY Values DEF TypeOK, SessionRecords
  <2>2. launch' \in [Launches -> Calls]
    BY <1>22, Values DEF TypeOK, Answered, Calls
  <2> HIDE DEF attached
  <2>3. CASE session[l].bye
    <3>1. record' \in Records /\ UNCHANGED current
      <4>1. record \in Records /\ Told(record, "error") \in Records
        BY ToldIs, Values DEF TypeOK
      <4>2. /\ record' = IF Told(record, "error").present /\ Told(record, "error").status = "starting"
                         THEN [Told(record, "error") EXCEPT !.status = "error"] ELSE Told(record, "error")
            /\ UNCHANGED current
        BY <1>22, <2>3 DEF Answered
      <4>. QED
        BY <4>1, <4>2, IfStarting, Values
    <3>2. session' \in [Launches -> SessionRecords]
      BY <1>22, <2>3, Values DEF TypeOK, Answered, SessionRecords
    <3>. QED
      BY <1>22, <2>2, <3>1, <3>2 DEF TypeOK, Answered, calls, cluster
  <2>4. CASE ~session[l].bye /\ StopAwaited(current) = None
    <3>1. Shown(l, record, Held(Stopped(attached, current), l), l)
      BY <1>22, <2>4 DEF Answered, attached
    <3>2. record' \in Records /\ session' \in [Launches -> SessionRecords] /\ current' \in Launches \cup {None}
      BY <2>1, <3>1, StoppedIs, HeldType, ShownType DEF TypeOK
    <3>. QED
      BY <1>22, <2>2, <3>2 DEF TypeOK, Answered, calls, cluster
  <2>5. CASE ~session[l].bye /\ StopAwaited(current) # None
    <3>1. session' = Stopped(attached, current) /\ current' = l /\ UNCHANGED record
      BY <1>22, <2>5 DEF Answered, attached
    <3>2. session' \in [Launches -> SessionRecords]
      BY <2>1, <3>1, StoppedIs DEF TypeOK
    <3>. QED
      BY <1>22, <2>2, <3>1, <3>2 DEF TypeOK, Answered, calls, cluster
  <2>. QED
    BY <2>3, <2>4, <2>5
<1>23. ASSUME NEW l \in Launches, Replaced(l) PROVE TypeOK'
  <2>1. record' \in Records /\ session' \in [Launches -> SessionRecords] /\ current' \in Launches \cup {None}
    BY <1>23, HeldType, ShownType DEF TypeOK, Replaced
  <2>2. launch' \in [Launches -> Calls]
    BY <1>23, <1>s, Values DEF Replaced, Calls
  <2>. QED
    BY <1>23, <2>1, <2>2 DEF TypeOK, Replaced, calls, cluster
<1>24. ASSUME NEW l \in Launches, StopAnswered(l) PROVE TypeOK'
  <2>1. session' \in [Launches -> SessionRecords]
    BY <1>24, Values DEF TypeOK, StopAnswered, SessionRecords
  <2>. QED
    BY <1>24, <2>1 DEF TypeOK, StopAnswered, calls, cluster
<1>25. ASSUME NEW l \in Launches, GoFails(l) PROVE TypeOK'
  <2>1. session' \in [Launches -> SessionRecords]
    BY <1>25, <1>s, GoClosesType DEF GoFails
  <2>. QED
    BY <1>25, <2>1 DEF TypeOK, GoFails, calls, cluster
<1>26. ASSUME NEW l \in Launches, Closed(l) PROVE TypeOK'
  <2>1. session' \in [Launches -> SessionRecords]
    BY <1>26, Values DEF TypeOK, Closed, SessionRecords
  <2>2. record' \in Records
    BY <1>26, ToldIs, Values DEF TypeOK, Closed
  <2>. QED
    BY <1>26, <2>1, <2>2 DEF TypeOK, Closed, calls, cluster
<1>27. ASSUME NEW l \in Launches, recheck(l) PROVE TypeOK'
  <2>1. session' \in [Launches -> SessionRecords]
    BY <1>27, Values DEF TypeOK, recheck, Checks, SessionRecords
  <2>. QED
    BY <1>27, <2>1 DEF TypeOK, recheck, calls, cluster
<1>28. ASSUME NEW l \in Launches, PodServes(l) PROVE TypeOK'
  <2>1. session' \in [Launches -> SessionRecords]
    BY <1>28, Values DEF TypeOK, PodServes, Says, Checks, SessionRecords
  <2>2. record' \in Records
    <3>1. record \in Records /\ record' \in {record, Told(record, "active")}
      BY <1>28 DEF TypeOK, PodServes, Says
    <3>. QED
      BY <3>1, ToldIs, Values
  <2>. QED
    BY <1>28, <2>1, <2>2 DEF TypeOK, PodServes, calls, cluster
<1>29. ASSUME NEW l \in Launches, NoBackend(l) PROVE TypeOK'
  <2>1. session' \in [Launches -> SessionRecords]
    BY <1>29, Values DEF TypeOK, NoBackend, Says, Checks, SessionRecords
  <2>2. record' \in Records
    <3>1. record \in Records /\ record' \in {record, Told(record, "reconnecting")}
      BY <1>29 DEF TypeOK, NoBackend, Says
    <3>. QED
      BY <3>1, ToldIs, Values
  <2>. QED
    BY <1>29, <2>1, <2>2 DEF TypeOK, NoBackend, calls, cluster
<1>30. ASSUME NEW l \in Launches, Moved(l) PROVE TypeOK'
  <2>1. session' \in [Launches -> SessionRecords]
    BY <1>30, Values DEF TypeOK, Moved, Says, Checks, SessionRecords
  <2>2. record' \in Records
    <3>1. record \in Records /\ record' \in {record, Told(record, "active")}
      BY <1>30 DEF TypeOK, Moved, Says
    <3>. QED
      BY <3>1, ToldIs, Values
  <2>. QED
    BY <1>30, <2>1, <2>2 DEF TypeOK, Moved, calls, cluster
<1>31. ASSUME NEW l \in Launches, CheckFails(l) PROVE TypeOK'
  <2>1. session' \in [Launches -> SessionRecords]
    BY <1>31, Values DEF TypeOK, CheckFails, Checks, SessionRecords
  <2>. QED
    BY <1>31, <2>1 DEF TypeOK, CheckFails, calls, cluster
<1>32. ASSUME NEW l \in Launches, PodGone(l) PROVE TypeOK'
  <2>1. CASE session[l].stopped \/ target = "services"
    <3>1. session' \in [Launches -> SessionRecords] /\ UNCHANGED current
      BY <1>32, <2>1, Values DEF TypeOK, PodGone, Checks, SessionRecords
    <3>. QED
      BY <1>32, <3>1 DEF TypeOK, PodGone, calls, cluster
  <2>2. CASE ~(session[l].stopped \/ target = "services")
    <3> DEFINE s == Stopped(session, l)
    <3>1. s \in [Launches -> SessionRecords]
      BY StoppedIs DEF TypeOK
    <3>2. session' = [s EXCEPT ![l].check = "abandoning"] /\ current' \in Launches \cup {None}
      BY <1>32, <2>2 DEF TypeOK, PodGone
    <3> HIDE DEF s
    <3>3. session' \in [Launches -> SessionRecords]
      BY <3>1, <3>2, Values DEF SessionRecords
    <3>. QED
      BY <1>32, <3>2, <3>3 DEF TypeOK, PodGone, calls, cluster
  <2>. QED
    BY <2>1, <2>2
<1>33. ASSUME NEW l \in Launches, Abandoned(l) PROVE TypeOK'
  <2>1. session' \in [Launches -> SessionRecords]
    BY <1>33, Values DEF TypeOK, Abandoned, Checks, SessionRecords
  <2>2. record' \in Records
    BY <1>33, ToldIs, Values DEF TypeOK, Abandoned
  <2>. QED
    BY <1>33, <2>1, <2>2 DEF TypeOK, Abandoned, calls, cluster
<1>34. ASSUME NEW l \in Launches, Backend(l) PROVE TypeOK'
  <2>1. session' \in [Launches -> SessionRecords]
    BY <1>34, Values DEF TypeOK, Backend, Checks, SessionRecords
  <2>. QED
    BY <1>34, <2>1 DEF TypeOK, Backend, calls, cluster
<1>35. CASE UNCHANGED vars
  BY <1>35 DEF vars, calls, cluster, TypeOK
<1>. QED
  BY <1>1, <1>2, <1>3, <1>4, <1>5, <1>6, <1>7, <1>8, <1>9, <1>9a, <1>9b, <1>9c, <1>9e, <1>10, <1>10a, <1>11, <1>12, <1>13, <1>14, <1>15, <1>16, <1>17, <1>18, <1>19, <1>20, <1>21, <1>22, <1>23, <1>24, <1>25, <1>26, <1>27, <1>28, <1>29, <1>30, <1>31, <1>32, <1>33, <1>34, <1>35 DEF Next

(* Every variable keeps its type, whatever overlaps. *)
THEOREM TypesHold == Spec => []TypeOK
<1>1. ASSUME Init PROVE TypeOK
  <2>1. record \in Records
    BY <1>1, Values DEF Init, Records
  <2>2. launch \in [Launches -> Calls]
    BY <1>1, Values DEF Init, Calls
  <2>3. session \in [Launches -> SessionRecords]
    BY <1>1, Values DEF Init, SessionRecords
  <2>. QED
    BY <1>1, <2>1, <2>2, <2>3 DEF Init, TypeOK, ConnStates
<1>. QED
  BY <1>1, TypeStep, PTL DEF Spec

-----------------------------------------------------------------------------
(* What the record says. *)

(* What the store shows of the cluster is the session of an announced connect. *)
ShowsLive == shows = "live" => conn \notin {"closed", "connecting", "scoping"}
RecordInv == StopHolds /\ WaitsForCluster /\ ShowsLive

(* A report, a failure or an answer changes nothing of a record at rest. *)
LEMMA Keeps ==
  ASSUME RecordInv, record'.present = record.present, record'.byUser = record.byUser, UNCHANGED <<conn, shows>>,
         \/ record'.status = record.status
         \/ record.status \notin {"stopped", "waiting"} /\ record'.status # "waiting"
  PROVE  RecordInv'
BY DEF RecordInv, StopHolds, WaitsForCluster, ShowsLive, isConnected

(* So does what a session says. *)
LEMMA ToldKeeps ==
  ASSUME TypeOK, RecordInv, NEW st \in Statuses, st # "waiting", record' = Told(record, st), UNCHANGED <<conn, shows>>
  PROVE  RecordInv'
<1>1. /\ record'.present = record.present /\ record'.byUser = record.byUser
      /\ record'.status \in {record.status, st}
      /\ record.status \in {"stopped", "waiting"} => record'.status = record.status
  BY ToldIs DEF TypeOK
<1>. QED
  BY <1>1, Keeps

(* Every action keeps a stopped record stopped and leaves none waiting for a
   cluster that is connected. *)
LEMMA RecordStep == TypeOK /\ RecordInv /\ [Next]_vars => RecordInv'
<1> SUFFICES ASSUME TypeOK, RecordInv, [Next]_vars PROVE RecordInv'
    OBVIOUS
<1> USE DEF RecordInv
<1>1. CASE UNCHANGED <<record, conn, shows>>
  BY <1>1 DEF StopHolds, WaitsForCluster, ShowsLive, isConnected
<1>2. CASE Loaded
  <2> DEFINE r == [record EXCEPT !.present = TRUE, !.status = restingStatus(record)]
  <2>1. /\ r \in Records /\ r.byUser = record.byUser /\ r.status \in {"waiting", "stopped"}
        /\ r.status = "waiting" => ~r.byUser
    BY Values DEF TypeOK, Records, restingStatus
  <2>2. CASE r.status = "waiting" /\ isConnected
    <3>1. PICK l \in Launches : LaunchBegins(l, r) /\ UNCHANGED <<conn, shows>>
      BY <1>2, <2>2 DEF Loaded, cluster
    <3>2. record'.status = "starting" /\ record'.byUser = r.byUser
      BY <2>1, <3>1, BeginsType
    <3>. QED
      BY <2>1, <2>2, <3>1, <3>2 DEF StopHolds, WaitsForCluster, ShowsLive
  <2>3. CASE ~(r.status = "waiting" /\ isConnected)
    <3>1. record' = r /\ UNCHANGED <<conn, shows>>
      BY <1>2, <2>3 DEF Loaded, cluster
    <3> HIDE DEF r
    <3>. QED
      BY <2>1, <2>3, <3>1 DEF StopHolds, WaitsForCluster, ShowsLive, isConnected
  <2>. QED
    BY <2>2, <2>3
<1>3. CASE start
  <2>1. [record EXCEPT !.byUser = FALSE] \in Records /\ [record EXCEPT !.byUser = FALSE].byUser = FALSE
    BY DEF TypeOK, Records
  <2>2. /\ record'.byUser = FALSE /\ record'.status \in {"starting", "waiting"}
        /\ record'.status = "waiting" => ~isConnected
        /\ UNCHANGED <<conn, shows>>
    BY <1>3, <2>1, StartsType DEF start, cluster
  <2>. QED
    BY <2>2 DEF StopHolds, WaitsForCluster, ShowsLive, isConnected
<1>4. ASSUME NEW mode \in Modes, create(mode) PROVE RecordInv'
  <2> DEFINE r == [present |-> TRUE, status |-> "stopped", byUser |-> FALSE, mode |-> mode]
  <2>1. r \in Records /\ r.byUser = FALSE
    BY Values DEF Records
  <2>2. Starts(r) /\ UNCHANGED <<conn, shows>>
    BY <1>4 DEF create, cluster
  <2> HIDE DEF r
  <2>3. /\ record'.byUser = FALSE /\ record'.status \in {"starting", "waiting"}
        /\ record'.status = "waiting" => ~isConnected
    BY <2>1, <2>2, StartsType
  <2>. QED
    BY <2>2, <2>3 DEF StopHolds, WaitsForCluster, ShowsLive, isConnected
<1>5. CASE stop
  <2>1. record'.status = "stopped"
    BY <1>5 DEF stop, TypeOK, Records
  <2>. QED
    BY <1>5, <2>1 DEF stop, cluster, StopHolds, WaitsForCluster, ShowsLive
<1>6. CASE remove
  <2>1. record'.status = "stopped"
    BY <1>6, RecordUpdate, Values DEF remove, Shows, TypeOK
  <2>. QED
    BY <1>6, <2>1 DEF remove, cluster, StopHolds, WaitsForCluster, ShowsLive
<1>7. CASE Removed
  <2>1. CASE UNCHANGED record
    BY <1>1, <1>7, <2>1 DEF Removed, cluster
  <2>2. CASE record' = [present |-> FALSE, status |-> "stopped", byUser |-> FALSE, mode |-> record.mode]
    BY <1>7, <2>2 DEF Removed, cluster, StopHolds, WaitsForCluster, ShowsLive
  <2>. QED
    BY <1>7, <2>1, <2>2 DEF Removed
<1>8. CASE Updated
  <2>1. CASE record.present /\ edit = "ports" /\ isRunning(record.status)
    <3>1. PICK l \in Launches : LaunchBegins(l, record)
      BY <1>8, <2>1 DEF Updated
    <3>2. record'.status = "starting" /\ record'.byUser = record.byUser
      BY <3>1, BeginsType DEF TypeOK
    <3>. QED
      BY <1>8, <2>1, <3>2 DEF Updated, cluster, StopHolds, WaitsForCluster, ShowsLive, isRunning, Listening
  <2>2. CASE ~(record.present /\ edit = "ports" /\ isRunning(record.status))
    <3>1. \/ record' = record
          \/ record' = [record EXCEPT !.mode = edit,
               !.status = IF @ = "waiting" /\ ~restoresOnConnect(edit) THEN "stopped" ELSE @]
      BY <1>8, <2>2 DEF Updated
    <3>2. /\ record'.present = record.present /\ record'.byUser = record.byUser
          /\ record'.status \in {record.status, "stopped"}
      BY <3>1 DEF TypeOK, Records
    <3>. QED
      BY <1>8, <3>2 DEF Updated, cluster, StopHolds, WaitsForCluster, ShowsLive, isConnected
  <2>. QED
    BY <2>1, <2>2
<1>9. ASSUME NEW joins \in BOOLEAN, connectBegins(joins), UNCHANGED record PROVE RecordInv'
  BY <1>9, ConnectIs DEF StopHolds, WaitsForCluster, ShowsLive, isConnected
<1>9a. CASE Connects \/ Enters \/ StartDials
  BY <1>9, <1>9a DEF Connects, Enters, StartDials
<1>9b. CASE Restored
  BY <1>1, <1>9, <1>9b DEF Restored, cluster
<1>9c. CASE Dialed \/ Reclosed
  BY <1>9c DEF Dialed, Reclosed, StopHolds, WaitsForCluster, ShowsLive, isConnected
<1>9d. ASSUME GivesUp
       PROVE  /\ record'.present = record.present /\ record'.byUser = record.byUser
              /\ record' = record \/ (record.status = "waiting" /\ record'.status = "error")
  <2>1. CASE record.present /\ record.status = "waiting"
    <3>1. record' = [record EXCEPT !.status = "error"] /\ record \in Records
      BY <1>9d, <2>1 DEF TypeOK, GivesUp, Shows
    <3>. QED
      BY <2>1, <3>1, RecordUpdate, Values
  <2>2. CASE ~(record.present /\ record.status = "waiting")
    BY <1>9d, <2>2 DEF GivesUp
  <2>. QED
    BY <2>1, <2>2
<1>9e. CASE StartReturns
  BY <1>9d, <1>9e DEF StartReturns, cluster, StopHolds, WaitsForCluster, ShowsLive, isConnected
<1>10. CASE ScopeRead
  <2>1. CASE record.present /\ record.status = "waiting"
    <3>1. PICK l \in Launches : LaunchBegins(l, record)
      BY <1>10, <2>1 DEF ScopeRead
    <3>2. record'.status = "starting" /\ record'.byUser = record.byUser
      BY <3>1, BeginsType DEF TypeOK
    <3>. QED
      BY <1>10, <2>1, <3>2 DEF ScopeRead, connectEnds, StopHolds, WaitsForCluster, ShowsLive
  <2>2. CASE ~(record.present /\ record.status = "waiting")
    BY <1>10, <2>2 DEF ScopeRead, connectEnds, StopHolds, WaitsForCluster, ShowsLive
  <2>. QED
    BY <2>1, <2>2
<1>10a. CASE ScopeFails
  BY <1>10a DEF ScopeFails, connectEnds, StopHolds, WaitsForCluster, ShowsLive, isConnected
<1>11. CASE Unreached
  BY <1>9d, <1>11 DEF Unreached, connectEnds, StopHolds, WaitsForCluster, ShowsLive, isConnected
<1>12. CASE Drains \/ GoDisconnects
  BY <1>12 DEF Drains, drain, GoDisconnects, StopHolds, WaitsForCluster, ShowsLive, isConnected
<1>13. CASE Disconnected
  <2>1. CASE record.present /\ record.status # "stopped"
    <3>1. record' = [record EXCEPT !.status = restingStatus(record)] /\ restingStatus(record) \in Statuses
      BY <1>13, <2>1, Values DEF Disconnected, restingStatus
    <3>2. record'.status = restingStatus(record) /\ record'.byUser = record.byUser
      BY <3>1, RecordUpdate DEF TypeOK
    <3>. QED
      BY <1>13, <3>2 DEF Disconnected, StopHolds, WaitsForCluster, ShowsLive, isConnected, restingStatus
  <2>2. CASE ~(record.present /\ record.status # "stopped")
    BY <1>13, <2>2 DEF Disconnected, StopHolds, WaitsForCluster, ShowsLive
  <2>. QED
    BY <2>1, <2>2
<1>14. ASSUME NEW l \in Launches, LaunchFails(l), UNCHANGED <<conn, shows>> PROVE RecordInv'
  <2>1. /\ record'.present = record.present /\ record'.byUser = record.byUser
        /\ record'.status \in {record.status, "error"}
        /\ record.status \in {"stopped", "waiting"} => record'.status = record.status
    BY <1>14, FailsType
  <2>. QED
    BY <1>14, <2>1, Keeps
<1>15. ASSUME NEW l \in Launches, NEW s \in [Launches -> SessionRecords], NEW c \in Launches \cup {None},
              Shown(l, record, s, c), UNCHANGED <<conn, shows>>
       PROVE  RecordInv'
  <2>1. /\ record'.present = record.present /\ record'.byUser = record.byUser
        /\ record.present /\ record.status = "starting" => record'.status = "active"
        /\ ~(record.present /\ record.status = "starting") => record'.status = record.status
    <3>1. record \in Records
      BY DEF TypeOK
    <3>. QED
      BY <1>15, <3>1, ShownType
  <2>. QED
    BY <1>15, <2>1, Keeps
<1>16. ASSUME NEW l \in Launches, Answered(l) PROVE RecordInv'
  <2> DEFINE attached == [session EXCEPT ![l].status = "active"]
  <2>1. attached \in [Launches -> SessionRecords] /\ UNCHANGED <<conn, shows>>
    BY <1>16, Values DEF TypeOK, SessionRecords, Answered, cluster
  <2>2. CASE session[l].bye
    <3> DEFINE told == Told(record, "error")
    <3>1. /\ told \in Records /\ told.present = record.present /\ told.byUser = record.byUser
          /\ told.status \in {record.status, "error"}
          /\ record.status \in {"stopped", "waiting"} => told.status = record.status
      BY ToldIs, Values DEF TypeOK
    <3>2. record' = IF told.present /\ told.status = "starting" THEN [told EXCEPT !.status = "error"] ELSE told
      BY <1>16, <2>2 DEF Answered
    <3> HIDE DEF told
    <3>3. /\ record'.present = told.present /\ record'.byUser = told.byUser
          /\ (told.status = "starting" /\ record'.status = "error") \/ record'.status = told.status
      BY <3>1, <3>2, IfStarting, Values
    <3>. QED
      BY <2>1, <3>1, <3>3, Keeps
  <2> HIDE DEF attached
  <2>3. CASE ~session[l].bye /\ StopAwaited(current) = None
    <3>1. Shown(l, record, Held(Stopped(attached, current), l), l)
      BY <1>16, <2>3 DEF Answered, attached
    <3>2. Held(Stopped(attached, current), l) \in [Launches -> SessionRecords]
      BY <2>1, StoppedIs, HeldType DEF TypeOK
    <3>. QED
      BY <1>15, <2>1, <3>1, <3>2
  <2>4. CASE ~session[l].bye /\ StopAwaited(current) # None
    BY <1>1, <1>16, <2>1, <2>4 DEF Answered
  <2>. QED
    BY <2>2, <2>3, <2>4
<1>17. ASSUME NEW l \in Launches, Replaced(l) PROVE RecordInv'
  <2>1. Held(session, l) \in [Launches -> SessionRecords] /\ current \in Launches \cup {None}
    BY HeldType DEF TypeOK
  <2>2. Shown(l, record, Held(session, l), current) /\ UNCHANGED <<conn, shows>>
    BY <1>17 DEF Replaced, cluster
  <2>. QED
    BY <1>15, <2>1, <2>2
<1>18. ASSUME NEW l \in Launches, Cleared(l) PROVE RecordInv'
  BY <1>1, <1>14, <1>18 DEF Cleared, cluster
<1>19. ASSUME NEW l \in Launches, Unresolved(l) \/ Refused(l) PROVE RecordInv'
  BY <1>14, <1>19 DEF Unresolved, Refused, cluster
<1>20. ASSUME NEW l \in Launches, NEW st \in Statuses, st # "waiting", Says(l, st), UNCHANGED <<conn, shows>> PROVE RecordInv'
  BY <1>1, <1>20, ToldKeeps DEF Says
<1>21. ASSUME NEW l \in Launches, PodServes(l) \/ NoBackend(l) \/ Moved(l) PROVE RecordInv'
  BY <1>1, <1>20, <1>21, Values DEF PodServes, NoBackend, Moved, cluster
<1>22. ASSUME NEW l \in Launches, Closed(l) \/ Abandoned(l) PROVE RecordInv'
  BY <1>22, ToldKeeps, Values DEF Closed, Abandoned, cluster
<1>23. ASSUME NEW l \in Launches,
              Resolved(l) \/ GoListens(l) \/ StopAnswered(l) \/ GoFails(l) \/ recheck(l) \/ CheckFails(l)
                \/ PodGone(l) \/ Backend(l)
       PROVE  RecordInv'
  BY <1>1, <1>23 DEF Resolved, GoListens, StopAnswered, GoFails, recheck, CheckFails, PodGone, Backend, cluster
<1>24. CASE LoadFails \/ UpdateFails \/ StartJoins \/ (\E change \in {"ports"} \cup Modes : update(change)) \/ UNCHANGED vars
  BY <1>1, <1>24 DEF LoadFails, UpdateFails, StartJoins, update, vars, cluster
<1>. QED
  BY <1>2, <1>3, <1>4, <1>5, <1>6, <1>7, <1>8, <1>9a, <1>9b, <1>9c, <1>9e, <1>10, <1>10a, <1>11, <1>12, <1>13, <1>16,
     <1>17, <1>18, <1>19, <1>21, <1>22, <1>23, <1>24 DEF Next

(* What the user stopped stays stopped: whatever connect, disconnect, report or
   late answer of a launch comes meanwhile, only a start changes
   what the record shows. *)
THEOREM StoppedStays == Spec => []StopHolds
<1>1. Init => RecordInv
  BY DEF Init, RecordInv, StopHolds, WaitsForCluster, ShowsLive
<1>2. RecordInv => StopHolds
  BY DEF RecordInv
<1>. QED
  BY <1>1, <1>2, TypesHold, RecordStep, PTL DEF Spec

(* No forward waits for a cluster whose connect was announced, however the
   reading of the records, a start and the awaits of a connect or a reconnect
   interleave. *)
THEOREM WaitingIsStarted == Spec => []WaitsForCluster
<1>1. Init => RecordInv
  BY DEF Init, RecordInv, StopHolds, WaitsForCluster, ShowsLive
<1>2. RecordInv => WaitsForCluster
  BY DEF RecordInv
<1>. QED
  BY <1>1, <1>2, TypesHold, RecordStep, PTL DEF Spec

-----------------------------------------------------------------------------
(* Whose a listener is. *)

(* The place of one launch: where its listener stands, by the await the launch
   is at, and what the registry and the service hold. *)
Listener(l) ==
  /\ launch[l].pc \in {"idle", "clearing", "resolving"} => session[l].go = "none" /\ ~session[l].stopped
  /\ launch[l].pc = "listening" => ~session[l].stopped
  /\ session[l].stopped => session[l].go \notin {"asked", "open"}
  /\ session[l].bye => session[l].go = "closed"
  /\ session[l].held => launch[l].pc = "done"
  /\ session[l].go = "asked" => launch[l].pc = "listening"
  /\ launch[l].pc = "replacing" /\ ~session[l].stopped => current = l
  /\ current = l => launch[l].pc \in {"replacing", "done"}
  /\ session[l].check # "idle" => launch[l].pc \in {"replacing", "done"}
  /\ launch[l].pc = "done" /\ session[l].go = "open" => current = l /\ session[l].held
ListenerInv == \A l \in Launches : Listener(l)

SameSession(k) ==
  /\ session'[k].stopped = session[k].stopped /\ session'[k].go = session[k].go
  /\ session'[k].bye = session[k].bye /\ session'[k].held = session[k].held
  /\ session'[k].check = "idle" \/ session[k].check # "idle" \/ current = k

(* What a step changes only of the record, the cluster or the checks. *)
LEMMA ListenerKept ==
  ASSUME ListenerInv, UNCHANGED current, \A k \in Launches : SameSession(k) /\ launch'[k].pc = launch[k].pc
  PROVE  ListenerInv'
BY DEF ListenerInv, Listener, SameSession

(* The service stops the session it holds: a stop, a removal, a disconnect, or
   a launch that begins. *)
LEMMA ListenerStopped ==
  ASSUME TypeOK, ListenerInv, session' = Stopped(session, current), current' = None,
         \A k \in Launches : \/ launch'[k].pc = launch[k].pc
                             \/ launch[k].pc = "idle" /\ launch'[k].pc \in {"resolving", "clearing"}
  PROVE  ListenerInv'
<1> SUFFICES ASSUME NEW k \in Launches PROVE Listener(k)'
    BY DEF ListenerInv
<1>1. /\ session'[k] \in SessionRecords /\ session[k] \in SessionRecords /\ k # None /\ Listener(k)
      /\ current # k => session'[k] = session[k]
      /\ current = k => /\ session'[k].stopped /\ ~session'[k].held
                        /\ session'[k].go = (IF session[k].stopped THEN session[k].go ELSE "closing")
                        /\ session[k].stopped => session'[k].bye = session[k].bye
                        /\ ~session[k].stopped => ~session'[k].bye
                        /\ session'[k].check = session[k].check
  BY StoppedIs, NoneApart DEF TypeOK, ListenerInv
<1>2. CASE current = k
  BY <1>1, <1>2 DEF Listener
<1>3. CASE current # k
  BY <1>1, <1>3 DEF Listener
<1>. QED
  BY <1>2, <1>3

(* A launch begins, in whichever action. *)
LEMMA ListenerBegins ==
  ASSUME TypeOK, ListenerInv, NEW l \in Launches, NEW r \in Records, LaunchBegins(l, r)
  PROVE  ListenerInv'
<1>1. /\ session' = Stopped(session, current) /\ current' = None
      /\ launch[l].pc = "idle" /\ launch'[l].pc \in {"resolving", "clearing"}
      /\ \A k \in Launches : k # l => launch'[k] = launch[k]
  BY BeginsType
<1>. QED
  BY <1>1, ListenerStopped

(* A launch is over: one that got no listener, or whose listener is closed. *)
LEMMA ListenerOver ==
  ASSUME TypeOK, ListenerInv, NEW l \in Launches, UNCHANGED current, launch'[l].pc = "done",
         \A k \in Launches : k # l => launch'[k] = launch[k] /\ SameSession(k),
         session'[l].go \in {"none", "closed"}, session'[l].stopped = session[l].stopped,
         session'[l].bye => session'[l].go = "closed", launch[l].pc \notin {"idle", "done"}
  PROVE  ListenerInv'
BY DEF ListenerInv, Listener, SameSession

(* Every action keeps every listener with its launch, its session or nobody
   because it is closed. *)
LEMMA ListenerStep == TypeOK /\ ListenerInv /\ [Next]_vars => ListenerInv'
<1> SUFFICES ASSUME TypeOK, ListenerInv, [Next]_vars PROVE ListenerInv'
    OBVIOUS
<1>1. CASE UNCHANGED <<launch, current, session>>
  BY <1>1, ListenerKept DEF SameSession
<1>2. CASE Loaded
  <2> DEFINE r == [record EXCEPT !.present = TRUE, !.status = restingStatus(record)]
  <2>1. r \in Records
    BY Values DEF TypeOK, Records, restingStatus
  <2>2. (\E l \in Launches : LaunchBegins(l, r)) \/ UNCHANGED <<launch, current, session>>
    BY <1>2 DEF Loaded
  <2>. QED
    BY <1>1, <2>1, <2>2, ListenerBegins
<1>3. ASSUME NEW r \in Records, Starts(r) PROVE ListenerInv'
  BY <1>1, <1>3, ListenerBegins DEF Starts
<1>4. CASE start
  <2>1. [record EXCEPT !.byUser = FALSE] \in Records
    BY DEF TypeOK, Records
  <2>. QED
    BY <1>3, <1>4, <2>1 DEF start
<1>5. ASSUME NEW mode \in Modes, create(mode) PROVE ListenerInv'
  <2>1. [present |-> TRUE, status |-> "stopped", byUser |-> FALSE, mode |-> mode] \in Records
    BY Values DEF Records
  <2>. QED
    BY <1>3, <1>5, <2>1 DEF create
<1>6. CASE stop \/ remove \/ Disconnected
  BY <1>6, ListenerStopped DEF stop, remove, Disconnected, serviceStop
<1>7. CASE Updated \/ ScopeRead
  BY <1>1, <1>7, ListenerBegins DEF Updated, ScopeRead, TypeOK
<1>8. ASSUME NEW next, NEW again \in BOOLEAN, drain(next, again), UNCHANGED <<launch, current>> PROVE ListenerInv'
  <2> SUFFICES ASSUME NEW k \in Launches PROVE Listener(k)'
      BY DEF ListenerInv
  <2>1. Listener(k)
    BY DEF ListenerInv
  <2>2. CASE session[k].held
    BY <1>8, <2>1, <2>2, DrainIs DEF Listener
  <2>3. CASE ~session[k].held
    BY <1>8, <2>1, <2>3, DrainIs DEF Listener
  <2>. QED
    BY <2>2, <2>3
<1>8a. ASSUME NEW joins \in BOOLEAN, connectBegins(joins), UNCHANGED <<launch, current>> PROVE ListenerInv'
  BY <1>1, <1>8, <1>8a, ConnectIs
<1>8b. CASE Drains
  BY <1>8, <1>8b DEF Drains
<1>8c. CASE Connects \/ Enters \/ StartDials \/ Restored
  BY <1>1, <1>8a, <1>8c DEF Connects, Enters, StartDials, Restored
<1>9. ASSUME NEW k \in Launches, NEW s \in SessionRecords, s = GoCloses(session[k])
      PROVE  /\ s.stopped = session[k].stopped /\ s.held = session[k].held /\ s.check = session[k].check
             /\ session[k].go = "open" => s.go = "closed"
             /\ session[k].go # "open" => s.go = session[k].go /\ s.bye = session[k].bye
  BY <1>9 DEF GoCloses, TypeOK, SessionRecords
<1>10. CASE GoDisconnects
  <2> SUFFICES ASSUME NEW k \in Launches PROVE Listener(k)'
      BY DEF ListenerInv
  <2>1. /\ Listener(k) /\ UNCHANGED current /\ session'[k] = GoCloses(session[k]) /\ session'[k] \in SessionRecords
        /\ launch'[k].pc = launch[k].pc
    BY <1>10, TypeStep DEF GoDisconnects, ListenerInv, TypeOK, Calls
  <2>. QED
    BY <1>9, <2>1 DEF Listener
<1>11. ASSUME NEW l \in Launches, GoFails(l) PROVE ListenerInv'
  <2> SUFFICES ASSUME NEW k \in Launches PROVE Listener(k)'
      BY DEF ListenerInv
  <2>1. /\ Listener(k) /\ UNCHANGED <<current, launch>> /\ session'[k] \in SessionRecords
        /\ session'[k] \in {session[k], GoCloses(session[k])}
    BY <1>11, TypeStep DEF GoFails, ListenerInv, TypeOK
  <2>. QED
    BY <1>9, <2>1 DEF Listener
<1>12. ASSUME NEW l \in Launches, LaunchFails(l), UNCHANGED <<current, session>>, session[l].go = "none",
              launch[l].pc \in {"clearing", "resolving"}
       PROVE  ListenerInv'
  <2>1. launch'[l].pc = "done" /\ \A k \in Launches : k # l => launch'[k] = launch[k]
    BY <1>12, FailsType
  <2>. QED
    BY <1>12, <2>1, ListenerOver DEF SameSession, ListenerInv, Listener
<1>13. ASSUME NEW l \in Launches, Cleared(l) \/ Unresolved(l) PROVE ListenerInv'
  <2>1. session[l].go = "none" /\ UNCHANGED <<current, session>> /\ launch[l].pc \in {"clearing", "resolving"}
    BY <1>13 DEF Cleared, Unresolved, ListenerInv, Listener
  <2>2. CASE LaunchFails(l)
    BY <1>12, <2>1, <2>2
  <2>3. CASE launch[l].pc = "clearing"
             /\ launch' = [launch EXCEPT ![l].pc = "resolving", ![l].waits = None, ![l].lost = SessionGone]
    <3>1. launch'[l].pc = "resolving" /\ \A k \in Launches : k # l => launch'[k] = launch[k]
      BY <2>3 DEF TypeOK, Calls
    <3> SUFFICES ASSUME NEW k \in Launches PROVE Listener(k)'
        BY DEF ListenerInv
    <3>2. Listener(k) /\ (k = l \/ launch'[k] = launch[k])
      BY <3>1 DEF ListenerInv
    <3>. QED
      BY <2>1, <2>3, <3>1, <3>2 DEF Listener
  <2>. QED
    BY <1>13, <2>2, <2>3 DEF Cleared, Unresolved
<1>14. ASSUME NEW l \in Launches, Resolved(l) PROVE ListenerInv'
  <2>1. /\ launch[l].pc = "resolving" /\ launch'[l].pc = "listening" /\ UNCHANGED current
        /\ session'[l].go = "asked" /\ session'[l].stopped = session[l].stopped
        /\ session'[l].bye = session[l].bye /\ session'[l].held = session[l].held
        /\ session'[l].check = session[l].check
        /\ \A k \in Launches : k # l => launch'[k] = launch[k] /\ session'[k] = session[k]
    BY <1>14 DEF Resolved, TypeOK, Calls, SessionRecords
  <2>. QED
    BY <2>1 DEF ListenerInv, Listener
<1>15. ASSUME NEW l \in Launches, GoListens(l) PROVE ListenerInv'
  <2>1. /\ session[l].go = "asked" /\ UNCHANGED <<launch, current>>
        /\ session'[l].go = "open" /\ session'[l].stopped = session[l].stopped
        /\ session'[l].bye = session[l].bye /\ session'[l].held = session[l].held
        /\ session'[l].check = session[l].check
        /\ \A k \in Launches : k # l => session'[k] = session[k]
    BY <1>15 DEF GoListens, TypeOK, SessionRecords
  <2>. QED
    BY <2>1 DEF ListenerInv, Listener
<1>16. ASSUME NEW l \in Launches, Refused(l) PROVE ListenerInv'
  <2>1. launch'[l].pc = "done" /\ \A k \in Launches : k # l => launch'[k] = launch[k]
    BY <1>16, FailsType DEF Refused
  <2>2. /\ launch[l].pc = "listening" /\ UNCHANGED current
        /\ session'[l].go = "closed" /\ session'[l].stopped = session[l].stopped
        /\ session'[l].held = session[l].held /\ session'[l].check = session[l].check
        /\ \A k \in Launches : k # l => session'[k] = session[k]
    BY <1>16 DEF Refused, TypeOK, SessionRecords
  <2>. QED
    BY <2>1, <2>2, ListenerOver DEF SameSession
<1>17. ASSUME NEW l \in Launches, StopAnswered(l) PROVE ListenerInv'
  <2>1. /\ session[l].go = "closing" /\ UNCHANGED <<launch, current>>
        /\ session'[l].go = "closed" /\ session'[l].stopped = session[l].stopped
        /\ session'[l].bye = session[l].bye /\ session'[l].held = session[l].held
        /\ session'[l].check = session[l].check
        /\ \A k \in Launches : k # l => session'[k] = session[k]
    BY <1>17 DEF StopAnswered, TypeOK, SessionRecords
  <2>. QED
    BY <2>1 DEF ListenerInv, Listener
<1>18. ASSUME NEW l \in Launches, Closed(l) PROVE ListenerInv'
  <2>1. /\ session[l].bye /\ launch[l].pc # "listening" /\ UNCHANGED launch
        /\ current' = IF current = l THEN None ELSE current
        /\ session'[l].go = session[l].go /\ session'[l].stopped /\ ~session'[l].bye /\ ~session'[l].held
        /\ session'[l].check = session[l].check
        /\ \A k \in Launches : k # l => session'[k] = session[k]
    BY <1>18 DEF Closed, TypeOK, SessionRecords
  <2>. QED
    BY <2>1, NoneApart DEF ListenerInv, Listener
<1>19. ASSUME NEW l \in Launches, NEW check \in Rechecks, Checks(l, check), UNCHANGED <<launch, current>>,
              check = "idle" \/ session[l].check # "idle" \/ current = l
       PROVE  ListenerInv'
  <2>1. \A k \in Launches : SameSession(k)
    BY <1>19 DEF Checks, SameSession, TypeOK, SessionRecords
  <2>. QED
    BY <1>19, <2>1, ListenerKept
<1>20. ASSUME NEW l \in Launches, NEW st \in Statuses, Says(l, st), UNCHANGED <<launch, current>>
       PROVE  ListenerInv'
  <2>1. CASE session[l].stopped
    BY <1>19, <1>20, <2>1, Values DEF Says
  <2>2. CASE ~session[l].stopped
    <3>1. \A k \in Launches : SameSession(k)
      BY <1>20, <2>2 DEF Says, SameSession, TypeOK, SessionRecords
    <3>. QED
      BY <1>20, <3>1, ListenerKept
  <2>. QED
    BY <2>1, <2>2
<1>21. ASSUME NEW l \in Launches, PodServes(l) \/ NoBackend(l) \/ Moved(l) PROVE ListenerInv'
  BY <1>19, <1>20, <1>21, Values DEF PodServes, NoBackend, Moved
<1>22. ASSUME NEW l \in Launches, recheck(l) \/ CheckFails(l) \/ Abandoned(l) \/ Backend(l) PROVE ListenerInv'
  BY <1>19, <1>22, Values DEF recheck, CheckFails, Abandoned, Backend
<1>23. ASSUME NEW l \in Launches, PodGone(l) PROVE ListenerInv'
  <2>1. CASE session[l].stopped \/ target = "services"
    BY <1>19, <1>23, <2>1, Values DEF PodGone
  <2>2. CASE ~session[l].stopped /\ target # "services"
    <3> DEFINE s == Stopped(session, l)
    <3>1. /\ s \in [Launches -> SessionRecords] /\ s[l].stopped /\ ~s[l].held /\ ~s[l].bye /\ s[l].go = "closing"
          /\ \A k \in Launches : k # l => s[k] = session[k]
      BY <2>2, StoppedIs DEF TypeOK
    <3>2. /\ session' = [s EXCEPT ![l].check = "abandoning"] /\ UNCHANGED launch
          /\ current' = IF current = l THEN None ELSE current
      BY <1>23, <2>2 DEF PodGone
    <3> HIDE DEF s
    <3>3. /\ session'[l].stopped /\ ~session'[l].held /\ ~session'[l].bye /\ session'[l].go = "closing"
          /\ \A k \in Launches : k # l => session'[k] = session[k]
      BY <3>1, <3>2 DEF SessionRecords
    <3>4. launch[l].pc \notin {"idle", "clearing", "resolving", "listening"}
      BY <1>23, <2>2 DEF PodGone, ListenerInv, Listener
    <3> SUFFICES ASSUME NEW k \in Launches PROVE Listener(k)'
        BY DEF ListenerInv
    <3>5. CASE k = l
      BY <3>2, <3>3, <3>4, <3>5, NoneApart DEF TypeOK, Calls, Pcs, Listener
    <3>6. CASE k # l
      <4>1. Listener(k) /\ session'[k] = session[k] /\ launch'[k] = launch[k] /\ (current' = k <=> current = k)
        BY <3>2, <3>3, <3>6, NoneApart DEF ListenerInv
      <4>. QED
        BY <4>1 DEF Listener
    <3>. QED
      BY <3>5, <3>6
  <2>. QED
    BY <2>1, <2>2
<1>24. ASSUME NEW l \in Launches, Answered(l) PROVE ListenerInv'
  <2>1. /\ launch[l].pc = "listening" /\ current # l /\ ~session[l].stopped /\ session[l].check = "idle"
        /\ \A k \in Launches : k # l => launch'[k] = launch[k]
    <3>1. Listener(l) /\ launch[l].pc = "listening"
      BY <1>24 DEF Answered, ListenerInv
    <3>2. PICK c : launch' = [launch EXCEPT ![l] = c]
      BY <1>24 DEF Answered, TypeOK
    <3>. QED
      BY <3>1, <3>2 DEF Listener, TypeOK, SessionRecords
  <2> DEFINE attached == [session EXCEPT ![l].status = "active"]
             over == Stopped(attached, current)
             held == Held(over, l)
  <2>2. /\ attached \in [Launches -> SessionRecords] /\ attached[l].stopped = session[l].stopped
        /\ attached[l].go = session[l].go /\ attached[l].bye = session[l].bye
        /\ attached[l].held = session[l].held /\ attached[l].check = session[l].check
        /\ \A k \in Launches : k # l => attached[k] = session[k]
    BY Values DEF TypeOK, SessionRecords
  <2>3. CASE session[l].bye
    <3>1. /\ launch'[l].pc = "done" /\ UNCHANGED current
          /\ session'[l].stopped /\ ~session'[l].bye /\ session'[l].go = session[l].go
          /\ session'[l].held = session[l].held /\ session'[l].check = session[l].check
          /\ \A k \in Launches : k # l => session'[k] = session[k]
      BY <1>24, <2>3 DEF Answered, TypeOK, Calls, SessionRecords
    <3>. QED
      BY <2>1, <2>3, <3>1 DEF ListenerInv, Listener
  <2> HIDE DEF attached
  <2>4. /\ over \in [Launches -> SessionRecords] /\ over[l] = attached[l]
        /\ \A k \in Launches : k \notin {l, current} => over[k] = session[k]
        /\ current # None => /\ over[current].stopped /\ ~over[current].held
                             /\ over[current].go = (IF session[current].stopped THEN session[current].go ELSE "closing")
                             /\ session[current].stopped => over[current].bye = session[current].bye
                             /\ ~session[current].stopped => ~over[current].bye
                             /\ over[current].check = session[current].check
    BY <2>1, <2>2, StoppedIs DEF TypeOK
  <2> HIDE DEF over
  <2>5. /\ held \in [Launches -> SessionRecords] /\ held[l].held /\ held[l].stopped = over[l].stopped
        /\ held[l].go = over[l].go /\ held[l].bye = over[l].bye /\ held[l].check = over[l].check
        /\ \A k \in Launches : k # l => held[k] = over[k]
    BY <2>4 DEF Held, SessionRecords
  <2> HIDE DEF held
  <2>6. CASE ~session[l].bye /\ StopAwaited(current) = None
    <3>1. Shown(l, record, held, l) /\ launch'[l].pc = "done"
      BY <1>24, <2>6 DEF Answered, attached, over, held, TypeOK, Calls
    <3>2. current # None => session[current].stopped
      BY <2>6 DEF StopAwaited, TypeOK
    <3>3. CASE session' = held /\ current' = l
      <4> SUFFICES ASSUME NEW k \in Launches PROVE Listener(k)'
          BY DEF ListenerInv
      <4>1. CASE k = l
        <5>1. /\ ~held[l].stopped /\ ~held[l].bye /\ held[l].held /\ held[l].check = "idle"
              /\ held[l].go = session[l].go /\ session[l].go # "asked"
          BY <1>24, <2>1, <2>2, <2>4, <2>5, <2>6 DEF Answered
        <5>. QED
          BY <3>1, <3>3, <4>1, <5>1 DEF Listener
      <4>2. CASE k = current /\ k # l
        BY <2>1, <2>4, <2>5, <3>2, <3>3, <4>2, NoneApart DEF ListenerInv, Listener
      <4>3. CASE k # current /\ k # l
        BY <2>1, <2>4, <2>5, <3>3, <4>3 DEF ListenerInv, Listener
      <4>. QED
        BY <4>1, <4>2, <4>3
    <3>4. CASE session' = Stopped(held, l) /\ current' = None
      <4>1. /\ session'[l].stopped /\ ~session'[l].held /\ ~session'[l].bye /\ session'[l].go = "closing"
            /\ session'[l].check = "idle"
            /\ \A k \in Launches : k # l => session'[k] = over[k]
        BY <2>1, <2>2, <2>4, <2>5, <3>4, StoppedIs
      <4> SUFFICES ASSUME NEW k \in Launches PROVE Listener(k)'
          BY DEF ListenerInv
      <4>2. CASE k = l
        BY <3>1, <3>4, <4>1, <4>2, NoneApart DEF Listener
      <4>3. CASE k = current /\ k # l
        BY <2>1, <2>4, <3>2, <3>4, <4>1, <4>3, NoneApart DEF ListenerInv, Listener
      <4>4. CASE k # current /\ k # l
        BY <2>1, <2>4, <3>4, <4>1, <4>4, NoneApart DEF ListenerInv, Listener
      <4>. QED
        BY <4>2, <4>3, <4>4
    <3>. QED
      BY <3>1, <3>3, <3>4 DEF Shown
  <2>7. CASE ~session[l].bye /\ StopAwaited(current) # None
    <3>1. session' = over /\ current' = l /\ launch'[l].pc = "replacing" /\ current # None
      <4>1. session' = over /\ current' = l /\ current # None
        BY <1>24, <2>7 DEF Answered, attached, over, StopAwaited
      <4>2. launch' = [launch EXCEPT ![l].pc = "replacing", ![l].waits = current, ![l].lost = FALSE]
        BY <1>24, <2>7 DEF Answered
      <4>. QED
        BY <4>1, <4>2 DEF TypeOK, Calls
    <3> SUFFICES ASSUME NEW k \in Launches PROVE Listener(k)'
        BY DEF ListenerInv
    <3>2. CASE k = l
      <4>1. /\ ~over[l].stopped /\ ~over[l].bye /\ ~over[l].held /\ over[l].check = "idle" /\ over[l].go # "asked"
        <5>1. Listener(l) /\ session[l].go # "asked" /\ launch[l].pc = "listening"
          BY <1>24 DEF Answered, ListenerInv
        <5>. QED
          BY <2>1, <2>2, <2>4, <2>7, <5>1 DEF Listener
      <4>. QED
        BY <3>1, <3>2, <4>1 DEF Listener
    <3>3. CASE k = current /\ k # l
      BY <2>1, <2>4, <3>1, <3>3 DEF ListenerInv, Listener
    <3>4. CASE k # current /\ k # l
      BY <2>1, <2>4, <3>1, <3>4 DEF ListenerInv, Listener
    <3>. QED
      BY <3>2, <3>3, <3>4
  <2>. QED
    BY <2>3, <2>6, <2>7
<1>25. ASSUME NEW l \in Launches, Replaced(l) PROVE ListenerInv'
  <2> DEFINE held == Held(session, l)
  <2>1. /\ launch[l].pc = "replacing" /\ launch'[l].pc = "done" /\ Shown(l, record, held, current)
        /\ \A k \in Launches : k # l => launch'[k] = launch[k]
    BY <1>25 DEF Replaced, TypeOK, Calls
  <2>2. /\ held \in [Launches -> SessionRecords] /\ held[l].held /\ held[l].stopped = session[l].stopped
        /\ held[l].go = session[l].go /\ held[l].bye = session[l].bye /\ held[l].check = session[l].check
        /\ \A k \in Launches : k # l => held[k] = session[k]
    BY DEF Held, TypeOK, SessionRecords
  <2> HIDE DEF held
  <2>3. CASE session' = held /\ current' = current
    BY <2>1, <2>2, <2>3 DEF ListenerInv, Listener
  <2>4. CASE session' = Stopped(held, current) /\ current' = None
    <3> SUFFICES ASSUME NEW k \in Launches PROVE Listener(k)'
        BY DEF ListenerInv
    <3>1. /\ held[k].stopped = session[k].stopped /\ held[k].go = session[k].go /\ held[k].bye = session[k].bye
          /\ held[k].check = session[k].check /\ (k # l => held[k].held = session[k].held)
      BY <2>2
    <3>2. CASE k = current
      <4>1. /\ session'[k].stopped /\ ~session'[k].held
            /\ session'[k].go = (IF session[k].stopped THEN session[k].go ELSE "closing")
            /\ session[k].stopped => session'[k].bye = session[k].bye
            /\ ~session[k].stopped => ~session'[k].bye
            /\ session'[k].check = session[k].check
        BY <2>2, <2>4, <3>1, <3>2, StoppedIs
      <4>. QED
        BY <2>1, <2>4, <3>2, <4>1, NoneApart DEF ListenerInv, Listener
    <3>3. CASE k # current
      <4>1. session'[k] = held[k]
        BY <2>2, <2>4, <3>3, StoppedIs DEF TypeOK
      <4>. QED
        BY <2>1, <2>4, <3>1, <3>3, <4>1, NoneApart DEF ListenerInv, Listener
    <3>. QED
      BY <3>2, <3>3
  <2>. QED
    BY <2>1, <2>3, <2>4 DEF Shown
<1>26. CASE LoadFails \/ Removed \/ UpdateFails \/ (\E change \in {"ports"} \cup Modes : update(change))
            \/ StartReturns \/ StartJoins \/ Dialed \/ ScopeFails \/ Unreached \/ Reclosed \/ UNCHANGED vars
  BY <1>1, <1>26 DEF LoadFails, Removed, UpdateFails, update, StartReturns, StartJoins, Dialed, ScopeFails, Unreached,
     Reclosed, vars
<1>. QED
  BY <1>2, <1>4, <1>5, <1>6, <1>7, <1>8b, <1>8c, <1>10, <1>11, <1>13, <1>14, <1>15, <1>16, <1>17, <1>18, <1>21, <1>22,
     <1>23, <1>24, <1>25, <1>26 DEF Next

(* The listener of a launch that is over is open only as that of the session
   the service and the registry hold: one a launch got after it was stopped,
   removed, disconnected or overtaken is closed. *)
THEOREM ListenersReachable == Spec => []NobodysListener
<1>1. Init => ListenerInv
  BY NoneApart DEF Init, ListenerInv, Listener
<1>2. ListenerInv => NobodysListener
  BY DEF ListenerInv, Listener, NobodysListener
<1>. QED
  BY <1>1, <1>2, TypesHold, ListenerStep, PTL DEF Spec

-----------------------------------------------------------------------------
(* What a forward shows and what runs. *)

(* What a check, a stop and a report of Go say of one session: it is the
   forward's unless it was stopped, or its launch is still about to say so. *)
Own(l) ==
  /\ session[l].check \notin {"idle", "abandoning"} /\ ~session[l].stopped => current = l
  /\ session[l].check = "abandoning" => session[l].stopped
  /\ session[l].bye => ~session[l].stopped
  /\ session[l].bye /\ launch[l].pc # "listening" => current = l
OwnInv == \A l \in Launches : Own(l)

(* While the records are being read there is no forward and no launch of one. *)
Unloaded ==
  boot = "loading" => /\ ~record.present /\ ~removal.on /\ record.status = "stopped"
                      /\ \A l \in Launches : launch[l].pc = "idle"

(* As long as launches, removals and abandons have kept apart: a launch in
   flight is the only one and finds nothing that runs, nothing runs while a
   session is abandoned or the forward removed, and what is shown agrees with
   what runs, but for a disconnect or an abandon that has yet to say so. *)
Alone(l) ==
  InFlight(l) => current = None /\ launch[l].pc # "replacing" /\ \A k \in Launches : InFlight(k) => k = l
GivenUp(l) == Abandoning(l) => current = None /\ \A k \in Launches : ~InFlight(k)
Taken   == removal.on => current = None /\ ~isRunning(record.status)
Tells == ~Leaving /\ Reads => Listens \/ Renewed \/ \E l \in Launches : Abandoning(l)
Hears == ~Leaving /\ Listens => Reads
ApartInv == ~crossed => (\A l \in Launches : Alone(l) /\ GivenUp(l)) /\ Taken /\ Tells /\ Hears

(* What the answer of Go makes of the sessions, the record and the launch. *)
LEMMA AnsweredIs ==
  ASSUME TypeOK, ListenerInv, NEW l \in Launches, Answered(l)
  PROVE  /\ launch[l].pc = "listening" /\ current # l /\ ~session[l].stopped /\ session[l].check = "idle"
         /\ UNCHANGED <<boot, conn, removal, crossed>>
         /\ launch'[l].pc \in {"done", "replacing"}
         /\ \A k \in Launches : k # l => launch'[k] = launch[k]
         /\ \A k \in Launches : session'[k].check = session[k].check
         /\ \A k \in Launches : k \notin {l, current} => session'[k] = session[k]
         /\ ~session'[l].bye
         /\ \/ /\ session[l].bye /\ session'[l].stopped /\ UNCHANGED current /\ launch'[l].pc = "done"
               /\ current # None => session'[current] = session[current]
               /\ record'.present = record.present
               /\ record.present => record'.status \in {"error", "stopped", "waiting"}
               /\ ~record.present => UNCHANGED record
            \/ /\ current # None => /\ session'[current].stopped
                                    /\ session[current].stopped => session'[current].bye = session[current].bye
                                    /\ ~session[current].stopped => ~session'[current].bye
               /\ \/ /\ current' = l /\ ~session'[l].stopped /\ launch'[l].pc = "done"
                     /\ record.present /\ record.status = "starting"
                     /\ record'.present /\ record'.status = "active"
                  \/ /\ current' = None /\ session'[l].stopped /\ launch'[l].pc = "done"
                     /\ ~(record.present /\ record.status = "starting") /\ UNCHANGED record
                  \/ /\ current' = l /\ ~session'[l].stopped /\ UNCHANGED record
                     /\ current # None /\ launch'[l].pc = "replacing"
<1>1. /\ launch[l].pc = "listening" /\ current # l /\ ~session[l].stopped /\ session[l].check = "idle"
      /\ \A k \in Launches : k # l => launch'[k] = launch[k]
      /\ UNCHANGED <<boot, conn, removal, crossed>>
  <2>1. Listener(l) /\ launch[l].pc = "listening"
    BY DEF Answered, ListenerInv
  <2>2. PICK c : launch' = [launch EXCEPT ![l] = c]
    BY DEF Answered, TypeOK
  <2>. QED
    BY <2>1, <2>2 DEF Listener, TypeOK, SessionRecords, Answered, calls, cluster
<1> DEFINE attached == [session EXCEPT ![l].status = "active"]
           over == Stopped(attached, current)
           held == Held(over, l)
<1>2. /\ attached \in [Launches -> SessionRecords] /\ attached[l].stopped = session[l].stopped
      /\ attached[l].bye = session[l].bye /\ attached[l].check = session[l].check
      /\ \A k \in Launches : k # l => attached[k] = session[k]
  BY Values DEF TypeOK, SessionRecords
<1>3. CASE session[l].bye
  <2>1. /\ launch'[l].pc = "done" /\ UNCHANGED current
        /\ session'[l].stopped /\ ~session'[l].bye /\ session'[l].check = session[l].check
        /\ \A k \in Launches : k # l => session'[k] = session[k]
    BY <1>3 DEF Answered, TypeOK, Calls, SessionRecords
  <2>2. /\ record'.present = record.present
        /\ record.present => record'.status \in {"error", "stopped", "waiting"}
        /\ ~record.present => UNCHANGED record
    <3> DEFINE told == Told(record, "error")
    <3>1. record' = IF told.present /\ told.status = "starting" THEN [told EXCEPT !.status = "error"] ELSE told
      BY <1>3 DEF Answered
    <3>2. /\ told \in Records /\ told.present = record.present
          /\ record.present => told.status \in {"error", "stopped", "waiting"}
          /\ ~record.present => told = record
      BY ToldIs, Values, RecordUpdate DEF TypeOK, Told
    <3> HIDE DEF told
    <3>. QED
      BY <3>1, <3>2
  <2>. QED
    BY <1>1, <1>3, <2>1, <2>2 DEF TypeOK
<1> HIDE DEF attached
<1>4. /\ over \in [Launches -> SessionRecords] /\ over[l] = attached[l]
      /\ \A k \in Launches : k \notin {l, current} => over[k] = session[k]
      /\ current # None => /\ over[current].stopped
                           /\ session[current].stopped => over[current].bye = session[current].bye
                           /\ ~session[current].stopped => ~over[current].bye
                           /\ over[current].check = session[current].check
  BY <1>1, <1>2, StoppedIs DEF TypeOK
<1> HIDE DEF over
<1>5. /\ held \in [Launches -> SessionRecords] /\ held[l].stopped = over[l].stopped
      /\ held[l].bye = over[l].bye /\ held[l].check = over[l].check
      /\ \A k \in Launches : k # l => held[k] = over[k]
  BY <1>4 DEF Held, SessionRecords
<1> HIDE DEF held
<1>6. CASE ~session[l].bye /\ StopAwaited(current) = None
  <2>1. Shown(l, record, held, l) /\ launch'[l].pc = "done"
    BY <1>6 DEF Answered, attached, over, held, TypeOK, Calls
  <2>2. CASE record.present /\ record.status = "starting"
    <3>1. session' = held /\ current' = l /\ record'.status = "active" /\ record'.present
      <4>1. Shown(l, record, held, l) /\ record \in Records
        BY <2>1 DEF TypeOK
      <4>2. session' = held /\ current' = l
        BY <2>2, <4>1 DEF Shown
      <4>3. record'.status = "active" /\ record'.present
        BY <1>5, <2>2, <4>1, ShownType
      <4>. QED
        BY <4>2, <4>3
    <3>2. \A k \in Launches : session'[k].check = session[k].check
      BY <1>2, <1>4, <1>5, <3>1, NoneApart
    <3>3. \A k \in Launches : k \notin {l, current} => session'[k] = session[k]
      BY <1>4, <1>5, <3>1
    <3>4. /\ ~session'[l].bye /\ ~session'[l].stopped
          /\ current # None => session'[current] = over[current]
      BY <1>1, <1>2, <1>4, <1>5, <1>6, <3>1 DEF TypeOK
    <3>. QED
      BY <1>1, <1>4, <2>1, <2>2, <3>1, <3>2, <3>3, <3>4
  <2>3. CASE ~(record.present /\ record.status = "starting")
    <3>1. session' = Stopped(held, l) /\ current' = None /\ UNCHANGED record
      BY <2>1, <2>3 DEF Shown
    <3>2. /\ session'[l].stopped /\ ~session'[l].bye /\ session'[l].check = "idle"
          /\ \A k \in Launches : k # l => session'[k] = over[k]
      BY <1>1, <1>2, <1>4, <1>5, <1>6, <3>1, StoppedIs
    <3>3. \A k \in Launches : session'[k].check = session[k].check
      BY <1>1, <1>4, <3>2, NoneApart
    <3>4. current # None => session'[current] = over[current]
      BY <1>1, <3>2 DEF TypeOK
    <3>5. \A k \in Launches : k \notin {l, current} => session'[k] = session[k]
      BY <1>4, <3>2
    <3>. QED
      BY <1>1, <1>4, <2>1, <2>3, <3>1, <3>2, <3>3, <3>4, <3>5
  <2>. QED
    BY <2>2, <2>3
<1>7. CASE ~session[l].bye /\ StopAwaited(current) # None
  <2>1. session' = over /\ current' = l /\ current # None /\ UNCHANGED record
    BY <1>7 DEF Answered, attached, over, StopAwaited
  <2>2. launch' = [launch EXCEPT ![l].pc = "replacing", ![l].waits = current, ![l].lost = FALSE]
    BY <1>7 DEF Answered
  <2>3. launch'[l].pc = "replacing"
    BY <2>2 DEF TypeOK, Calls
  <2>. QED
    BY <1>1, <1>2, <1>4, <1>7, <2>1, <2>3 DEF TypeOK
<1>. QED
  BY <1>3, <1>6, <1>7

(* A step that changes at most the checks of sessions, or closes them unheard. *)
LEMMA OwnKept ==
  ASSUME OwnInv, UNCHANGED current,
         \A k \in Launches :
           /\ session'[k].stopped = session[k].stopped
           /\ session'[k].bye => session[k].bye /\ launch'[k].pc = launch[k].pc
           /\ \/ session'[k].check \in {"idle", session[k].check}
              \/ session'[k].check # "abandoning" /\ session[k].check # "idle" /\ (session[k].check = "abandoning" => session[k].stopped)
              \/ session'[k].check # "abandoning" /\ current = k
  PROVE  OwnInv'
BY DEF OwnInv, Own

(* The service stops the session it holds. *)
LEMMA OwnStopped ==
  ASSUME TypeOK, OwnInv, session' = Stopped(session, current), current' = None,
         \A k \in Launches : session[k].bye => launch'[k].pc = launch[k].pc
  PROVE  OwnInv'
<1> SUFFICES ASSUME NEW k \in Launches PROVE Own(k)'
    BY DEF OwnInv
<1>1. /\ k # None /\ Own(k)
      /\ current # k => session'[k] = session[k]
      /\ current = k => /\ session'[k].stopped
                        /\ session[k].stopped => session'[k].bye = session[k].bye
                        /\ ~session[k].stopped => ~session'[k].bye
                        /\ session'[k].check = session[k].check
  BY StoppedIs, NoneApart DEF TypeOK, OwnInv
<1>. QED
  BY <1>1 DEF Own

(* A launch begins, in whichever action. *)
LEMMA OwnBegins ==
  ASSUME TypeOK, ListenerInv, OwnInv, NEW l \in Launches, NEW r \in Records, LaunchBegins(l, r)
  PROVE  OwnInv'
<1>1. /\ session' = Stopped(session, current) /\ current' = None /\ launch[l].pc = "idle"
      /\ \A k \in Launches : k # l => launch'[k] = launch[k]
  BY BeginsType
<1>2. ~session[l].bye
  BY <1>1 DEF ListenerInv, Listener
<1>. QED
  BY <1>1, <1>2, OwnStopped

(* Every action keeps each session's checks and reports with the forward it is of. *)
LEMMA OwnStep == TypeOK /\ ListenerInv /\ OwnInv /\ [Next]_vars => OwnInv'
<1> SUFFICES ASSUME TypeOK, ListenerInv, OwnInv, [Next]_vars PROVE OwnInv'
    OBVIOUS
<1>1. CASE UNCHANGED <<launch, current, session>>
  BY <1>1 DEF OwnInv, Own
<1>2. CASE Loaded
  <2> DEFINE r == [record EXCEPT !.present = TRUE, !.status = restingStatus(record)]
  <2>1. r \in Records
    BY Values DEF TypeOK, Records, restingStatus
  <2>2. (\E l \in Launches : LaunchBegins(l, r)) \/ UNCHANGED <<launch, current, session>>
    BY <1>2 DEF Loaded
  <2>. QED
    BY <1>1, <2>1, <2>2, OwnBegins
<1>3. ASSUME NEW r \in Records, Starts(r) PROVE OwnInv'
  BY <1>1, <1>3, OwnBegins DEF Starts
<1>4. CASE start
  <2>1. [record EXCEPT !.byUser = FALSE] \in Records
    BY DEF TypeOK, Records
  <2>. QED
    BY <1>3, <1>4, <2>1 DEF start
<1>5. ASSUME NEW mode \in Modes, create(mode) PROVE OwnInv'
  <2>1. [present |-> TRUE, status |-> "stopped", byUser |-> FALSE, mode |-> mode] \in Records
    BY Values DEF Records
  <2>. QED
    BY <1>3, <1>5, <2>1 DEF create
<1>6. CASE stop \/ remove \/ Disconnected
  BY <1>6, OwnStopped DEF stop, remove, Disconnected, serviceStop
<1>7. CASE Updated \/ ScopeRead
  BY <1>1, <1>7, OwnBegins DEF Updated, ScopeRead, TypeOK
<1>8. ASSUME NEW next, NEW again \in BOOLEAN, drain(next, again), UNCHANGED <<launch, current>> PROVE OwnInv'
  <2> SUFFICES ASSUME NEW k \in Launches PROVE Own(k)'
      BY DEF OwnInv
  <2>1. Own(k)
    BY DEF OwnInv
  <2>2. CASE session[k].held
    BY <1>8, <2>1, <2>2, DrainIs DEF Own
  <2>3. CASE ~session[k].held
    BY <1>8, <2>1, <2>3, DrainIs DEF Own
  <2>. QED
    BY <2>2, <2>3
<1>8a. ASSUME NEW joins \in BOOLEAN, connectBegins(joins), UNCHANGED <<launch, current>> PROVE OwnInv'
  BY <1>1, <1>8, <1>8a, ConnectIs
<1>8b. CASE Drains
  BY <1>8, <1>8b DEF Drains
<1>8c. CASE Connects \/ Enters \/ StartDials \/ Restored
  BY <1>1, <1>8a, <1>8c DEF Connects, Enters, StartDials, Restored
<1>9. ASSUME NEW k \in Launches, session'[k] \in {session[k], GoCloses(session[k])}, launch'[k].pc = launch[k].pc, UNCHANGED current
      PROVE  Own(k)'
  <2>1. Own(k) /\ Listener(k) /\ session[k] \in SessionRecords
    BY DEF OwnInv, ListenerInv, TypeOK
  <2>2. CASE session'[k] = session[k]
    BY <1>9, <2>1, <2>2 DEF Own
  <2>3. CASE session'[k] = GoCloses(session[k]) /\ session[k].go = "open"
    <3>1. session'[k] = [session[k] EXCEPT !.go = "closed", !.bye = ~session[k].stopped]
      BY <2>3 DEF GoCloses
    <3>2. /\ session'[k].stopped = session[k].stopped /\ session'[k].check = session[k].check
          /\ session'[k].bye = ~session[k].stopped
      BY <2>1, <3>1 DEF SessionRecords
    <3>3. launch[k].pc \in {"listening", "replacing", "done"}
      BY <2>1, <2>3 DEF Listener, TypeOK, Calls, Pcs
    <3>. QED
      BY <1>9, <2>1, <2>3, <3>2, <3>3 DEF Own, Listener
  <2>4. CASE session'[k] = GoCloses(session[k]) /\ session[k].go # "open"
    BY <1>9, <2>1, <2>4 DEF Own, GoCloses
  <2>. QED
    BY <1>9, <2>2, <2>3, <2>4
<1>10. CASE GoDisconnects
  <2>1. \A k \in Launches : session'[k] = GoCloses(session[k]) /\ launch'[k].pc = launch[k].pc
    BY <1>10 DEF GoDisconnects, TypeOK, Calls
  <2>. QED
    BY <1>9, <1>10, <2>1 DEF OwnInv, GoDisconnects
<1>11. ASSUME NEW l \in Launches, GoFails(l) PROVE OwnInv'
  <2>1. \A k \in Launches : session'[k] \in {session[k], GoCloses(session[k])} /\ launch'[k].pc = launch[k].pc
    BY <1>11 DEF GoFails, TypeOK, Calls
  <2>. QED
    BY <1>9, <1>11, <2>1 DEF OwnInv, GoFails
<1>13. ASSUME NEW l \in Launches, Cleared(l) \/ Unresolved(l) PROVE OwnInv'
  <2>1. /\ ~session[l].bye /\ UNCHANGED <<current, session>>
        /\ \A k \in Launches : k # l => launch'[k] = launch[k]
    BY <1>13 DEF Cleared, Unresolved, LaunchFails, ListenerInv, Listener, TypeOK
  <2>. QED
    BY <2>1, OwnKept
<1>14. ASSUME NEW l \in Launches, Resolved(l) \/ GoListens(l) \/ Refused(l) PROVE OwnInv'
  <2>1. /\ ~session[l].bye /\ UNCHANGED current
        /\ session'[l].stopped = session[l].stopped /\ session'[l].bye = session[l].bye
        /\ session'[l].check = session[l].check
        /\ \A k \in Launches : k # l => launch'[k] = launch[k] /\ session'[k] = session[k]
    BY <1>14 DEF Resolved, GoListens, Refused, LaunchFails, TypeOK, SessionRecords, ListenerInv, Listener
  <2>. QED
    BY <2>1, OwnKept
<1>17. ASSUME NEW l \in Launches, StopAnswered(l) PROVE OwnInv'
  <2>1. /\ UNCHANGED <<launch, current>>
        /\ session'[l].stopped = session[l].stopped
        /\ session'[l].bye = session[l].bye /\ session'[l].check = session[l].check
        /\ \A k \in Launches : k # l => session'[k] = session[k]
    BY <1>17 DEF StopAnswered, TypeOK, SessionRecords
  <2>. QED
    BY <2>1, OwnKept
<1>18. ASSUME NEW l \in Launches, Closed(l) PROVE OwnInv'
  <2>1. /\ UNCHANGED launch /\ current' = IF current = l THEN None ELSE current
        /\ session'[l].stopped /\ ~session'[l].bye /\ session'[l].check = session[l].check
        /\ \A k \in Launches : k # l => session'[k] = session[k]
    BY <1>18 DEF Closed, TypeOK, SessionRecords
  <2>. QED
    BY <2>1, NoneApart DEF OwnInv, Own
<1>19. ASSUME NEW l \in Launches, NEW check \in Rechecks, Checks(l, check), UNCHANGED <<launch, current>>,
              check # "abandoning", check = "idle" \/ session[l].check \notin {"idle", "abandoning"} \/ current = l
       PROVE  OwnInv'
  <2>1. /\ session'[l].stopped = session[l].stopped /\ session'[l].bye = session[l].bye
        /\ session'[l].check = check
        /\ \A k \in Launches : k # l => session'[k] = session[k]
    BY <1>19 DEF Checks, TypeOK, SessionRecords
  <2>. QED
    BY <1>19, <2>1 DEF OwnInv, Own
<1>20. ASSUME NEW l \in Launches, NEW st \in Statuses, Says(l, st), UNCHANGED <<launch, current>>
       PROVE  OwnInv'
  <2>1. CASE session[l].stopped
    BY <1>19, <1>20, <2>1, Values DEF Says
  <2>2. CASE ~session[l].stopped
    <3>1. /\ session'[l].stopped = session[l].stopped /\ session'[l].bye = session[l].bye
          /\ session'[l].check = "idle"
          /\ \A k \in Launches : k # l => session'[k] = session[k]
      BY <1>20, <2>2 DEF Says, TypeOK, SessionRecords
    <3>. QED
      BY <1>20, <3>1, OwnKept
  <2>. QED
    BY <2>1, <2>2
<1>21. ASSUME NEW l \in Launches, PodServes(l) \/ NoBackend(l) \/ Moved(l) PROVE OwnInv'
  BY <1>19, <1>20, <1>21, Values DEF PodServes, NoBackend, Moved
<1>22. ASSUME NEW l \in Launches, recheck(l) \/ CheckFails(l) \/ Abandoned(l) \/ Backend(l) PROVE OwnInv'
  BY <1>19, <1>22, Values DEF recheck, CheckFails, Abandoned, Backend
<1>23. ASSUME NEW l \in Launches, PodGone(l) PROVE OwnInv'
  <2>1. CASE session[l].stopped \/ target = "services"
    BY <1>19, <1>23, <2>1, Values DEF PodGone
  <2>2. CASE ~session[l].stopped /\ target # "services"
    <3> DEFINE s == Stopped(session, l)
    <3>1. /\ s \in [Launches -> SessionRecords] /\ s[l].stopped /\ ~s[l].bye
          /\ \A k \in Launches : k # l => s[k] = session[k]
      BY <2>2, StoppedIs DEF TypeOK
    <3>2. /\ session' = [s EXCEPT ![l].check = "abandoning"] /\ UNCHANGED launch
          /\ current' = IF current = l THEN None ELSE current
      BY <1>23, <2>2 DEF PodGone
    <3> HIDE DEF s
    <3>3. /\ session'[l].stopped /\ ~session'[l].bye
          /\ \A k \in Launches : k # l => session'[k] = session[k]
      BY <3>1, <3>2 DEF SessionRecords
    <3>. QED
      BY <3>2, <3>3, NoneApart DEF OwnInv, Own
  <2>. QED
    BY <2>1, <2>2
<1>24. ASSUME NEW l \in Launches, Answered(l) PROVE OwnInv'
  <2> SUFFICES ASSUME NEW k \in Launches PROVE Own(k)'
      BY DEF OwnInv
  <2>1. /\ launch[l].pc = "listening" /\ current # l /\ session[l].check = "idle" /\ ~session'[l].bye
        /\ \A j \in Launches : j # l => launch'[j] = launch[j]
        /\ \A j \in Launches : session'[j].check = session[j].check
        /\ \A j \in Launches : j \notin {l, current} => session'[j] = session[j]
        /\ \/ UNCHANGED current /\ (current # None => session'[current] = session[current])
           \/ /\ current' \in {l, None}
              /\ current # None => /\ session'[current].stopped
                                   /\ session[current].stopped => session'[current].bye = session[current].bye
                                   /\ ~session[current].stopped => ~session'[current].bye
    BY <1>24, AnsweredIs
  <2>2. Own(k) /\ Own(l) /\ k # None /\ l # None
    BY NoneApart DEF OwnInv
  <2>3. CASE k = l
    BY <2>1, <2>2, <2>3 DEF Own
  <2>4. CASE k # l /\ k = current
    BY <2>1, <2>2, <2>4 DEF Own
  <2>5. CASE k # l /\ k # current
    BY <2>1, <2>2, <2>5 DEF Own
  <2>. QED
    BY <2>3, <2>4, <2>5
<1>25. ASSUME NEW l \in Launches, Replaced(l) PROVE OwnInv'
  <2> DEFINE held == Held(session, l)
  <2>1. /\ launch[l].pc = "replacing" /\ launch'[l].pc = "done" /\ Shown(l, record, held, current)
        /\ \A k \in Launches : k # l => launch'[k] = launch[k]
    BY <1>25 DEF Replaced, TypeOK, Calls
  <2>2. /\ held \in [Launches -> SessionRecords]
        /\ \A k \in Launches : /\ held[k].stopped = session[k].stopped /\ held[k].bye = session[k].bye
                                /\ held[k].check = session[k].check
    BY DEF Held, TypeOK, SessionRecords
  <2> HIDE DEF held
  <2>3. CASE session' = held /\ current' = current
    BY <2>1, <2>2, <2>3 DEF OwnInv, Own
  <2>4. CASE session' = Stopped(held, current) /\ current' = None
    <3> SUFFICES ASSUME NEW k \in Launches PROVE Own(k)'
        BY DEF OwnInv
    <3>1. /\ held[k].stopped = session[k].stopped /\ held[k].bye = session[k].bye
          /\ held[k].check = session[k].check /\ Own(k)
      BY <2>2 DEF OwnInv
    <3>2. CASE k = current
      <4>1. /\ session'[k].stopped /\ session'[k].check = session[k].check
            /\ session[k].stopped => session'[k].bye = session[k].bye
            /\ ~session[k].stopped => ~session'[k].bye
        BY <2>2, <2>4, <3>1, <3>2, StoppedIs
      <4>. QED
        BY <2>1, <2>4, <3>1, <3>2, <4>1, NoneApart DEF Own
    <3>3. CASE k # current
      <4>1. session'[k] = held[k]
        BY <2>2, <2>4, <3>3, StoppedIs DEF TypeOK
      <4>. QED
        BY <2>1, <2>4, <3>1, <3>3, <4>1, NoneApart DEF Own
    <3>. QED
      BY <3>2, <3>3
  <2>. QED
    BY <2>1, <2>3, <2>4 DEF Shown
<1>26. CASE LoadFails \/ Removed \/ UpdateFails \/ (\E change \in {"ports"} \cup Modes : update(change))
            \/ StartReturns \/ StartJoins \/ Dialed \/ ScopeFails \/ Unreached \/ Reclosed \/ UNCHANGED vars
  BY <1>1, <1>26 DEF LoadFails, Removed, UpdateFails, update, StartReturns, StartJoins, Dialed, ScopeFails, Unreached,
     Reclosed, vars
<1>. QED
  BY <1>2, <1>4, <1>5, <1>6, <1>7, <1>8b, <1>8c, <1>10, <1>11, <1>13, <1>14, <1>17, <1>18, <1>21, <1>22,
     <1>23, <1>24, <1>25, <1>26 DEF Next

(* Nothing starts a forward before the records are read. *)
LEMMA UnloadedStep == TypeOK /\ ListenerInv /\ Unloaded /\ [Next]_vars => Unloaded'
<1> SUFFICES ASSUME TypeOK, ListenerInv, Unloaded, [Next]_vars, boot' = "loading"
             PROVE  /\ ~record'.present /\ ~removal'.on /\ record'.status = "stopped"
                    /\ \A k \in Launches : launch'[k].pc = "idle"
    BY DEF Unloaded
<1>1. CASE Loaded \/ LoadFails \/ Restored \/ (\E mode \in Modes : create(mode))
  BY <1>1 DEF Loaded, LoadFails, Restored, create
<1>2. CASE UNCHANGED <<record, launch, removal, boot>>
  BY <1>2 DEF Unloaded
<1>3. CASE start \/ stop \/ remove \/ Removed \/ (\E change \in {"ports"} \cup Modes : update(change))
  BY <1>3 DEF start, stop, remove, Removed, update, Unloaded
<1>4. CASE \/ Updated \/ UpdateFails \/ StartReturns \/ StartJoins \/ StartDials \/ Connects \/ Enters \/ Dialed
           \/ ScopeRead \/ ScopeFails \/ Unreached \/ Drains \/ Disconnected \/ Reclosed \/ UNCHANGED vars
  BY <1>2, <1>4 DEF Updated, UpdateFails, StartReturns, StartJoins, StartDials, Connects, Enters, Dialed, ScopeRead,
     ScopeFails, Unreached, Drains, Disconnected, Reclosed, connectEnds, GivesUp, Unloaded, calls, vars
<1>5. CASE GoDisconnects
  BY <1>5 DEF GoDisconnects, TypeOK, Calls, Unloaded, calls, cluster
<1>6. ASSUME NEW l \in Launches,
             Cleared(l) \/ Resolved(l) \/ Unresolved(l) \/ Refused(l) \/ Answered(l) \/ Replaced(l)
      PROVE  FALSE
  BY <1>6 DEF Cleared, Resolved, Unresolved, Refused, Answered, Replaced, Unloaded
<1>7. ASSUME NEW l \in Launches,
             \/ GoListens(l) \/ StopAnswered(l) \/ GoFails(l) \/ Closed(l) \/ recheck(l) \/ PodServes(l)
             \/ CheckFails(l) \/ PodGone(l) \/ Abandoned(l) \/ NoBackend(l) \/ Backend(l) \/ Moved(l)
      PROVE  UNCHANGED <<record, launch, removal, boot>>
  <2>1. ~record.present
    BY <1>7 DEF Unloaded, GoListens, StopAnswered, GoFails, Closed, recheck, PodServes, CheckFails, PodGone, Abandoned,
       NoBackend, Backend, Moved
  <2>. QED
    BY <1>7, <2>1 DEF GoListens, StopAnswered, GoFails, Closed, recheck, PodServes, CheckFails, PodGone, Abandoned,
       NoBackend, Backend, Moved, Says, Told, calls, cluster
<1>. QED
  BY <1>1, <1>2, <1>3, <1>4, <1>5, <1>6, <1>7 DEF Next

(* A step that leaves what the forward shows and whose it is. *)
LEMMA ApartKept ==
  ASSUME ApartInv, UNCHANGED <<crossed, current, removal>>,
         \/ Leaving'
         \/ /\ ~Leaving /\ record'.present = record.present
            /\ record'.status \in Listening <=> record.status \in Listening
            /\ \A k \in Launches :
                 \/ session'[k].stopped = session[k].stopped /\ session'[k].renewed = session[k].renewed
                 \/ session'[k].stopped /\ session'[k].renewed,
         isRunning(record'.status) => isRunning(record.status) \/ ~removal.on,
         \A k \in Launches : /\ session'[k].check = "abandoning" <=> session[k].check = "abandoning"
                             /\ \/ launch'[k].pc \in {launch[k].pc, "done"}
                                \/ launch'[k].pc # "replacing" /\ launch[k].pc \notin {"idle", "done"},
         current \in Launches \cup {None}
  PROVE  ApartInv'
<1>1. SUFFICES ASSUME ~crossed
               PROVE  (\A l \in Launches : Alone(l)' /\ GivenUp(l)') /\ Taken' /\ Tells' /\ Hears'
  BY DEF ApartInv
<1>2. /\ \A l \in Launches : Alone(l) /\ GivenUp(l)
      /\ Taken /\ Tells /\ Hears
  BY <1>1 DEF ApartInv
<1>3. \A k \in Launches : InFlight(k)' => InFlight(k)
  BY DEF InFlight
<1>4. \A l \in Launches : Alone(l)' /\ GivenUp(l)'
  BY <1>2, <1>3 DEF Alone, GivenUp, Abandoning, InFlight
<1>5. Taken'
  BY <1>2 DEF Taken
<1>6. Leaving' \/ /\ ~Leaving /\ (Listens' => Listens) /\ (Listens \/ Renewed => Listens' \/ Renewed')
                  /\ (Reads' <=> Reads)
  BY DEF Listens, Renewed, Reads
<1>7. Tells' /\ Hears'
  BY <1>2, <1>6 DEF Tells, Hears, Abandoning
<1>. QED
  BY <1>4, <1>5, <1>7

(* A step after which nothing is kept for the forward and nothing is told of it. *)
LEMMA ApartAtRest ==
  ASSUME ApartInv, UNCHANGED crossed, current' = None,
         record'.present => record'.status \notin Listening,
         removal'.on => ~isRunning(record'.status),
         \A k \in Launches : /\ session'[k].check = "abandoning" => session[k].check = "abandoning"
                             /\ launch'[k].pc = launch[k].pc \/ launch'[k].pc = "done"
  PROVE  ApartInv'
<1>1. SUFFICES ASSUME ~crossed
               PROVE  (\A l \in Launches : Alone(l)' /\ GivenUp(l)') /\ Taken' /\ Tells' /\ Hears'
  BY DEF ApartInv
<1>2. \A l \in Launches : Alone(l) /\ GivenUp(l)
  BY <1>1 DEF ApartInv
<1>3. \A k \in Launches : InFlight(k)' => InFlight(k) /\ launch'[k].pc = launch[k].pc
  BY DEF InFlight
<1>4. \A l \in Launches : Alone(l)' /\ GivenUp(l)'
  BY <1>2, <1>3 DEF Alone, GivenUp, Abandoning
<1>5. Taken' /\ Tells' /\ Hears'
  BY DEF Taken, Tells, Hears, Listens, Reads
<1>. QED
  BY <1>4, <1>5

(* A launch begins: if nothing was under way, it is alone from here on. *)
LEMMA ApartBegins ==
  ASSUME TypeOK, ApartInv, NEW l \in Launches, NEW r \in Records, LaunchBegins(l, r), UNCHANGED removal
  PROVE  ApartInv'
<1>1. SUFFICES ASSUME Quiet, ~crossed
               PROVE  (\A k \in Launches : Alone(k)' /\ GivenUp(k)') /\ Taken' /\ Tells' /\ Hears'
  BY DEF ApartInv, LaunchBegins
<1>2. /\ current' = None /\ record'.status = "starting" /\ launch'[l].pc \in {"resolving", "clearing"}
      /\ \A k \in Launches : k # l => launch'[k] = launch[k]
      /\ session' = Stopped(session, current)
  BY BeginsType
<1>3. \A k \in Launches : session'[k].check # "abandoning" /\ (k # l => ~InFlight(k)')
  <2>1. \A k \in Launches : session'[k].check = session[k].check
    <3>1. session \in [Launches -> SessionRecords] /\ current \in Launches \cup {None}
      BY DEF TypeOK
    <3>. QED
      BY <1>2, <3>1, StoppedIs
  <2>. QED
    BY <1>1, <1>2, <2>1 DEF Quiet, Abandoning, InFlight
<1>4. \A k \in Launches : Alone(k)' /\ GivenUp(k)'
  BY <1>2, <1>3 DEF Alone, GivenUp, Abandoning, InFlight
<1>5. Taken' /\ Tells' /\ Hears'
  BY <1>1, <1>2 DEF Taken, Tells, Hears, Quiet, Listening, Listens, Reads
<1>. QED
  BY <1>4, <1>5

(* Every action keeps what is shown and what runs together, as long as nothing crossed. *)
LEMMA ApartStep == TypeOK /\ ListenerInv /\ OwnInv /\ Unloaded /\ ApartInv /\ [Next]_vars => ApartInv'
<1> SUFFICES ASSUME TypeOK, ListenerInv, OwnInv, Unloaded, ApartInv, [Next]_vars PROVE ApartInv'
    OBVIOUS
<1> USE DEF Reads
<1>1. CASE UNCHANGED <<record, conn, launch, current, session, removal, crossed>>
  <2>. Leaving' <=> Leaving
    BY <1>1 DEF Leaving
  <2>. QED
    BY <1>1, ApartKept DEF TypeOK
<1>2. CASE Loaded
  <2> DEFINE r == [record EXCEPT !.present = TRUE, !.status = restingStatus(record)]
  <2>1. r \in Records /\ r.status \in {"stopped", "waiting"}
    BY Values DEF TypeOK, Records, restingStatus
  <2>2. CASE \E l \in Launches : LaunchBegins(l, r)
    BY <1>2, <2>1, <2>2, ApartBegins DEF Loaded, calls, cluster
  <2>3. CASE /\ record' = r /\ UNCHANGED <<launch, current, session, crossed>>
    <3>1. /\ ~record.present /\ UNCHANGED removal /\ (Leaving' <=> Leaving)
      BY <1>2 DEF Loaded, Unloaded, calls, cluster, Leaving
    <3>2. ~isRunning(record'.status) /\ record'.status \notin Listening
      BY <2>1, <2>3 DEF isRunning, Listening
    <3> SUFFICES ASSUME ~crossed
                 PROVE  (\A l \in Launches : Alone(l)' /\ GivenUp(l)') /\ Taken' /\ Tells' /\ Hears'
      BY <2>3 DEF ApartInv
    <3>3. (\A l \in Launches : Alone(l) /\ GivenUp(l)) /\ Taken /\ Hears
      BY DEF ApartInv
    <3>4. \A l \in Launches : Alone(l)' /\ GivenUp(l)'
      BY <2>3, <3>3 DEF Alone, GivenUp, InFlight, Abandoning
    <3>. QED
      BY <2>3, <3>1, <3>2, <3>3, <3>4 DEF Taken, Tells, Hears, Listens
  <2>. QED
    BY <1>2, <2>2, <2>3 DEF Loaded
<1>3. ASSUME NEW r \in Records, Starts(r), ~record.present \/ ~isRunning(record.status) PROVE ApartInv'
  <2>1. CASE isConnected
    BY <1>3, <2>1, ApartBegins DEF Starts, calls, cluster
  <2>2. CASE ~isConnected
    <3>1. /\ record' = [r EXCEPT !.status = "waiting"]
          /\ UNCHANGED <<launch, current, session, removal, crossed>>
      BY <1>3, <2>2 DEF Starts
    <3>2. record'.status = "waiting" /\ ~Leaving
      BY <2>2, <3>1, RecordUpdate, Values DEF isConnected, Leaving
    <3> SUFFICES ASSUME ~crossed
                 PROVE  (\A l \in Launches : Alone(l)' /\ GivenUp(l)') /\ Taken' /\ Tells' /\ Hears'
      BY <3>1 DEF ApartInv
    <3>3. (\A l \in Launches : Alone(l) /\ GivenUp(l)) /\ Taken /\ Hears
      BY DEF ApartInv
    <3>4. \A l \in Launches : Alone(l)' /\ GivenUp(l)'
      BY <3>1, <3>3 DEF Alone, GivenUp, InFlight, Abandoning
    <3>. QED
      BY <1>3, <3>1, <3>2, <3>3, <3>4 DEF Taken, Tells, Hears, Listens, Listening, isRunning
  <2>. QED
    BY <2>1, <2>2
<1>4. CASE start
  <2>1. [record EXCEPT !.byUser = FALSE] \in Records
    BY DEF TypeOK, Records
  <2>. QED
    BY <1>3, <1>4, <2>1 DEF start
<1>5. ASSUME NEW mode \in Modes, create(mode) PROVE ApartInv'
  <2>1. [present |-> TRUE, status |-> "stopped", byUser |-> FALSE, mode |-> mode] \in Records
    BY Values DEF Records
  <2>. QED
    BY <1>3, <1>5, <2>1 DEF create
<1>6. CASE stop \/ remove \/ Disconnected
  <2>1. /\ current' = None /\ session' = Stopped(session, current) /\ UNCHANGED <<launch, crossed>>
    BY <1>6 DEF stop, remove, Disconnected, serviceStop
  <2>2. \A k \in Launches : session'[k].check = session[k].check
    <3>1. session \in [Launches -> SessionRecords] /\ current \in Launches \cup {None}
      BY DEF TypeOK
    <3>. QED
      BY <2>1, <3>1, StoppedIs
  <2>3. \/ record'.status \in {"stopped", "waiting"}
        \/ (UNCHANGED <<record, removal>> /\ (record.present => record.status = "stopped"))
    <3>1. CASE stop
      BY <3>1 DEF stop, TypeOK, Records
    <3>2. CASE remove
      BY <3>2, RecordUpdate, Values DEF remove, Shows, TypeOK
    <3>3. CASE Disconnected /\ record.present /\ record.status # "stopped"
      <4>1. restingStatus(record) \in {"stopped", "waiting"} /\ record' = [record EXCEPT !.status = restingStatus(record)]
        BY <3>3 DEF Disconnected, restingStatus
      <4>. QED
        BY <4>1, RecordUpdate, Values DEF TypeOK
    <3>4. CASE Disconnected /\ ~(record.present /\ record.status # "stopped")
      BY <3>4 DEF Disconnected, calls, cluster
    <3>. QED
      BY <1>6, <3>1, <3>2, <3>3, <3>4
  <2>4. CASE record'.status \in {"stopped", "waiting"}
    <3>1. ~isRunning(record'.status) /\ record'.status \notin Listening
      BY <2>4 DEF isRunning, Listening
    <3>. QED
      BY <2>1, <2>2, <3>1, ApartAtRest
  <2>5. CASE UNCHANGED <<record, removal>> /\ (record.present => record.status = "stopped")
    <3>1. record'.present => record'.status \notin Listening
      BY <2>5 DEF Listening
    <3>2. ~crossed => (removal'.on => ~isRunning(record'.status))
      BY <2>5 DEF ApartInv, Taken
    <3>3. crossed => ApartInv'
      BY <2>1 DEF ApartInv
    <3>. QED
      BY <2>1, <2>2, <3>1, <3>2, <3>3, ApartAtRest
  <2>. QED
    BY <2>3, <2>4, <2>5
<1>7. CASE Updated
  <2>1. CASE \E l \in Launches : LaunchBegins(l, record)
    BY <1>7, <2>1, ApartBegins DEF Updated, TypeOK
  <2>2. CASE UNCHANGED <<launch, current, session, crossed, conn, removal>> /\ ~\E l \in Launches : LaunchBegins(l, record)
    <3>1. /\ record'.present = record.present
          /\ record'.status = record.status \/ (record'.status = "stopped" /\ record.status = "waiting")
      BY <1>7, <2>2 DEF Updated, TypeOK, Records
    <3>2. record'.status \in Listening <=> record.status \in Listening
      BY <3>1 DEF Listening
    <3>3. isRunning(record'.status) => isRunning(record.status)
      BY <3>1 DEF isRunning, Listening
    <3>4. Leaving' <=> Leaving
      BY <2>2 DEF Leaving
    <3>. QED
      BY <2>2, <3>1, <3>2, <3>3, <3>4, ApartKept DEF TypeOK
  <2>. QED
    BY <1>7, <2>1, <2>2 DEF Updated, cluster
<1>8. CASE ScopeRead
  <2>1. CASE \E l \in Launches : LaunchBegins(l, record)
    BY <1>8, <2>1, ApartBegins DEF ScopeRead, connectEnds, TypeOK
  <2>2. CASE UNCHANGED <<record, launch, current, session, crossed>>
    <3>1. ~Leaving /\ ~Leaving' /\ UNCHANGED removal
      BY <1>8 DEF ScopeRead, connectEnds, Leaving
    <3>. QED
      BY <2>2, <3>1, ApartKept DEF TypeOK
  <2>. QED
    BY <1>8, <2>1, <2>2 DEF ScopeRead
<1>9. CASE StartReturns \/ Unreached
  <2>1. /\ Leaving' <=> Leaving
        /\ UNCHANGED <<launch, current, session, removal, crossed>>
        /\ record' = record \/ (record.status = "waiting" /\ Shows("error"))
    BY <1>9 DEF StartReturns, Unreached, connectEnds, GivesUp, Leaving, cluster
  <2>2. /\ record'.present = record.present
        /\ record' = record \/ (record.status = "waiting" /\ record'.status = "error")
    <3>1. CASE record' = record
      BY <3>1
    <3>2. CASE record.status = "waiting" /\ Shows("error")
      <4>1. record' = [record EXCEPT !.status = "error"] /\ record \in Records
        BY <3>2 DEF Shows, TypeOK
      <4>. QED
        BY <3>2, <4>1, RecordUpdate, Values
    <3>. QED
      BY <2>1, <3>1, <3>2
  <2>3. record'.status \in Listening <=> record.status \in Listening
    BY <2>2 DEF Listening
  <2>4. isRunning(record'.status) => isRunning(record.status)
    BY <2>2 DEF isRunning, Listening
  <2>. QED
    BY <2>1, <2>2, <2>3, <2>4, ApartKept DEF TypeOK
<1>10. CASE Drains
  <2>1. Leaving' /\ UNCHANGED <<record, launch, current, removal, crossed>>
    BY <1>10 DEF Drains, drain, Leaving, calls
  <2>2. \A k \in Launches : session'[k].check = session[k].check
    BY <1>10, DrainIs DEF Drains
  <2>. QED
    BY <2>1, <2>2, ApartKept DEF TypeOK
<1>10a. ASSUME NEW joins \in BOOLEAN, connectBegins(joins), UNCHANGED <<record, launch, current, removal, crossed>>
        PROVE  ApartInv'
  <2>1. ~Leaving /\ \A k \in Launches :
          /\ session'[k].check = session[k].check
          /\ session'[k] = session[k] \/ (session'[k].stopped /\ session'[k].renewed)
    <3>1. CASE UNCHANGED session /\ conn = "closed"
      BY <3>1 DEF Leaving
    <3>2. CASE conn = "open" /\ drain("redraining", TRUE)
      BY <3>2, DrainIs DEF Leaving
    <3>. QED
      BY <1>10a, <3>1, <3>2, ConnectIs
  <2>. QED
    BY <1>10a, <2>1, ApartKept DEF TypeOK
<1>10b. CASE Connects \/ Enters \/ StartDials \/ Restored
  BY <1>1, <1>10a, <1>10b DEF Connects, Enters, StartDials, Restored, calls, cluster
<1>10c. CASE Dialed \/ ScopeFails \/ Reclosed
  <2>1. ~Leaving /\ ~Leaving' /\ UNCHANGED <<record, launch, current, session, removal, crossed>>
    BY <1>10c DEF Dialed, ScopeFails, Reclosed, connectEnds, Leaving, calls
  <2>. QED
    BY <2>1, ApartKept DEF TypeOK
<1>11. ASSUME NEW k \in Launches, session'[k] \in {session[k], GoCloses(session[k])}
       PROVE  /\ session'[k].stopped = session[k].stopped /\ session'[k].check = session[k].check
              /\ session'[k].renewed = session[k].renewed
  BY <1>11 DEF GoCloses, TypeOK, SessionRecords
<1>12. CASE GoDisconnects
  <2>1. /\ Leaving' <=> Leaving
        /\ UNCHANGED <<record, current, removal, crossed>>
        /\ \A k \in Launches : launch'[k].pc = launch[k].pc /\ session'[k] = GoCloses(session[k])
    BY <1>12 DEF GoDisconnects, Leaving, calls, TypeOK, Calls
  <2>2. \A k \in Launches : /\ session'[k].stopped = session[k].stopped /\ session'[k].check = session[k].check
                            /\ session'[k].renewed = session[k].renewed
    BY <1>11, <2>1
  <2>. QED
    BY <2>1, <2>2, ApartKept DEF TypeOK
<1>13. CASE Removed
  <2>1. /\ removal.on /\ ~removal'.on /\ UNCHANGED <<conn, launch, current, session, crossed>>
        /\ record' = record \/ ~record'.present
    BY <1>13 DEF Removed, cluster
  <2> SUFFICES ASSUME ~crossed
               PROVE  (\A l \in Launches : Alone(l)' /\ GivenUp(l)') /\ Taken' /\ Tells' /\ Hears'
    BY <2>1 DEF ApartInv
  <2>2. (\A l \in Launches : Alone(l) /\ GivenUp(l)) /\ Taken /\ Tells
    BY DEF ApartInv
  <2>3. \A l \in Launches : Alone(l)' /\ GivenUp(l)'
    BY <2>1, <2>2 DEF Alone, GivenUp, InFlight, Abandoning
  <2>. QED
    BY <2>1, <2>2, <2>3 DEF Taken, Tells, Hears, Listens, Renewed, Abandoning, Leaving
<1>14. CASE LoadFails \/ UpdateFails \/ StartJoins \/ (\E change \in {"ports"} \cup Modes : update(change))
  BY <1>1, <1>14 DEF LoadFails, UpdateFails, StartJoins, update, calls, cluster
<1>16. CASE UNCHANGED vars
  BY <1>1, <1>16 DEF vars, calls, cluster
<1>17. ASSUME crossed, UNCHANGED crossed PROVE ApartInv'
  BY <1>17 DEF ApartInv
<1>18. ASSUME NEW l \in Launches, LaunchFails(l), InFlight(l), UNCHANGED <<conn, current, removal, crossed>>,
              \A k \in Launches : /\ session'[k].stopped = session[k].stopped /\ session'[k].check = session[k].check
                                  /\ session'[k].renewed = session[k].renewed
       PROVE  ApartInv'
  <2>1. /\ record'.present = record.present
        /\ record'.status = record.status \/ (record.status = "starting" /\ record'.status = "error")
    <3>1. record' = IF record.present /\ record.status = "starting" THEN [record EXCEPT !.status = "error"] ELSE record
      BY <1>18 DEF LaunchFails
    <3>. QED
      BY <3>1, IfStarting, Values DEF TypeOK
  <2>2. record'.status \in Listening <=> record.status \in Listening
    BY <2>1 DEF Listening
  <2>3. isRunning(record'.status) => isRunning(record.status)
    BY <2>1 DEF isRunning, Listening
  <2>4. launch'[l].pc = "done" /\ \A k \in Launches : k # l => launch'[k] = launch[k]
    BY <1>18, FailsType
  <2>5. Leaving' <=> Leaving
    BY <1>18 DEF Leaving
  <2>. QED
    BY <1>18, <2>1, <2>2, <2>3, <2>4, <2>5, ApartKept DEF TypeOK
<1>19. ASSUME NEW l \in Launches, Cleared(l) \/ Unresolved(l) \/ Refused(l) PROVE ApartInv'
  <2>1. /\ InFlight(l) /\ UNCHANGED <<conn, current, removal, crossed>>
        /\ \A k \in Launches : /\ session'[k].stopped = session[k].stopped /\ session'[k].check = session[k].check
                              /\ session'[k].renewed = session[k].renewed
    BY <1>19 DEF Cleared, Unresolved, Refused, InFlight, calls, cluster, TypeOK, SessionRecords
  <2>2. CASE LaunchFails(l)
    BY <1>18, <2>1, <2>2
  <2>3. CASE Cleared(l) /\ ~LaunchFails(l)
    <3>1. /\ launch'[l].pc = "resolving" /\ launch[l].pc = "clearing"
          /\ \A k \in Launches : k # l => launch'[k] = launch[k]
          /\ UNCHANGED record /\ (Leaving' <=> Leaving)
      BY <2>3 DEF Cleared, TypeOK, Calls, Leaving, cluster
    <3>. QED
      BY <2>1, <3>1, ApartKept DEF TypeOK
  <2>. QED
    BY <1>19, <2>2, <2>3 DEF Unresolved, Refused
<1>20. ASSUME NEW l \in Launches, Resolved(l) \/ GoListens(l) \/ StopAnswered(l) \/ GoFails(l) PROVE ApartInv'
  <2>1. UNCHANGED <<record, conn, current, removal, crossed>> /\ (Leaving' <=> Leaving)
    BY <1>20 DEF Resolved, GoListens, StopAnswered, GoFails, calls, cluster, Leaving
  <2>2. \A k \in Launches : /\ session'[k].stopped = session[k].stopped /\ session'[k].check = session[k].check
                            /\ session'[k].renewed = session[k].renewed
    <3>1. CASE Resolved(l) \/ GoListens(l) \/ StopAnswered(l)
      BY <3>1 DEF Resolved, GoListens, StopAnswered, TypeOK, SessionRecords
    <3>2. CASE GoFails(l)
      <4>1. \A k \in Launches : session'[k] \in {session[k], GoCloses(session[k])}
        BY <3>2 DEF GoFails, TypeOK
      <4>. QED
        BY <1>11, <4>1
    <3>. QED
      BY <1>20, <3>1, <3>2
  <2>3. \A k \in Launches : launch'[k] = launch[k] \/ (launch'[k].pc = "listening" /\ launch[k].pc = "resolving")
    <3>1. CASE Resolved(l)
      BY <3>1 DEF Resolved, TypeOK, Calls
    <3>2. CASE GoListens(l) \/ StopAnswered(l) \/ GoFails(l)
      BY <3>2 DEF GoListens, StopAnswered, GoFails
    <3>. QED
      BY <1>20, <3>1, <3>2
  <2>. QED
    BY <2>1, <2>2, <2>3, ApartKept DEF TypeOK
<1>21. ASSUME NEW l \in Launches, Answered(l) PROVE ApartInv'
  <2>1. CASE crossed
    BY <1>17, <1>21, <2>1, AnsweredIs
  <2>2. CASE ~crossed
    <3>1. /\ InFlight(l) /\ \A k \in Launches : Alone(k) /\ GivenUp(k)
          /\ Taken /\ Tells
      BY <1>21, <2>2 DEF ApartInv, Answered, InFlight
    <3>2. current = None /\ (\A k \in Launches : InFlight(k) => k = l) /\ \A k \in Launches : ~Abandoning(k)
      BY <3>1 DEF Alone, GivenUp
    <3>3. /\ UNCHANGED <<conn, removal, crossed>> /\ launch'[l].pc \in {"done", "replacing"}
          /\ \A k \in Launches : k # l => launch'[k] = launch[k]
          /\ \A k \in Launches : session'[k].check = session[k].check
          /\ \/ /\ UNCHANGED current /\ launch'[l].pc = "done"
                /\ record'.present = record.present
                /\ record.present => record'.status \in {"error", "stopped", "waiting"}
                /\ ~record.present => UNCHANGED record
             \/ /\ current' = l /\ ~session'[l].stopped /\ launch'[l].pc = "done"
                /\ record.present /\ record.status = "starting"
                /\ record'.present /\ record'.status = "active"
             \/ /\ current' = None /\ launch'[l].pc = "done" /\ UNCHANGED record
      BY <1>21, <3>2, AnsweredIs
    <3>4. Leaving' <=> Leaving
      BY <3>3 DEF Leaving
    <3>5. \A k \in Launches : Alone(k)' /\ GivenUp(k)'
      BY <3>2, <3>3 DEF Alone, GivenUp, InFlight, Abandoning
    <3>6. CASE UNCHANGED current /\ record'.present = record.present
               /\ (record.present => record'.status \in {"error", "stopped", "waiting"}) /\ (~record.present => UNCHANGED record)
      BY <3>1, <3>2, <3>3, <3>5, <3>6 DEF ApartInv, Taken, Tells, Hears, Listens, Listening, isRunning
    <3>7. CASE current' = l /\ ~session'[l].stopped /\ record.status = "starting" /\ record'.present /\ record'.status = "active"
      BY <3>1, <3>2, <3>3, <3>5, <3>7, NoneApart DEF ApartInv, Taken, Tells, Hears, Listens, Listening, isRunning
    <3>8. CASE current' = None /\ UNCHANGED record
      BY <3>1, <3>2, <3>3, <3>4, <3>5, <3>8 DEF ApartInv, Taken, Tells, Hears, Listens, Renewed, Abandoning
    <3>. QED
      BY <3>3, <3>6, <3>7, <3>8
  <2>. QED
    BY <2>1, <2>2
<1>22. ASSUME NEW l \in Launches, Replaced(l) PROVE ApartInv'
  BY <1>17, <1>22 DEF Replaced, ApartInv, Alone, InFlight
<1>23. ASSUME NEW l \in Launches, Closed(l) PROVE ApartInv'
  <2>1. CASE crossed
    BY <1>17, <1>23, <2>1 DEF Closed
  <2>2. CASE ~crossed
    <3>1. /\ current = l /\ ~session[l].stopped
      BY <1>23 DEF OwnInv, Own, Closed
    <3>2. current' = None /\ ~removal.on /\ UNCHANGED <<launch, crossed, removal>>
      BY <1>23, <2>2, <3>1, NoneApart DEF ApartInv, Taken, Closed, calls, cluster
    <3>3. \A k \in Launches : session'[k].check = session[k].check
      BY <1>23 DEF Closed, TypeOK, SessionRecords
    <3>4. record'.present => record'.status \notin Listening
      BY <1>23, RecordUpdate, Values DEF Closed, Told, TypeOK, Listening
    <3>. QED
      BY <3>2, <3>3, <3>4, ApartAtRest
  <2>. QED
    BY <2>1, <2>2
<1>24. ASSUME NEW l \in Launches, NEW check \in Rechecks, Checks(l, check), session[l].check # "abandoning", check # "abandoning",
              UNCHANGED <<record, conn, launch, current, removal, crossed>>
       PROVE  ApartInv'
  <2>1. /\ session'[l].stopped = session[l].stopped /\ session'[l].check = check
        /\ session'[l].renewed = session[l].renewed
        /\ \A k \in Launches : k # l => session'[k] = session[k]
    BY <1>24 DEF Checks, TypeOK, SessionRecords
  <2>2. Leaving' <=> Leaving
    BY <1>24 DEF Leaving
  <2>. QED
    BY <1>24, <2>1, <2>2, ApartKept DEF TypeOK
<1>25. ASSUME NEW l \in Launches, NEW st \in Listening, Says(l, st), session[l].check \notin {"idle", "abandoning"},
              UNCHANGED <<conn, launch, current, removal, crossed>>
       PROVE  ApartInv'
  <2>1. CASE session[l].stopped
    BY <1>24, <1>25, <2>1, Values DEF Says
  <2>2. CASE ~session[l].stopped /\ crossed
    BY <1>17, <1>25, <2>2
  <2>3. CASE ~session[l].stopped /\ ~crossed
    <3>1. current = l /\ l # None
      BY <1>25, <2>3, NoneApart DEF OwnInv, Own
    <3>2. ~removal.on /\ Hears /\ Listens
      BY <2>3, <3>1 DEF ApartInv, Taken, Listens
    <3>3. /\ session'[l].stopped = session[l].stopped /\ session'[l].check = "idle"
          /\ session'[l].renewed = session[l].renewed
          /\ \A k \in Launches : k # l => session'[k] = session[k]
      BY <1>25, <2>3 DEF Says, TypeOK, SessionRecords
    <3>4. record' = Told(record, st) /\ st \in Statuses
      BY <1>25, <2>3, Values DEF Says, Listening
    <3>5. record'.present = record.present /\ record'.status \in {record.status, st}
      BY <3>4, ToldIs DEF TypeOK
    <3>6. Leaving' \/ (~Leaving /\ record.status \in Listening /\ record'.status \in Listening)
      BY <1>25, <3>2, <3>5 DEF Hears, Leaving
    <3>. QED
      BY <1>25, <3>2, <3>3, <3>5, <3>6, ApartKept DEF TypeOK
  <2>. QED
    BY <2>1, <2>2, <2>3
<1>26. ASSUME NEW l \in Launches, PodServes(l) \/ NoBackend(l) \/ Moved(l) PROVE ApartInv'
  <2>1. /\ session[l].check \notin {"idle", "abandoning"} /\ UNCHANGED <<conn, launch, current, removal, crossed>>
        /\ \/ Checks(l, "idle") /\ UNCHANGED record
           \/ Says(l, "active") \/ Says(l, "reconnecting")
    BY <1>26 DEF PodServes, NoBackend, Moved, calls, cluster
  <2>. QED
    BY <1>24, <1>25, <2>1, Values DEF Listening
<1>27. ASSUME NEW l \in Launches, recheck(l) \/ CheckFails(l) \/ Backend(l) PROVE ApartInv'
  BY <1>24, <1>27, Values DEF recheck, CheckFails, Backend, calls, cluster
<1>28. ASSUME NEW l \in Launches, PodGone(l) PROVE ApartInv'
  <2>1. CASE session[l].stopped \/ target = "services"
    BY <1>24, <1>28, <2>1, Values DEF PodGone, calls, cluster
  <2>2. CASE crossed
    BY <1>17, <1>28, <2>2 DEF PodGone
  <2>3. CASE ~session[l].stopped /\ target # "services" /\ ~crossed
    <3>1. current = l /\ l # None
      BY <1>28, <2>3, NoneApart DEF OwnInv, Own, PodGone
    <3>2. /\ current' = None /\ session' = [Stopped(session, l) EXCEPT ![l].check = "abandoning"]
          /\ UNCHANGED <<record, conn, launch, removal, crossed>>
      BY <1>28, <2>3, <3>1 DEF PodGone, calls, cluster
    <3>3. session'[l].check = "abandoning" /\ \A k \in Launches : k # l => session'[k] = session[k]
      BY <3>2, StoppedIs DEF TypeOK, SessionRecords
    <3>4. (\A k \in Launches : Alone(k)) /\ Taken
      BY <2>3 DEF ApartInv
    <3>5. \A k \in Launches : ~InFlight(k)'
      BY <3>1, <3>2, <3>4 DEF Alone, InFlight
    <3>6. (\A k \in Launches : Alone(k)' /\ GivenUp(k)') /\ Taken'
      BY <3>1, <3>2, <3>4, <3>5 DEF Alone, GivenUp, Taken
    <3>7. Tells' /\ Hears'
      BY <3>2, <3>3 DEF Tells, Hears, Listens, Abandoning
    <3>. QED
      BY <3>6, <3>7 DEF ApartInv
  <2>. QED
    BY <2>1, <2>2, <2>3
<1>29. ASSUME NEW l \in Launches, Abandoned(l) PROVE ApartInv'
  <2>1. CASE crossed
    BY <1>17, <1>29, <2>1 DEF Abandoned
  <2>2. CASE ~crossed
    <3>1. current' = None /\ Taken /\ UNCHANGED <<launch, removal, crossed>>
      BY <1>29, <2>2 DEF ApartInv, GivenUp, Abandoning, Abandoned, calls, cluster
    <3>2. \A k \in Launches : session'[k].check = "abandoning" => session[k].check = "abandoning"
      BY <1>29 DEF Abandoned, Checks, TypeOK, SessionRecords
    <3>3. /\ record'.present => record'.status \notin Listening
          /\ ~isRunning(record.status) => ~isRunning(record'.status)
      BY <1>29, RecordUpdate, Values DEF Abandoned, Told, TypeOK, Listening, isRunning
    <3>. QED
      BY <3>1, <3>2, <3>3, ApartAtRest DEF Taken
  <2>. QED
    BY <2>1, <2>2
<1>. QED
  BY <1>2, <1>4, <1>5, <1>6, <1>7, <1>8, <1>9, <1>10, <1>10b, <1>10c, <1>12, <1>13, <1>14, <1>16, <1>19, <1>20, <1>21,
     <1>22, <1>23, <1>26, <1>27, <1>28, <1>29 DEF Next

(* Between calls a forward that listens reads so, and one that reads so listens
   or had its session stopped by a reconnect; while its cluster is being
   disconnected it still shows what was.  Excepted are behaviours in which a
   launch began while another, a removal or an abandon was under way. *)
THEOREM ShownTruly == Spec => []ShownAsItIs
<1>1. Init => ListenerInv /\ OwnInv /\ Unloaded /\ ApartInv
  <2> SUFFICES ASSUME Init PROVE ListenerInv /\ OwnInv /\ Unloaded /\ ApartInv
      OBVIOUS
  <2>1. /\ current = None /\ ~record.present /\ ~removal.on /\ record.status = "stopped"
        /\ \A l \in Launches : /\ launch[l].pc = "idle" /\ session[l].check = "idle" /\ ~session[l].bye
                             /\ ~session[l].stopped /\ session[l].go = "none" /\ ~session[l].held
    BY DEF Init
  <2>2. ListenerInv /\ OwnInv
    BY <2>1, NoneApart DEF ListenerInv, Listener, OwnInv, Own
  <2>3. Unloaded /\ ApartInv
    BY <2>1 DEF Unloaded, ApartInv, Alone, GivenUp, Abandoning, InFlight, Taken, Tells, Hears, Listens, Reads
  <2>. QED
    BY <2>2, <2>3
<1>2. ApartInv => ShownAsItIs
  BY DEF ApartInv, Tells, Hears, ShownAsItIs, ShownNow, Quiet
<1>. QED
  BY <1>1, <1>2, TypesHold, ListenerStep, OwnStep, UnloadedStep, ApartStep, PTL DEF Spec


-----------------------------------------------------------------------------
(* The Go half (Forwards).                                                 *)

(* The parts of the types the argument needs. *)
FwdShapes ==
  /\ forwards \subseteq Fwds /\ listening \subseteq Fwds /\ done \subseteq Fwds
  /\ phase \in [Fwds -> Phases]
  /\ fwdTarget \in [Fwds -> Nat]
  /\ events \in [Fwds -> Seq({"error", "close"})]
  /\ fwdConn \in [Conns -> Connections]
  /\ stopper \in [Callers -> [pc : {"idle", "found", "unknown", "cancelled", "waiting",
                                    "answered", "timedOut"}, on : Fwds \cup {FwdNone}]]

(* The map holds the forwards between addForward and removeForward, and a  *)
(* closed done channel means that the loop is over.                        *)
FwdListed ==
  \A f \in Fwds :
    /\ f \in forwards <=> phase[f] \in Running
    /\ f \in done => phase[f] = "ended"

(* A connection is one a forward accepted, and none is left when the loop  *)
(* has waited for them.                                                    *)
FwdServed ==
  /\ \A x \in Conns : fwdConn[x].on \in Fwds <=> fwdConn[x].pc # "idle"
  /\ \A f \in Fwds : phase[f] \in {"removed", "reported", "ended"} => Active(f) = {}

(* A connection is only of a forward whose loop has run. *)
FwdLived ==
  \A x \in Conns : fwdConn[x].pc # "idle" =>
    phase[fwdConn[x].on] \in Running \cup {"removed", "reported", "ended"}

(* A StopForward call that is on its way is about a forward that got as    *)
(* far as the map, has closed its listener before it waits and is answered *)
(* when the loop is over.                                                  *)
FwdAimed ==
  \A a \in Callers :
    /\ stopper[a].pc # "idle" => stopper[a].on \in Fwds /\ Knowable(stopper[a].on)
    /\ stopper[a].pc \in {"waiting", "answered", "timedOut"} =>
         stopper[a].on \notin listening
    /\ stopper[a].pc = "answered" => stopper[a].on \in done

(* No close event before the loop has reported it, and nothing after it.   *)
FwdSays ==
  \A f \in Fwds : \A i \in 1..Len(events[f]) : events[f][i] = "close" =>
    i = Len(events[f]) /\ phase[f] \in {"reported", "ended"}

(* The path and the port a connection dials were read together, at a       *)
(* version no older than the one it was accepted at and no newer than the  *)
(* forward's.                                                              *)
FwdDials ==
  \A x \in Conns : fwdConn[x].pc # "idle" =>
    /\ fwdConn[x].since <= fwdTarget[fwdConn[x].on]
    /\ fwdConn[x].pc \in {"dialing", "piping", "closing"} =>
         fwdConn[x].port = fwdConn[x].path /\ fwdConn[x].path >= fwdConn[x].since

ForwardsInv ==
  FwdShapes /\ FwdListed /\ FwdServed /\ FwdLived /\ FwdAimed /\ FwdSays /\ FwdDials

(* An event is added at the end of one forward's. *)
LEMMA SaidType ==
  ASSUME FwdShapes, NEW f \in Fwds, NEW e \in {"error", "close"}
  PROVE  Said(f, e) \in [Fwds -> Seq({"error", "close"})]
<1>1. events[f] \in Seq({"error", "close"}) /\ events \in [Fwds -> Seq({"error", "close"})]
  BY DEF FwdShapes
<1>2. Append(events[f], e) \in Seq({"error", "close"})
  BY <1>1, AppendProperties
<1>3. [events EXCEPT ![f] = Append(events[f], e)] \in [Fwds -> Seq({"error", "close"})]
  BY <1>1, <1>2
<1>. QED
  BY <1>1, <1>3 DEF Said

(* What a forward has said stays, and so does what the others have: what   *)
(* is new is the one event at the end.                                     *)
LEMMA SaidAtTheEnd ==
  ASSUME FwdShapes, NEW f \in Fwds, NEW e \in {"error", "close"},
         NEW g \in Fwds, NEW i \in 1..Len(Said(f, e)[g])
  PROVE  \/ Said(f, e)[g] = events[g]
         \/ /\ g = f /\ i \in 1..Len(events[g])
            /\ Said(f, e)[g][i] = events[g][i]
         \/ g = f /\ i = Len(Said(f, e)[g]) /\ Said(f, e)[g][i] = e
<1>1. events[f] \in Seq({"error", "close"}) /\ events \in [Fwds -> Seq({"error", "close"})]
  BY DEF FwdShapes
<1>2. CASE Said(f, e) = events
  BY <1>2
<1>3. CASE Said(f, e) = [events EXCEPT ![f] = Append(events[f], e)] /\ g # f
  BY <1>1, <1>3
<1>4. CASE Said(f, e) = [events EXCEPT ![f] = Append(events[f], e)] /\ g = f
  <2>1. Said(f, e)[g] = Append(events[f], e)
    BY <1>1, <1>4
  <2>. QED
    BY <1>1, <1>4, <2>1, AppendProperties, LenProperties
<1>. QED
  BY <1>1, <1>2, <1>3, <1>4 DEF Said

(* Nothing has been started. *)
LEMMA ForwardsStart == ForwardsInit => ForwardsInv
<1> SUFFICES ASSUME ForwardsInit PROVE ForwardsInv
    OBVIOUS
<1> USE ForwardNone DEF ForwardsInit, Unborn
<1>1. FwdShapes
  BY DEF FwdShapes, Phases, Connections
<1>2. FwdListed /\ FwdSays
  BY DEF FwdListed, FwdSays, Running
<1>3. FwdServed /\ FwdLived
  BY DEF FwdServed, FwdLived, Active
<1>4. FwdAimed /\ FwdDials
  BY DEF FwdAimed, FwdDials
<1>. QED
  BY <1>1, <1>2, <1>3, <1>4 DEF ForwardsInv


(* What a step of a connection's goroutine does: it stays the forward's,   *)
(* keeps what it dialled or reads it anew, and may complain.               *)
ConnMoves(x) ==
  /\ fwdConn' \in [Conns -> Connections]
  /\ \A y \in Conns \ {x} : fwdConn'[y] = fwdConn[y]
  /\ fwdConn[x].pc \notin {"idle", "gone"} /\ fwdConn'[x].pc # "idle"
  /\ fwdConn'[x].on = fwdConn[x].on /\ fwdConn'[x].since = fwdConn[x].since
  /\ fwdConn'[x].pc \in {"dialing", "piping", "closing"} =>
       \/ fwdConn[x].pc \in {"dialing", "piping", "closing"}
          /\ fwdConn'[x].path = fwdConn[x].path /\ fwdConn'[x].port = fwdConn[x].port
       \/ fwdConn'[x].path = fwdTarget[fwdConn[x].on]
          /\ fwdConn'[x].port = fwdTarget[fwdConn[x].on]
  /\ events' \in {events, Said(fwdConn[x].on, "error")}
  /\ UNCHANGED <<sessionVars, forwards, opening, phase, fwdSession, port, listening,
                 fwdTarget, cancelled, done, stopVars>>

LEMMA ConnStepMoves ==
  ASSUME FwdShapes, FwdServed, NEW x \in Conns, ConnStep(x)
  PROVE  ConnMoves(x)
<1>1. fwdConn \in [Conns -> Connections] /\ fwdConn[x] \in Connections
  BY DEF FwdShapes
<1>2. ASSUME fwdConn[x].pc # "idle" PROVE fwdConn[x].on \in Fwds /\ fwdTarget[fwdConn[x].on] \in Nat
  BY <1>2 DEF FwdServed, FwdShapes
<1>3. CASE Serve(x)
  <2>1. [fwdConn[x] EXCEPT !.pc = "dialing", !.path = fwdTarget[fwdConn[x].on],
                         !.port = fwdTarget[fwdConn[x].on]] \in Connections
    BY <1>1, <1>2, <1>3 DEF Serve, Connections
  <2>2. fwdConn' = [fwdConn EXCEPT ![x] = [fwdConn[x] EXCEPT !.pc = "dialing", !.path = fwdTarget[fwdConn[x].on],
                         !.port = fwdTarget[fwdConn[x].on]]]
    BY <1>1, <1>3 DEF Serve, fwdVars, stopVars
  <2>3. fwdConn'[x] = [fwdConn[x] EXCEPT !.pc = "dialing", !.path = fwdTarget[fwdConn[x].on],
                         !.port = fwdTarget[fwdConn[x].on]]
    BY <1>1, <2>2
  <2>4. fwdConn' \in [Conns -> Connections] /\ \A y \in Conns \ {x} : fwdConn'[y] = fwdConn[y]
    BY <1>1, <2>1, <2>2
  <2>. QED
    BY <1>1, <1>3, <2>3, <2>4 DEF Serve, fwdVars, stopVars, ConnMoves, Connections, fwdVars, sessionVars
<1>4. CASE DialFails(x)
  <2>1. [fwdConn[x] EXCEPT !.pc = "gone", !.cut = TRUE] \in Connections
    BY <1>1, <1>2, <1>4 DEF DialFails, Connections
  <2>2. fwdConn' = [fwdConn EXCEPT ![x] = [fwdConn[x] EXCEPT !.pc = "gone", !.cut = TRUE]]
    BY <1>1, <1>4 DEF DialFails, Quits, stopVars
  <2>3. fwdConn'[x] = [fwdConn[x] EXCEPT !.pc = "gone", !.cut = TRUE]
    BY <1>1, <2>2
  <2>4. fwdConn' \in [Conns -> Connections] /\ \A y \in Conns \ {x} : fwdConn'[y] = fwdConn[y]
    BY <1>1, <2>1, <2>2
  <2>. QED
    BY <1>1, <1>4, <2>3, <2>4 DEF DialFails, Quits, stopVars, ConnMoves, Connections, fwdVars, sessionVars
<1>5. CASE Announced(x)
  <2>1. [fwdConn[x] EXCEPT !.pc = "piping", !.remote = TRUE] \in Connections
    BY <1>1, <1>2, <1>5 DEF Announced, Connections
  <2>2. fwdConn' = [fwdConn EXCEPT ![x] = [fwdConn[x] EXCEPT !.pc = "piping", !.remote = TRUE]]
    BY <1>1, <1>5 DEF Announced, fwdVars, stopVars
  <2>3. fwdConn'[x] = [fwdConn[x] EXCEPT !.pc = "piping", !.remote = TRUE]
    BY <1>1, <2>2
  <2>4. fwdConn' \in [Conns -> Connections] /\ \A y \in Conns \ {x} : fwdConn'[y] = fwdConn[y]
    BY <1>1, <2>1, <2>2
  <2>. QED
    BY <1>1, <1>5, <2>3, <2>4 DEF Announced, fwdVars, stopVars, ConnMoves, Connections, fwdVars, sessionVars
<1>6. CASE RemotePumpEnds(x)
  <2>1. [fwdConn[x] EXCEPT !.remote = FALSE, !.cut = TRUE] \in Connections
    BY <1>1, <1>2, <1>6 DEF RemotePumpEnds, Connections
  <2>2. fwdConn' = [fwdConn EXCEPT ![x] = [fwdConn[x] EXCEPT !.remote = FALSE, !.cut = TRUE]]
    BY <1>1, <1>6 DEF RemotePumpEnds, fwdVars, stopVars
  <2>3. fwdConn'[x] = [fwdConn[x] EXCEPT !.remote = FALSE, !.cut = TRUE]
    BY <1>1, <2>2
  <2>4. fwdConn' \in [Conns -> Connections] /\ \A y \in Conns \ {x} : fwdConn'[y] = fwdConn[y]
    BY <1>1, <2>1, <2>2
  <2>. QED
    BY <1>1, <1>6, <2>3, <2>4 DEF RemotePumpEnds, fwdVars, stopVars, ConnMoves, Connections, fwdVars, sessionVars
<1>7. CASE LocalWrites(x)
  <2>1. [fwdConn[x] EXCEPT !.writing = TRUE] \in Connections
    BY <1>1, <1>2, <1>7 DEF LocalWrites, Connections
  <2>2. fwdConn' = [fwdConn EXCEPT ![x] = [fwdConn[x] EXCEPT !.writing = TRUE]]
    BY <1>1, <1>7 DEF LocalWrites, fwdVars, stopVars
  <2>3. fwdConn'[x] = [fwdConn[x] EXCEPT !.writing = TRUE]
    BY <1>1, <2>2
  <2>4. fwdConn' \in [Conns -> Connections] /\ \A y \in Conns \ {x} : fwdConn'[y] = fwdConn[y]
    BY <1>1, <2>1, <2>2
  <2>. QED
    BY <1>1, <1>7, <2>3, <2>4 DEF LocalWrites, fwdVars, stopVars, ConnMoves, Connections, fwdVars, sessionVars
<1>8. CASE LocalTakes(x)
  <2>1. [fwdConn[x] EXCEPT !.writing = FALSE] \in Connections
    BY <1>1, <1>2, <1>8 DEF LocalTakes, Connections
  <2>2. fwdConn' = [fwdConn EXCEPT ![x] = [fwdConn[x] EXCEPT !.writing = FALSE]]
    BY <1>1, <1>8 DEF LocalTakes, fwdVars, stopVars
  <2>3. fwdConn'[x] = [fwdConn[x] EXCEPT !.writing = FALSE]
    BY <1>1, <2>2
  <2>4. fwdConn' \in [Conns -> Connections] /\ \A y \in Conns \ {x} : fwdConn'[y] = fwdConn[y]
    BY <1>1, <2>1, <2>2
  <2>. QED
    BY <1>1, <1>8, <2>3, <2>4 DEF LocalTakes, fwdVars, stopVars, ConnMoves, Connections, fwdVars, sessionVars
<1>9. CASE RemoteComplains(x)
  BY <1>1, <1>9 DEF RemoteComplains, Quits, stopVars, ConnMoves, fwdVars, sessionVars
<1>10. CASE LocalPumpEnds(x)
  <2>1. [fwdConn[x] EXCEPT !.pc = "closing", !.cut = TRUE] \in Connections
    BY <1>1, <1>2, <1>10 DEF LocalPumpEnds, Connections
  <2>2. fwdConn' = [fwdConn EXCEPT ![x] = [fwdConn[x] EXCEPT !.pc = "closing", !.cut = TRUE]]
    BY <1>1, <1>10 DEF LocalPumpEnds, Quits, stopVars
  <2>3. fwdConn'[x] = [fwdConn[x] EXCEPT !.pc = "closing", !.cut = TRUE]
    BY <1>1, <2>2
  <2>4. fwdConn' \in [Conns -> Connections] /\ \A y \in Conns \ {x} : fwdConn'[y] = fwdConn[y]
    BY <1>1, <2>1, <2>2
  <2>. QED
    BY <1>1, <1>10, <2>3, <2>4 DEF LocalPumpEnds, Quits, stopVars, ConnMoves, Connections, fwdVars, sessionVars
<1>11. CASE LocalWriteFails(x)
  <2>1. [fwdConn[x] EXCEPT !.pc = "closing", !.writing = FALSE, !.cut = TRUE] \in Connections
    BY <1>1, <1>2, <1>11 DEF LocalWriteFails, Connections
  <2>2. fwdConn' = [fwdConn EXCEPT ![x] = [fwdConn[x] EXCEPT !.pc = "closing", !.writing = FALSE, !.cut = TRUE]]
    BY <1>1, <1>11 DEF LocalWriteFails, Quits, stopVars
  <2>3. fwdConn'[x] = [fwdConn[x] EXCEPT !.pc = "closing", !.writing = FALSE, !.cut = TRUE]
    BY <1>1, <2>2
  <2>4. fwdConn' \in [Conns -> Connections] /\ \A y \in Conns \ {x} : fwdConn'[y] = fwdConn[y]
    BY <1>1, <2>1, <2>2
  <2>. QED
    BY <1>1, <1>11, <2>3, <2>4 DEF LocalWriteFails, Quits, stopVars, ConnMoves, Connections, fwdVars, sessionVars
<1>12. CASE Gone(x)
  <2>1. [fwdConn[x] EXCEPT !.pc = "gone"] \in Connections
    BY <1>1, <1>2, <1>12 DEF Gone, Connections
  <2>2. fwdConn' = [fwdConn EXCEPT ![x] = [fwdConn[x] EXCEPT !.pc = "gone"]]
    BY <1>1, <1>12 DEF Gone, fwdVars, stopVars
  <2>3. fwdConn'[x] = [fwdConn[x] EXCEPT !.pc = "gone"]
    BY <1>1, <2>2
  <2>4. fwdConn' \in [Conns -> Connections] /\ \A y \in Conns \ {x} : fwdConn'[y] = fwdConn[y]
    BY <1>1, <2>1, <2>2
  <2>. QED
    BY <1>1, <1>12, <2>3, <2>4 DEF Gone, fwdVars, stopVars, ConnMoves, Connections, fwdVars, sessionVars
<1>. QED
  BY <1>3, <1>4, <1>5, <1>6, <1>7, <1>8, <1>9, <1>10, <1>11, <1>12 DEF ConnStep

(* What accepting a connection makes of it, and of no other. *)
LEMMA AcceptMoves ==
  ASSUME FwdShapes, NEW f \in Fwds, NEW x \in Conns, Accept(f, x)
  PROVE  /\ fwdConn' \in [Conns -> Connections]
         /\ \A y \in Conns \ {x} : fwdConn'[y] = fwdConn[y]
         /\ fwdConn'[x].pc = "accepted" /\ fwdConn'[x].on = f
         /\ fwdConn'[x].since = fwdTarget[f]
<1>1. /\ fwdConn \in [Conns -> Connections] /\ fwdConn[x] \in Connections
      /\ fwdTarget[f] \in Nat
  BY DEF FwdShapes
<1>2. [fwdConn[x] EXCEPT !.pc = "accepted", !.on = f, !.since = fwdTarget[f]] \in Connections
  BY <1>1 DEF Connections
<1>3. fwdConn' = [fwdConn EXCEPT ![x] =
        [fwdConn[x] EXCEPT !.pc = "accepted", !.on = f, !.since = fwdTarget[f]]]
  BY <1>1 DEF Accept
<1>4. fwdConn'[x] = [fwdConn[x] EXCEPT !.pc = "accepted", !.on = f, !.since = fwdTarget[f]]
  BY <1>1, <1>3
<1>. QED
  BY <1>1, <1>2, <1>3, <1>4 DEF Connections

(* The shapes are kept. *)
LEMMA FwdShapesStep == FwdShapes /\ FwdServed /\ [ForwardsNext]_forwardsVars => FwdShapes'
<1> SUFFICES ASSUME FwdShapes, FwdServed, [ForwardsNext]_forwardsVars PROVE FwdShapes'
    OBVIOUS
<1>e. \A f \in Fwds : Said(f, "error") \in [Fwds -> Seq({"error", "close"})]
             /\ Said(f, "close") \in [Fwds -> Seq({"error", "close"})]
  BY SaidType
<1> USE DEF FwdShapes, Phases, Opening, Running
<1>1. ASSUME NEW k \in Sessions, Connect(k) PROVE FwdShapes'
  BY <1>1 DEF Connect, Add, fwdVars, stopVars
<1>2. ASSUME NEW k \in Sessions, Disconnect(k) PROVE FwdShapes'
  BY <1>2 DEF Disconnect, Remove, fwdVars, stopVars
<1>3. ASSUME NEW k \in Sessions, CloseSession(k) PROVE FwdShapes'
  BY <1>3 DEF CloseSession, CloseOne, fwdVars, stopVars
<1>4. ASSUME NEW f \in Fwds, NEW k \in Sessions, NEW p \in Ports, StartForward(f, k, p) PROVE FwdShapes'
  BY <1>4 DEF StartForward, stopVars
<1>5. ASSUME NEW f \in Fwds, reserveForward(f) PROVE FwdShapes'
  BY <1>5 DEF reserveForward, stopVars
<1>6. ASSUME NEW f \in Fwds, Listen(f) PROVE FwdShapes'
  BY <1>6 DEF Listen, stopVars
<1>7. ASSUME NEW f \in Fwds, abandonForward(f) PROVE FwdShapes'
  BY <1>7 DEF abandonForward, stopVars
<1>8. ASSUME NEW f \in Fwds, addForward(f) PROVE FwdShapes'
  BY <1>8 DEF addForward, stopVars
<1>9. ASSUME NEW f \in Fwds, NEW x \in Conns, Accept(f, x) PROVE FwdShapes'
  BY <1>9, AcceptMoves DEF Accept, fwdVars, stopVars
<1>10. ASSUME NEW f \in Fwds, AcceptFails(f) PROVE FwdShapes'
  BY <1>10, <1>e DEF AcceptFails, stopVars
<1>11. ASSUME NEW f \in Fwds, Leave(f) PROVE FwdShapes'
  BY <1>11 DEF Leave, stopVars
<1>12. ASSUME NEW f \in Fwds, removeForward(f) PROVE FwdShapes'
  BY <1>12 DEF removeForward, stopVars
<1>13. ASSUME NEW f \in Fwds, ForwardCloses(f) PROVE FwdShapes'
  BY <1>13, <1>e DEF ForwardCloses, stopVars
<1>14. ASSUME NEW f \in Fwds, LoopDone(f) PROVE FwdShapes'
  BY <1>14 DEF LoopDone, stopVars
<1>15. ASSUME NEW f \in Fwds, Retarget(f) PROVE FwdShapes'
  <2>1. fwdTarget[f] + 1 \in Nat
    OBVIOUS
  <2>. QED
    BY <1>15, <2>1 DEF Retarget, stopVars
<1>16. ASSUME NEW x \in Conns, ConnStep(x) PROVE FwdShapes'
  <2>1. ConnMoves(x)
    BY <1>16, ConnStepMoves
  <2>2. fwdConn[x].on \in Fwds
    BY <2>1 DEF FwdServed, ConnMoves
  <2>. QED
    BY <1>e, <2>1, <2>2 DEF ConnMoves, stopVars
<1>17. ASSUME NEW a \in Callers, NEW f \in Fwds, StopForward(a, f) PROVE FwdShapes'
  BY <1>17 DEF StopForward, fwdVars
<1>18. ASSUME NEW a \in Callers, stopForward(a) PROVE FwdShapes'
  BY <1>18 DEF stopForward
<1>19. ASSUME NEW a \in Callers, StopClosesListener(a) PROVE FwdShapes'
  BY <1>19 DEF StopClosesListener
<1>20. ASSUME NEW a \in Callers, awaitDone(a) PROVE FwdShapes'
  <2>1. ASSUME NEW q \in {"answered", "timedOut"}, stopper' = [stopper EXCEPT ![a].pc = q],
               stopper[a].pc = "waiting", q = "answered" => stopper[a].on \in done
        PROVE  FwdShapes'
    <3>1. stopper[a].pc = "waiting" /\ stopper' = [stopper EXCEPT ![a] = [stopper[a] EXCEPT !.pc = q]]
      BY <2>1
    <3>2. stopper[a] \in [pc : {"idle", "found", "unknown", "cancelled", "waiting",
                                    "answered", "timedOut"}, on : Fwds \cup {FwdNone}]
      OBVIOUS
    <3>3. [stopper[a] EXCEPT !.pc = q] \in
            [pc : {"idle", "found", "unknown", "cancelled", "waiting",
                   "answered", "timedOut"}, on : Fwds \cup {FwdNone}]
      BY <3>2
    <3>. QED
      BY <1>20, <2>1, <3>1, <3>3 DEF awaitDone, fwdVars
  <2>. QED
    BY <1>20, <2>1 DEF awaitDone
<1>21. CASE stopAllForwards
  BY <1>21 DEF stopAllForwards, fwdVars
<1>22. CASE StopAllCancel
  BY <1>22 DEF StopAllCancel
<1>23. ASSUME NEW f \in Fwds, StopAllAwait(f) PROVE FwdShapes'
  BY <1>23 DEF StopAllAwait, fwdVars
<1>24. CASE RegistryCloses
  BY <1>24 DEF RegistryCloses, CloseAll, fwdVars
<1>25. CASE Exit
  BY <1>25 DEF Exit, forwardsVars, fwdVars, stopVars
<1>26. CASE UNCHANGED forwardsVars
  BY <1>26 DEF forwardsVars, fwdVars, stopVars
<1>. QED
  BY <1>1, <1>2, <1>3, <1>4, <1>5, <1>6, <1>7, <1>8, <1>9, <1>10, <1>11,
     <1>12, <1>13, <1>14, <1>15, <1>16, <1>17, <1>18, <1>19, <1>20, <1>21,
     <1>22, <1>23, <1>24, <1>25, <1>26
     DEF ForwardsNext, StartStep, LoopStep, StopStep, ShutStep

(* The map, the done channels and the StopForward calls. *)
LEMMA FwdListedStep ==
  FwdShapes /\ FwdServed /\ FwdListed /\ FwdAimed /\ [ForwardsNext]_forwardsVars
    => FwdListed' /\ FwdAimed'
<1> SUFFICES ASSUME FwdShapes, FwdServed, FwdListed, FwdAimed, [ForwardsNext]_forwardsVars
             PROVE  FwdListed' /\ FwdAimed'
    OBVIOUS
<1> USE DEF FwdShapes, FwdListed, FwdAimed, Knowable, Phases, Opening, Running, stopVars
<1>1. ASSUME NEW k \in Sessions, Connect(k) PROVE FwdListed' /\ FwdAimed'
  BY <1>1 DEF Connect, Add, fwdVars, stopVars
<1>2. ASSUME NEW k \in Sessions, Disconnect(k) PROVE FwdListed' /\ FwdAimed'
  BY <1>2 DEF Disconnect, Remove, fwdVars, stopVars
<1>3. ASSUME NEW k \in Sessions, CloseSession(k) PROVE FwdListed' /\ FwdAimed'
  BY <1>3 DEF CloseSession, CloseOne, fwdVars, stopVars
<1>4. ASSUME NEW f \in Fwds, NEW k \in Sessions, NEW p \in Ports, StartForward(f, k, p) PROVE FwdListed' /\ FwdAimed'
  BY <1>4 DEF StartForward, stopVars
<1>5. ASSUME NEW f \in Fwds, reserveForward(f) PROVE FwdListed' /\ FwdAimed'
  BY <1>5 DEF reserveForward, stopVars
<1>6. ASSUME NEW f \in Fwds, Listen(f) PROVE FwdListed' /\ FwdAimed'
  BY <1>6 DEF Listen, stopVars
<1>7. ASSUME NEW f \in Fwds, abandonForward(f) PROVE FwdListed' /\ FwdAimed'
  BY <1>7 DEF abandonForward, stopVars
<1>8. ASSUME NEW f \in Fwds, addForward(f) PROVE FwdListed' /\ FwdAimed'
  BY <1>8 DEF addForward, stopVars
<1>9. ASSUME NEW f \in Fwds, NEW x \in Conns, Accept(f, x) PROVE FwdListed' /\ FwdAimed'
  BY <1>9 DEF Accept, fwdVars, stopVars
<1>10. ASSUME NEW f \in Fwds, AcceptFails(f) PROVE FwdListed' /\ FwdAimed'
  BY <1>10 DEF AcceptFails, stopVars
<1>11. ASSUME NEW f \in Fwds, Leave(f) PROVE FwdListed' /\ FwdAimed'
  BY <1>11 DEF Leave, stopVars
<1>12. ASSUME NEW f \in Fwds, removeForward(f) PROVE FwdListed' /\ FwdAimed'
  BY <1>12 DEF removeForward, stopVars
<1>13. ASSUME NEW f \in Fwds, ForwardCloses(f) PROVE FwdListed' /\ FwdAimed'
  BY <1>13 DEF ForwardCloses, stopVars
<1>14. ASSUME NEW f \in Fwds, LoopDone(f) PROVE FwdListed' /\ FwdAimed'
  BY <1>14 DEF LoopDone, stopVars
<1>15. ASSUME NEW f \in Fwds, Retarget(f) PROVE FwdListed' /\ FwdAimed'
  BY <1>15 DEF Retarget, stopVars
<1>16. ASSUME NEW x \in Conns, ConnStep(x) PROVE FwdListed' /\ FwdAimed'
  <2>1. ConnMoves(x)
    BY <1>16, ConnStepMoves
  <2>. QED
    BY <2>1 DEF ConnMoves
<1>17. ASSUME NEW a \in Callers, NEW f \in Fwds, StopForward(a, f) PROVE FwdListed' /\ FwdAimed'
  BY <1>17 DEF StopForward, fwdVars
<1>18. ASSUME NEW a \in Callers, stopForward(a) PROVE FwdListed' /\ FwdAimed'
  BY <1>18 DEF stopForward
<1>19. ASSUME NEW a \in Callers, StopClosesListener(a) PROVE FwdListed' /\ FwdAimed'
  BY <1>19 DEF StopClosesListener
<1>20. ASSUME NEW a \in Callers, awaitDone(a) PROVE FwdListed' /\ FwdAimed'
  <2>1. ASSUME NEW q \in {"answered", "timedOut"}, stopper' = [stopper EXCEPT ![a].pc = q],
               stopper[a].pc = "waiting", q = "answered" => stopper[a].on \in done
        PROVE  FwdListed' /\ FwdAimed'
    <3>1. stopper[a].pc = "waiting" /\ stopper' = [stopper EXCEPT ![a] = [stopper[a] EXCEPT !.pc = q]]
      BY <2>1
    <3>. QED
      BY <1>20, <2>1, <3>1 DEF awaitDone, fwdVars
  <2>. QED
    BY <1>20, <2>1 DEF awaitDone
<1>21. CASE stopAllForwards
  BY <1>21 DEF stopAllForwards, fwdVars
<1>22. CASE StopAllCancel
  BY <1>22 DEF StopAllCancel
<1>23. ASSUME NEW f \in Fwds, StopAllAwait(f) PROVE FwdListed' /\ FwdAimed'
  BY <1>23 DEF StopAllAwait, fwdVars
<1>24. CASE RegistryCloses
  BY <1>24 DEF RegistryCloses, CloseAll, fwdVars
<1>25. CASE Exit
  BY <1>25 DEF Exit, forwardsVars, fwdVars, stopVars
<1>26. CASE UNCHANGED forwardsVars
  BY <1>26 DEF forwardsVars, fwdVars, stopVars
<1>. QED
  BY <1>1, <1>2, <1>3, <1>4, <1>5, <1>6, <1>7, <1>8, <1>9, <1>10, <1>11,
     <1>12, <1>13, <1>14, <1>15, <1>16, <1>17, <1>18, <1>19, <1>20, <1>21,
     <1>22, <1>23, <1>24, <1>25, <1>26
     DEF ForwardsNext, StartStep, LoopStep, StopStep, ShutStep

(* Connections belong to a forward whose loop has run, and it waits for    *)
(* them: they are accepted only by a loop that is still to wait.           *)
LEMMA FwdServedStep ==
  FwdShapes /\ FwdServed /\ FwdLived /\ [ForwardsNext]_forwardsVars => FwdServed' /\ FwdLived'
<1> SUFFICES ASSUME FwdShapes, FwdServed, FwdLived, [ForwardsNext]_forwardsVars
             PROVE  FwdServed' /\ FwdLived'
    OBVIOUS
<1> USE DEF FwdShapes, FwdServed, FwdLived, Phases, Opening, Running, Active
<1>1. ASSUME NEW k \in Sessions, Connect(k) PROVE FwdServed' /\ FwdLived'
  BY <1>1 DEF Connect, Add, fwdVars, stopVars
<1>2. ASSUME NEW k \in Sessions, Disconnect(k) PROVE FwdServed' /\ FwdLived'
  BY <1>2 DEF Disconnect, Remove, fwdVars, stopVars
<1>3. ASSUME NEW k \in Sessions, CloseSession(k) PROVE FwdServed' /\ FwdLived'
  BY <1>3 DEF CloseSession, CloseOne, fwdVars, stopVars
<1>4. ASSUME NEW f \in Fwds, NEW k \in Sessions, NEW p \in Ports, StartForward(f, k, p) PROVE FwdServed' /\ FwdLived'
  <2>1. \E q \in {"looked", "refused"} : phase' = [phase EXCEPT ![f] = q] /\ phase[f] = "idle"
    BY <1>4 DEF StartForward
  <2>. QED
    BY <1>4, <2>1 DEF StartForward, stopVars
<1>5. ASSUME NEW f \in Fwds, reserveForward(f) PROVE FwdServed' /\ FwdLived'
  BY <1>5 DEF reserveForward, stopVars
<1>6. ASSUME NEW f \in Fwds, Listen(f) PROVE FwdServed' /\ FwdLived'
  BY <1>6 DEF Listen, stopVars
<1>7. ASSUME NEW f \in Fwds, abandonForward(f) PROVE FwdServed' /\ FwdLived'
  BY <1>7 DEF abandonForward, stopVars
<1>8. ASSUME NEW f \in Fwds, addForward(f) PROVE FwdServed' /\ FwdLived'
  BY <1>8 DEF addForward, stopVars
<1>9. ASSUME NEW f \in Fwds, NEW x \in Conns, Accept(f, x) PROVE FwdServed' /\ FwdLived'
  <2>1. /\ \A y \in Conns \ {x} : fwdConn'[y] = fwdConn[y]
        /\ fwdConn'[x].pc = "accepted" /\ fwdConn'[x].on = f
        /\ phase' = phase /\ phase[f] = "accepting"
    BY <1>9, AcceptMoves DEF Accept, fwdVars
  <2>2. FwdLived'
    BY <2>1
  <2>3. \A y \in Conns : fwdConn'[y].on \in Fwds <=> fwdConn'[y].pc # "idle"
    <3>1. TAKE y \in Conns
    <3>2. fwdConn[y].on \in Fwds <=> fwdConn[y].pc # "idle"
      OBVIOUS
    <3>3. CASE y = x
      BY <2>1, <3>3
    <3>4. CASE y # x
      BY <2>1, <3>2, <3>4
    <3>. QED
      BY <3>3, <3>4
  <2>4. ASSUME NEW g \in Fwds, phase'[g] \in {"removed", "reported", "ended"},
               NEW y \in Active(g)'
        PROVE  FALSE
    <3>1. fwdConn'[y].on = g /\ fwdConn'[y].pc # "gone" /\ y \in Conns /\ g # f
      BY <2>1, <2>4
    <3>2. y # x
      BY <2>1, <3>1
    <3>3. y \in Active(g)
      BY <2>1, <3>1, <3>2
    <3>. QED
      BY <2>1, <2>4, <3>3
  <2>. QED
    BY <2>2, <2>3, <2>4
<1>10. ASSUME NEW f \in Fwds, AcceptFails(f) PROVE FwdServed' /\ FwdLived'
  BY <1>10 DEF AcceptFails, stopVars
<1>11. ASSUME NEW f \in Fwds, Leave(f) PROVE FwdServed' /\ FwdLived'
  BY <1>11 DEF Leave, stopVars
<1>12. ASSUME NEW f \in Fwds, removeForward(f) PROVE FwdServed' /\ FwdLived'
  BY <1>12 DEF removeForward, stopVars
<1>13. ASSUME NEW f \in Fwds, ForwardCloses(f) PROVE FwdServed' /\ FwdLived'
  BY <1>13 DEF ForwardCloses, stopVars
<1>14. ASSUME NEW f \in Fwds, LoopDone(f) PROVE FwdServed' /\ FwdLived'
  BY <1>14 DEF LoopDone, stopVars
<1>15. ASSUME NEW f \in Fwds, Retarget(f) PROVE FwdServed' /\ FwdLived'
  BY <1>15 DEF Retarget, stopVars
<1>16. ASSUME NEW x \in Conns, ConnStep(x) PROVE FwdServed' /\ FwdLived'
  <2>1. ConnMoves(x)
    BY <1>16, ConnStepMoves
  <2>2. phase' = phase /\ \A y \in Conns : fwdConn'[y].on = fwdConn[y].on
    BY <2>1 DEF ConnMoves
  <2>3. \A y \in Conns : /\ fwdConn'[y].pc = "idle" <=> fwdConn[y].pc = "idle"
                         /\ fwdConn[y].pc = "gone" => fwdConn'[y].pc = "gone"
    BY <2>1 DEF ConnMoves
  <2>4. FwdLived' /\ \A y \in Conns : fwdConn'[y].on \in Fwds <=> fwdConn'[y].pc # "idle"
    BY <2>2, <2>3
  <2>5. ASSUME NEW g \in Fwds PROVE Active(g)' \subseteq Active(g)
    BY <2>2, <2>3
  <2>. QED
    BY <2>2, <2>4, <2>5
<1>17. ASSUME NEW a \in Callers, NEW f \in Fwds, StopForward(a, f) PROVE FwdServed' /\ FwdLived'
  BY <1>17 DEF StopForward, fwdVars
<1>18. ASSUME NEW a \in Callers, stopForward(a) PROVE FwdServed' /\ FwdLived'
  BY <1>18 DEF stopForward
<1>19. ASSUME NEW a \in Callers, StopClosesListener(a) PROVE FwdServed' /\ FwdLived'
  BY <1>19 DEF StopClosesListener
<1>20. ASSUME NEW a \in Callers, awaitDone(a) PROVE FwdServed' /\ FwdLived'
  BY <1>20 DEF awaitDone, fwdVars
<1>21. CASE stopAllForwards
  BY <1>21 DEF stopAllForwards, fwdVars
<1>22. CASE StopAllCancel
  BY <1>22 DEF StopAllCancel
<1>23. ASSUME NEW f \in Fwds, StopAllAwait(f) PROVE FwdServed' /\ FwdLived'
  BY <1>23 DEF StopAllAwait, fwdVars
<1>24. CASE RegistryCloses
  BY <1>24 DEF RegistryCloses, CloseAll, fwdVars
<1>25. CASE Exit
  BY <1>25 DEF Exit, forwardsVars, fwdVars, stopVars
<1>26. CASE UNCHANGED forwardsVars
  BY <1>26 DEF forwardsVars, fwdVars, stopVars
<1>. QED
  BY <1>1, <1>2, <1>3, <1>4, <1>5, <1>6, <1>7, <1>8, <1>9, <1>10, <1>11,
     <1>12, <1>13, <1>14, <1>15, <1>16, <1>17, <1>18, <1>19, <1>20, <1>21,
     <1>22, <1>23, <1>24, <1>25, <1>26
     DEF ForwardsNext, StartStep, LoopStep, StopStep, ShutStep

(* Only a loop that has reported nothing complains or closes, and so does  *)
(* a connection of one that still waits for it.                            *)
LEMMA FwdSaysStep ==
  FwdShapes /\ FwdServed /\ FwdSays /\ [ForwardsNext]_forwardsVars => FwdSays'
<1> SUFFICES ASSUME FwdShapes, FwdServed, FwdSays, [ForwardsNext]_forwardsVars
             PROVE  FwdSays'
    OBVIOUS
<1> USE DEF FwdShapes, FwdSays, Phases, Opening, Running
<1>a. \A f \in Fwds : events[f] \in Seq({"error", "close"}) /\ Len(events[f]) \in Nat
  BY LenProperties
<1>e. ASSUME NEW f \in Fwds, events' = Said(f, "error"), phase[f] \notin {"reported", "ended"},
             \A g \in Fwds : phase[g] \in {"reported", "ended"} => phase'[g] \in {"reported", "ended"}
      PROVE  FwdSays'
  <2> SUFFICES ASSUME NEW g \in Fwds, NEW i \in 1..Len(events'[g]), events'[g][i] = "close"
               PROVE  i = Len(events'[g]) /\ phase'[g] \in {"reported", "ended"}
      BY DEF FwdSays
  <2>1. \/ events'[g] = events[g]
        \/ g = f /\ i \in 1..Len(events[g]) /\ events'[g][i] = events[g][i]
        \/ g = f /\ i = Len(events'[g]) /\ events'[g][i] = "error"
    BY <1>e, SaidAtTheEnd
  <2>. QED
    BY <1>e, <1>a, <2>1
<1>c. ASSUME NEW f \in Fwds, ForwardCloses(f) PROVE FwdSays'
  <2> SUFFICES ASSUME NEW g \in Fwds, NEW i \in 1..Len(events'[g]), events'[g][i] = "close"
               PROVE  i = Len(events'[g]) /\ phase'[g] \in {"reported", "ended"}
      BY DEF FwdSays
  <2>1. events' = Said(f, "close") /\ phase[f] = "removed" /\ phase' = [phase EXCEPT ![f] = "reported"]
    BY <1>c DEF ForwardCloses
  <2>2. \/ events'[g] = events[g]
        \/ g = f /\ i \in 1..Len(events[g]) /\ events'[g][i] = events[g][i]
        \/ g = f /\ i = Len(events'[g]) /\ events'[g][i] = "close"
    BY <2>1, SaidAtTheEnd
  <2>. QED
    BY <1>a, <2>1, <2>2
<1>1. ASSUME NEW k \in Sessions, Connect(k) PROVE FwdSays'
  BY <1>1 DEF Connect, Add, fwdVars, stopVars
<1>2. ASSUME NEW k \in Sessions, Disconnect(k) PROVE FwdSays'
  BY <1>2 DEF Disconnect, Remove, fwdVars, stopVars
<1>3. ASSUME NEW k \in Sessions, CloseSession(k) PROVE FwdSays'
  BY <1>3 DEF CloseSession, CloseOne, fwdVars, stopVars
<1>4. ASSUME NEW f \in Fwds, NEW k \in Sessions, NEW p \in Ports, StartForward(f, k, p) PROVE FwdSays'
  BY <1>4 DEF StartForward, stopVars
<1>5. ASSUME NEW f \in Fwds, reserveForward(f) PROVE FwdSays'
  BY <1>5 DEF reserveForward, stopVars
<1>6. ASSUME NEW f \in Fwds, Listen(f) PROVE FwdSays'
  BY <1>6 DEF Listen, stopVars
<1>7. ASSUME NEW f \in Fwds, abandonForward(f) PROVE FwdSays'
  BY <1>7 DEF abandonForward, stopVars
<1>8. ASSUME NEW f \in Fwds, addForward(f) PROVE FwdSays'
  BY <1>8 DEF addForward, stopVars
<1>9. ASSUME NEW f \in Fwds, NEW x \in Conns, Accept(f, x) PROVE FwdSays'
  BY <1>9 DEF Accept, fwdVars, stopVars
<1>10. ASSUME NEW f \in Fwds, AcceptFails(f) PROVE FwdSays'
  <2>1. CASE events' = events
    BY <1>10, <2>1 DEF AcceptFails
  <2>2. CASE events' = Said(f, "error")
    BY <1>10, <1>e, <2>2 DEF AcceptFails
  <2>. QED
    BY <1>10, <2>1, <2>2 DEF AcceptFails
<1>11. ASSUME NEW f \in Fwds, Leave(f) PROVE FwdSays'
  BY <1>11 DEF Leave, stopVars
<1>12. ASSUME NEW f \in Fwds, removeForward(f) PROVE FwdSays'
  BY <1>12 DEF removeForward, stopVars
<1>13. ASSUME NEW f \in Fwds, ForwardCloses(f) PROVE FwdSays'
  BY <1>13, <1>c
<1>14. ASSUME NEW f \in Fwds, LoopDone(f) PROVE FwdSays'
  BY <1>14 DEF LoopDone, stopVars
<1>15. ASSUME NEW f \in Fwds, Retarget(f) PROVE FwdSays'
  BY <1>15 DEF Retarget, stopVars
<1>16. ASSUME NEW x \in Conns, ConnStep(x) PROVE FwdSays'
  <2>1. ConnMoves(x)
    BY <1>16, ConnStepMoves
  <2>2. fwdConn[x].on \in Fwds /\ phase[fwdConn[x].on] \notin {"reported", "ended"}
    BY <2>1 DEF ConnMoves, FwdServed, Active
  <2>3. CASE events' = events
    BY <2>1, <2>3 DEF ConnMoves
  <2>4. CASE events' = Said(fwdConn[x].on, "error")
    BY <1>e, <2>1, <2>2, <2>4 DEF ConnMoves
  <2>. QED
    BY <2>1, <2>3, <2>4 DEF ConnMoves
<1>17. ASSUME NEW a \in Callers, NEW f \in Fwds, StopForward(a, f) PROVE FwdSays'
  BY <1>17 DEF StopForward, fwdVars
<1>18. ASSUME NEW a \in Callers, stopForward(a) PROVE FwdSays'
  BY <1>18 DEF stopForward
<1>19. ASSUME NEW a \in Callers, StopClosesListener(a) PROVE FwdSays'
  BY <1>19 DEF StopClosesListener
<1>20. ASSUME NEW a \in Callers, awaitDone(a) PROVE FwdSays'
  BY <1>20 DEF awaitDone, fwdVars
<1>21. CASE stopAllForwards
  BY <1>21 DEF stopAllForwards, fwdVars
<1>22. CASE StopAllCancel
  BY <1>22 DEF StopAllCancel
<1>23. ASSUME NEW f \in Fwds, StopAllAwait(f) PROVE FwdSays'
  BY <1>23 DEF StopAllAwait, fwdVars
<1>24. CASE RegistryCloses
  BY <1>24 DEF RegistryCloses, CloseAll, fwdVars
<1>25. CASE Exit
  BY <1>25 DEF Exit, forwardsVars, fwdVars, stopVars
<1>26. CASE UNCHANGED forwardsVars
  BY <1>26 DEF forwardsVars, fwdVars, stopVars
<1>. QED
  BY <1>1, <1>2, <1>3, <1>4, <1>5, <1>6, <1>7, <1>8, <1>9, <1>10, <1>11,
     <1>12, <1>13, <1>14, <1>15, <1>16, <1>17, <1>18, <1>19, <1>20, <1>21,
     <1>22, <1>23, <1>24, <1>25, <1>26
     DEF ForwardsNext, StartStep, LoopStep, StopStep, ShutStep

(* A target only becomes newer, and both halves of it are read at once.    *)
LEMMA FwdDialsStep ==
  FwdShapes /\ FwdServed /\ FwdDials /\ [ForwardsNext]_forwardsVars => FwdDials'
<1> SUFFICES ASSUME FwdShapes, FwdServed, FwdDials, [ForwardsNext]_forwardsVars
             PROVE  FwdDials'
    OBVIOUS
<1>a. /\ \A x \in Conns : fwdConn[x].path \in Nat /\ fwdConn[x].since \in Nat
      /\ \A f \in Fwds : fwdTarget[f] \in Nat
  BY DEF FwdShapes, Connections
<1>b. \A x \in Conns : fwdConn[x].on \in Fwds <=> fwdConn[x].pc # "idle"
  BY DEF FwdServed
<1> USE DEF FwdDials
<1>1. ASSUME NEW k \in Sessions, Connect(k) PROVE FwdDials'
  BY <1>1 DEF Connect, Add, fwdVars, stopVars
<1>2. ASSUME NEW k \in Sessions, Disconnect(k) PROVE FwdDials'
  BY <1>2 DEF Disconnect, Remove, fwdVars, stopVars
<1>3. ASSUME NEW k \in Sessions, CloseSession(k) PROVE FwdDials'
  BY <1>3 DEF CloseSession, CloseOne, fwdVars, stopVars
<1>4. ASSUME NEW f \in Fwds, NEW k \in Sessions, NEW p \in Ports, StartForward(f, k, p) PROVE FwdDials'
  BY <1>4 DEF StartForward, stopVars
<1>5. ASSUME NEW f \in Fwds, reserveForward(f) PROVE FwdDials'
  BY <1>5 DEF reserveForward, stopVars
<1>6. ASSUME NEW f \in Fwds, Listen(f) PROVE FwdDials'
  BY <1>6 DEF Listen, stopVars
<1>7. ASSUME NEW f \in Fwds, abandonForward(f) PROVE FwdDials'
  BY <1>7 DEF abandonForward, stopVars
<1>8. ASSUME NEW f \in Fwds, addForward(f) PROVE FwdDials'
  BY <1>8 DEF addForward, stopVars
<1>9. ASSUME NEW f \in Fwds, NEW x \in Conns, Accept(f, x) PROVE FwdDials'
  <2>1. /\ \A y \in Conns \ {x} : fwdConn'[y] = fwdConn[y]
        /\ fwdConn'[x].pc = "accepted" /\ fwdConn'[x].on = f
        /\ fwdConn'[x].since = fwdTarget[f] /\ fwdTarget' = fwdTarget
    BY <1>9, AcceptMoves DEF Accept, fwdVars
  <2>. QED
    BY <1>a, <2>1
<1>10. ASSUME NEW f \in Fwds, AcceptFails(f) PROVE FwdDials'
  BY <1>10 DEF AcceptFails, stopVars
<1>11. ASSUME NEW f \in Fwds, Leave(f) PROVE FwdDials'
  BY <1>11 DEF Leave, stopVars
<1>12. ASSUME NEW f \in Fwds, removeForward(f) PROVE FwdDials'
  BY <1>12 DEF removeForward, stopVars
<1>13. ASSUME NEW f \in Fwds, ForwardCloses(f) PROVE FwdDials'
  BY <1>13 DEF ForwardCloses, stopVars
<1>14. ASSUME NEW f \in Fwds, LoopDone(f) PROVE FwdDials'
  BY <1>14 DEF LoopDone, stopVars
<1>15. ASSUME NEW f \in Fwds, Retarget(f) PROVE FwdDials'
  <2>1. \A g \in Fwds : fwdTarget'[g] >= fwdTarget[g] /\ fwdTarget'[g] \in Nat
    BY <1>15, <1>a DEF Retarget, FwdShapes
  <2>. QED
    BY <1>15, <1>a, <1>b, <2>1 DEF Retarget
<1>16. ASSUME NEW x \in Conns, ConnStep(x) PROVE FwdDials'
  <2>1. ConnMoves(x)
    BY <1>16, ConnStepMoves
  <2>. QED
    BY <1>a, <1>b, <2>1 DEF ConnMoves
<1>17. ASSUME NEW a \in Callers, NEW f \in Fwds, StopForward(a, f) PROVE FwdDials'
  BY <1>17 DEF StopForward, fwdVars
<1>18. ASSUME NEW a \in Callers, stopForward(a) PROVE FwdDials'
  BY <1>18 DEF stopForward
<1>19. ASSUME NEW a \in Callers, StopClosesListener(a) PROVE FwdDials'
  BY <1>19 DEF StopClosesListener
<1>20. ASSUME NEW a \in Callers, awaitDone(a) PROVE FwdDials'
  BY <1>20 DEF awaitDone, fwdVars
<1>21. CASE stopAllForwards
  BY <1>21 DEF stopAllForwards, fwdVars
<1>22. CASE StopAllCancel
  BY <1>22 DEF StopAllCancel
<1>23. ASSUME NEW f \in Fwds, StopAllAwait(f) PROVE FwdDials'
  BY <1>23 DEF StopAllAwait, fwdVars
<1>24. CASE RegistryCloses
  BY <1>24 DEF RegistryCloses, CloseAll, fwdVars
<1>25. CASE Exit
  BY <1>25 DEF Exit, forwardsVars, fwdVars, stopVars
<1>26. CASE UNCHANGED forwardsVars
  BY <1>26 DEF forwardsVars, fwdVars, stopVars
<1>. QED
  BY <1>1, <1>2, <1>3, <1>4, <1>5, <1>6, <1>7, <1>8, <1>9, <1>10, <1>11,
     <1>12, <1>13, <1>14, <1>15, <1>16, <1>17, <1>18, <1>19, <1>20, <1>21,
     <1>22, <1>23, <1>24, <1>25, <1>26
     DEF ForwardsNext, StartStep, LoopStep, StopStep, ShutStep

(* The invariant holds of every behaviour. *)
THEOREM ForwardsHold == ForwardsSpec => []ForwardsInv
<1>1. ForwardsInv /\ [ForwardsNext]_forwardsVars => ForwardsInv'
  BY FwdShapesStep, FwdListedStep, FwdServedStep, FwdSaysStep, FwdDialsStep DEF ForwardsInv
<1>. QED
  BY ForwardsStart, <1>1, PTL DEF ForwardsSpec

(* The close event is the last word of a forward, for any number of        *)
(* forwards and connections.                                               *)
THEOREM CloseLast == ForwardsSpec => []CloseIsLast
<1>1. ForwardsInv => CloseIsLast
  BY DEF ForwardsInv, FwdSays, FwdServed, CloseIsLast
<1>. QED
  BY ForwardsHold, <1>1, PTL

(* A connection dials the path and announces the port of one target, no    *)
(* older than the one the forward had when it was accepted.                *)
THEOREM DialsOne == ForwardsSpec => []DialsOneTarget
<1>1. ForwardsInv => DialsOneTarget
  BY DEF ForwardsInv, FwdDials, DialsOneTarget
<1>. QED
  BY ForwardsHold, <1>1, PTL

(* However a StopForward call ends its port is free; one that is answered  *)
(* has seen the forward and all its connections go.                        *)
THEOREM StopFrees == ForwardsSpec => []StopFreesPort
<1>1. ForwardsInv => StopFreesPort
  BY DEF ForwardsInv, FwdAimed, FwdListed, FwdServed, Running, StopFreesPort
<1>. QED
  BY ForwardsHold, <1>1, PTL
=============================================================================
