----------------------------- MODULE PortForwards -----------------------------
(***************************************************************************)
(* One saved port forward of one cluster: the record PortForwardStore      *)
(* shows, the sessions PortForwardService keeps for it, and the listener   *)
(* each of them has in Go.                                                 *)
(*                                                                         *)
(* A member of Launches is one call of PortForwardStore.launch and the     *)
(* PortForwardSession it makes; pc says which await it stands at.  What    *)
(* runs between two awaits is one step.                                    *)
(*                                                                         *)
(* The cluster is live from the answer of its dial on, and announced only  *)
(* when its scope has been read as well, if it ever is.  A connect over a  *)
(* live cluster closes its session first and announces no disconnect.      *)
(* Connects and disconnects of the cluster do not overlap.                 *)
(***************************************************************************)
EXTENDS Naturals, FiniteSets

CONSTANTS
  MaxLaunches,  \* bound: calls of launch
  Modes,        \* the modes of PortForwardRestoreModeCatalog a record may have
  None          \* no launch

ASSUME Bounds == MaxLaunches \in Nat \ {0}
ASSUME Restores == Modes \subseteq {"manual", "onConnect", "connectOnStart"}

Launches == 1..MaxLaunches

ASSUME NoneApart == None \notin Launches

VARIABLES
  record,    \* PortForwardStore.forwards, the one record: [present, status, byUser, mode]
  boot,      \* PortForwardStore.loaded and loading, and the restore after them
  conn,      \* the cluster: at rest, or which await of its connect or disconnect runs
  shows,     \* ClusterConnectionStore.connections: "nothing", the "live" one or "another"
  joinable,  \* the connect in flight is one of ClusterEntryService.connecting
  drained,   \* the sessions the registry stopped and the disconnect waits for
  target,    \* whether the forward leads to a pod or to a service
  launch,    \* the calls of launch
  current,   \* PortForwardService.sessions, at the id of the forward
  session,   \* PortForwardSession and its listener in Go, one for each launch
  edit,      \* PortForwardStore.update in flight: "none", "ports" or a new mode
  starter,   \* the calls of start that wait: one "asked", and those that "joined" a connect
  removal,   \* PortForwardStore.remove in flight: [on, waits]
  crossed    \* history: a launch began while another, a removal or an abandon was under way

cluster == <<conn, shows, joinable, drained>>
calls == <<edit, starter, removal>>
vars == <<record, boot, cluster, target, launch, current, session, calls, crossed>>

Listening == {"active", "reconnecting"}       \* PortForwardStatusCatalog.isListening
isRunning(status) == status = "starting" \/ status \in Listening
restoresOnConnect(mode) == mode # "manual"
restingStatus(r) == IF ~r.byUser /\ restoresOnConnect(r.mode) THEN "waiting" ELSE "stopped"

Init ==
  /\ record \in [present : {FALSE}, status : {"stopped"}, byUser : BOOLEAN, mode : Modes]
  /\ boot = "loading"
  /\ conn \in {"closed", "open"} /\ drained = {}
  /\ shows = (IF conn = "open" THEN "live" ELSE "nothing") /\ joinable = FALSE
  /\ target \in {"pods", "services"}
  /\ launch = [l \in Launches |-> [pc |-> "idle", waits |-> None, lost |-> FALSE]]
  /\ current = None
  /\ session = [l \in Launches |-> [stopped |-> FALSE, go |-> "none", bye |-> FALSE, held |-> FALSE,
                                    renewed |-> FALSE, status |-> "starting", check |-> "idle"]]
  /\ edit = "none"
  /\ starter = {}
  /\ removal = [on |-> FALSE, waits |-> None]
  /\ crossed = FALSE

isConnecting == conn \in {"connecting", "scoping", "redraining", "reclosing"}
isConnected == conn \notin {"closed", "connecting"}       \* ClusterConnectionService.live
Leaving == conn \in {"draining", "closing"}               \* a disconnect, which no connect follows
SessionGone == conn \in {"closing", "reclosing"}          \* Go has closed what live still names
InFlight(l) == launch[l].pc \notin {"idle", "done"}
Abandoning(l) == session[l].check = "abandoning"
Quiet == ~removal.on /\ \A l \in Launches : ~InFlight(l) /\ ~Abandoning(l)
Fresh(l) == launch[l].pc = "idle" /\ \A k \in Launches : k < l => launch[k].pc # "idle"
Room  == \E l \in Launches : launch[l].pc = "idle"

Shows(status) == record' = [record EXCEPT !.status = status]

(* stop of a session: it hears no more, leaves the registry, and Go is asked;
   its status is read no more. *)
Stopped(s, l) ==
  IF l = None THEN s
  ELSE IF s[l].stopped THEN [s EXCEPT ![l].held = FALSE]
  ELSE [s EXCEPT ![l] = [@ EXCEPT !.stopped = TRUE, !.held = FALSE, !.bye = FALSE, !.go = "closing", !.status = "starting"]]

(* What an await of stop waits for: nothing, if the session was stopped before. *)
StopAwaited(l) == IF l = None THEN None ELSE IF session[l].stopped THEN None ELSE l
Over(l) == l # None => session[l].go = "closed"

serviceStop == current' = None /\ session' = Stopped(session, current)

(* sink.onForwardChanged: a record at rest is not told. *)
Told(r, status) == IF ~r.present \/ r.status \in {"stopped", "waiting"} THEN r ELSE [r EXCEPT !.status = status]

-----------------------------------------------------------------------------
(* A launch. *)

(* launch up to its first await: what runs is stopped first. *)
LaunchBegins(l, r) ==
  /\ Fresh(l)
  /\ record' = [r EXCEPT !.status = "starting"]
  /\ serviceStop
  /\ crossed' = (crossed \/ ~Quiet)
  /\ launch' = [launch EXCEPT ![l].pc = IF StopAwaited(current) = None THEN "resolving" ELSE "clearing",
                              ![l].waits = StopAwaited(current), ![l].lost = SessionGone]

LaunchFails(l) ==
  /\ launch' = [launch EXCEPT ![l].pc = "done", ![l].waits = None, ![l].lost = FALSE]
  /\ record' = IF record.present /\ record.status = "starting" THEN [record EXCEPT !.status = "error"] ELSE record

(* What ran is stopped: look up the cluster's session, ask for the backend. *)
Cleared(l) ==
  /\ launch[l].pc = "clearing" /\ Over(launch[l].waits)
  /\ IF isConnected
     THEN launch' = [launch EXCEPT ![l].pc = "resolving", ![l].waits = None, ![l].lost = SessionGone]
          /\ UNCHANGED record
     ELSE LaunchFails(l)
  /\ UNCHANGED <<boot, cluster, target, current, session, calls, crossed>>

(* The pod behind the forward is found, and Go is asked for a listener. *)
Resolved(l) ==
  /\ launch[l].pc = "resolving" /\ ~launch[l].lost
  /\ launch' = [launch EXCEPT ![l].pc = "listening"]
  /\ session' = [session EXCEPT ![l].go = "asked"]
  /\ UNCHANGED <<record, boot, cluster, target, current, calls, crossed>>

Unresolved(l) ==
  /\ launch[l].pc = "resolving"
  /\ LaunchFails(l)
  /\ UNCHANGED <<boot, cluster, target, current, session, calls, crossed>>

(* Go listens, on the wanted port, on the last one or on a free one. *)
GoListens(l) ==
  /\ session[l].go = "asked" /\ ~launch[l].lost
  /\ session' = [session EXCEPT ![l].go = "open"]
  /\ UNCHANGED <<record, boot, cluster, target, launch, current, calls, crossed>>

Refused(l) ==
  /\ launch[l].pc = "listening" /\ session[l].go = "asked"
  /\ session' = [session EXCEPT ![l].go = "closed"]
  /\ LaunchFails(l)
  /\ UNCHANGED <<boot, cluster, target, current, calls, crossed>>

(* Mutant: a launch that was overtaken leaves its listener. *)
LeftBehind(l, r, s, c) ==
  /\ record' = IF r.present /\ r.status = "starting" THEN [r EXCEPT !.status = "active"] ELSE r
  /\ session' = s
  /\ current' = IF r.present /\ r.status = "starting" THEN c ELSE None

(* What the store does with a service.start that answered. *)
Shown(l, r, s, c) ==
  IF r.present /\ r.status = "starting"
  THEN record' = [r EXCEPT !.status = "active"] /\ session' = s /\ current' = c
  ELSE record' = r /\ session' = Stopped(s, c) /\ current' = None

(* The listener is the forward's: the registry holds it from here on. *)
Held(s, l) == [s EXCEPT ![l].held = TRUE]

(* The answer of StartForward: a close heard before it is replayed and ends
   the session; else the session takes the place of the one before it. *)
Answered(l) ==
  /\ launch[l].pc = "listening" /\ session[l].go \in {"open", "closed"}
  /\ IF session[l].bye
     THEN LET told == Told(record, "error") IN
          /\ launch' = [launch EXCEPT ![l].pc = "done", ![l].lost = FALSE]
          /\ record' = IF told.present /\ told.status = "starting" THEN [told EXCEPT !.status = "error"] ELSE told
          /\ session' = [session EXCEPT ![l].stopped = TRUE, ![l].bye = FALSE, ![l].status = "starting"]
          /\ UNCHANGED current
     ELSE LET attached == [session EXCEPT ![l].status = "active"] IN
          IF StopAwaited(current) = None
          THEN /\ launch' = [launch EXCEPT ![l].pc = "done", ![l].lost = FALSE]
               /\ Shown(l, record, Held(Stopped(attached, current), l), l)
          ELSE /\ launch' = [launch EXCEPT ![l].pc = "replacing", ![l].waits = current, ![l].lost = FALSE]
               /\ session' = Stopped(attached, current)
               /\ current' = l
               /\ UNCHANGED record
  /\ UNCHANGED <<boot, cluster, target, calls, crossed>>

(* The session that was replaced is stopped. *)
Replaced(l) ==
  /\ launch[l].pc = "replacing" /\ Over(launch[l].waits)
  /\ launch' = [launch EXCEPT ![l].pc = "done", ![l].waits = None]
  /\ Shown(l, record, Held(session, l), current)
  /\ UNCHANGED <<boot, cluster, target, calls, crossed>>

-----------------------------------------------------------------------------
(* What the user does. *)

(* Mutant: load leaves the start to the event of the connect. *)
LoadedOnly ==
  /\ boot = "loading" /\ boot' = "restoring"
  /\ record' = [record EXCEPT !.present = TRUE, !.status = restingStatus(record)]
  /\ UNCHANGED <<launch, current, session, cluster, target, calls, crossed>>

(* load: the record comes from the disk, and a forward that waits starts if its
   cluster was connected meanwhile. *)
Loaded ==
  /\ boot = "loading"
  /\ LET r == [record EXCEPT !.present = TRUE, !.status = restingStatus(record)] IN
     IF r.status = "waiting" /\ isConnected
     THEN boot' = "launching" /\ \E l \in Launches : LaunchBegins(l, r)
     ELSE boot' = "restoring" /\ record' = r /\ UNCHANGED <<launch, current, session, crossed>>
  /\ UNCHANGED <<cluster, target, calls>>

LoadFails ==
  /\ boot = "loading" /\ boot' = "loaded"
  /\ UNCHANGED <<record, cluster, target, launch, current, session, calls, crossed>>

(* A connect begins: what is live is closed first. *)
drain(next, again) ==
  /\ conn' = next /\ drained' = {l \in Launches : session[l].held /\ ~session[l].stopped}
  /\ session' = [l \in Launches |->
       IF session[l].held THEN [Stopped(session, l)[l] EXCEPT !.renewed = again] ELSE session[l]]

connectBegins(joins) ==
  /\ conn \in {"closed", "open"} /\ Room
  /\ joinable' = joins /\ UNCHANGED shows
  /\ IF conn = "open" THEN drain("redraining", TRUE)
     ELSE conn' = "connecting" /\ UNCHANGED <<drained, session>>

(* restore, once load is over: a forward that is to connect its cluster does. *)
Restored ==
  /\ boot = "restoring" \/ (boot = "launching" /\ launch[1].pc = "done")
  /\ boot' = "loaded"
  /\ IF /\ record.present /\ record.mode = "connectOnStart" /\ ~record.byUser
        /\ conn = "closed" /\ shows = "nothing" /\ Room
     THEN connectBegins(TRUE) ELSE UNCHANGED <<cluster, session>>
  /\ UNCHANGED <<record, target, launch, current, calls, crossed>>

(* start of a forward that does not run, and create, which ends in one; a
   forward created after another was removed has an id of its own.  Bound: one
   start at a time is on its way to the connect. *)
Starts(r) ==
  IF isConnected
  THEN (\E l \in Launches : LaunchBegins(l, r)) /\ UNCHANGED calls
  ELSE /\ "asked" \notin starter /\ starter' = starter \cup {"asked"}
       /\ record' = [r EXCEPT !.status = "waiting"]
       /\ UNCHANGED <<launch, current, session, edit, removal, crossed>>

start ==
  /\ record.present /\ ~isRunning(record.status) /\ Room
  /\ Starts([record EXCEPT !.byUser = FALSE])
  /\ UNCHANGED <<boot, cluster, target>>

create(mode) ==
  /\ boot # "loading" /\ ~record.present /\ Room /\ \A l \in Launches : launch[l].pc = "idle"
  /\ Starts([present |-> TRUE, status |-> "stopped", byUser |-> FALSE, mode |-> mode])
  /\ UNCHANGED <<boot, cluster, target>>

(* A start waits for a cluster that is still not there: it says so. *)
GivesUp == IF record.present /\ record.status = "waiting" THEN Shows("error") ELSE UNCHANGED record

(* The catalog, the adoption and the scope have answered a start.  Its cluster is
   shown, or not known, or a screen connects it, and it returns at once; ... *)
StartReturns ==
  /\ "asked" \in starter /\ starter' = starter \ {"asked"}
  /\ IF isConnected THEN UNCHANGED record ELSE GivesUp
  /\ UNCHANGED <<boot, cluster, target, launch, current, session, edit, removal, crossed>>

(* ... or it joins the connect another start or the entry of the cluster began, ... *)
StartJoins ==
  /\ "asked" \in starter /\ starter' = {"joined"}
  /\ shows = "nothing" /\ isConnecting /\ joinable
  /\ UNCHANGED <<record, boot, cluster, target, launch, current, session, edit, removal, crossed>>

(* ... or it begins one. *)
StartDials ==
  /\ "asked" \in starter /\ starter' = {"joined"}
  /\ shows = "nothing" /\ connectBegins(TRUE)
  /\ UNCHANGED <<record, boot, target, launch, current, edit, removal, crossed>>

stop ==
  /\ record.present
  /\ record' = [record EXCEPT !.status = "stopped", !.byUser = TRUE]
  /\ serviceStop
  /\ UNCHANGED <<boot, cluster, target, launch, calls, crossed>>

remove ==
  /\ record.present /\ ~removal.on
  /\ Shows("stopped")
  /\ serviceStop
  /\ removal' = [on |-> TRUE, waits |-> StopAwaited(current)]
  /\ UNCHANGED <<boot, cluster, target, launch, edit, starter, crossed>>

(* Both the stop and the file have answered, or the file could not be written. *)
Removed ==
  /\ removal.on /\ Over(removal.waits)
  /\ removal' = [on |-> FALSE, waits |-> None]
  /\ \/ record' = [present |-> FALSE, status |-> "stopped", byUser |-> FALSE, mode |-> record.mode]
     \/ UNCHANGED record
  /\ UNCHANGED <<boot, cluster, target, launch, current, session, edit, starter, crossed>>

(* update: the record is read and written, then shown as it reads by then. *)
update(change) ==
  /\ record.present /\ edit = "none" /\ Room
  /\ edit' = change
  /\ UNCHANGED <<record, boot, cluster, target, launch, current, session, starter, removal, crossed>>

Updated ==
  /\ edit # "none" /\ edit' = "none"
  /\ IF record.present /\ edit = "ports" /\ isRunning(record.status)
     THEN \E l \in Launches : LaunchBegins(l, record)
     ELSE /\ record' = IF ~record.present \/ edit = "ports" THEN record
                      ELSE [record EXCEPT !.mode = edit,
                              !.status = IF @ = "waiting" /\ ~restoresOnConnect(edit) THEN "stopped" ELSE @]
          /\ UNCHANGED <<launch, current, session, crossed>>
  /\ UNCHANGED <<boot, cluster, target, starter, removal>>

(* The record could not be read or written. *)
UpdateFails ==
  /\ edit # "none" /\ edit' = "none"
  /\ UNCHANGED <<record, boot, cluster, target, launch, current, session, starter, removal, crossed>>

-----------------------------------------------------------------------------
(* The cluster. *)

(* Reconnect, or the screen of the clusters. *)
Connects ==
  /\ connectBegins(FALSE)
  /\ UNCHANGED <<record, boot, target, launch, current, calls, crossed>>

(* The cluster is entered, if it is not shown. *)
Enters ==
  /\ shows = "nothing" /\ connectBegins(TRUE)
  /\ UNCHANGED <<record, boot, target, launch, current, calls, crossed>>

(* The session is there, and its version was asked for: the cluster is live. *)
Dialed ==
  /\ conn = "connecting" /\ conn' = "scoping"
  /\ UNCHANGED <<record, boot, shows, joinable, drained, target, launch, current, session, calls, crossed>>

connectEnds(next) ==
  /\ conn' = next /\ joinable' = FALSE /\ starter' = starter \ {"joined"}
  /\ UNCHANGED <<boot, drained, target, edit, removal>>

(* Its scope is read: the connect is announced, and a forward that waits for it
   starts; while the records are being read there is none. *)
ScopeRead ==
  /\ conn = "scoping" /\ connectEnds("open")
  /\ shows' = "live"
  /\ IF record.present /\ record.status = "waiting"
     THEN \E l \in Launches : LaunchBegins(l, record)
     ELSE UNCHANGED <<record, launch, current, session, crossed>>

(* It cannot be read: nothing is announced, though the cluster is live. *)
ScopeFails ==
  /\ conn = "scoping" /\ connectEnds("open")
  /\ UNCHANGED <<record, shows, launch, current, session, crossed>>

(* Mutant: whatever became of the forward meanwhile. *)
UnreachedRegardless ==
  /\ conn = "connecting" /\ connectEnds("closed")
  /\ IF "joined" \in starter /\ record.present THEN Shows("error") ELSE UNCHANGED record
  /\ UNCHANGED <<shows, launch, current, session, crossed>>

(* The cluster cannot be reached: the start that waits for it says so. *)
Unreached ==
  /\ conn = "connecting" /\ connectEnds("closed")
  /\ IF "joined" \in starter THEN GivesUp ELSE UNCHANGED record
  /\ UNCHANGED <<shows, launch, current, session, crossed>>

(* disconnect: the registry stops the session it holds, ... *)
Drains ==
  /\ conn = "open" /\ shows # "nothing"
  /\ drain("draining", FALSE)
  /\ UNCHANGED <<record, boot, shows, joinable, target, launch, current, calls, crossed>>

(* ... Go closes its session and every listener that is left on it, ... *)
GoCloses(s) == IF s.go = "open" THEN [s EXCEPT !.go = "closed", !.bye = ~s.stopped] ELSE s

GoDisconnects ==
  /\ conn \in {"draining", "redraining"} /\ \A l \in drained : Over(l)
  /\ conn' = (IF conn = "draining" THEN "closing" ELSE "reclosing") /\ drained' = {}
  /\ session' = [l \in Launches |-> GoCloses(session[l])]
  /\ launch' = [l \in Launches |-> [launch[l] EXCEPT !.lost = @ \/ launch[l].pc \in {"resolving", "listening"}]]
  /\ UNCHANGED <<record, boot, shows, joinable, target, current, calls, crossed>>

(* ... and the store shows the forward at rest and stops what is left. *)
Disconnected ==
  /\ conn = "closing"
  /\ conn' = "closed" /\ shows' = "nothing"
  /\ record' = IF record.present /\ record.status # "stopped"
               THEN [record EXCEPT !.status = restingStatus(record)] ELSE record
  /\ serviceStop
  /\ UNCHANGED <<boot, joinable, drained, target, launch, calls, crossed>>

(* The old session of a connect is closed: the dial begins, and nothing is said. *)
Reclosed ==
  /\ conn = "reclosing"
  /\ conn' = "connecting" /\ shows' = IF shows = "live" THEN "another" ELSE shows
  /\ UNCHANGED <<record, boot, joinable, drained, target, launch, current, session, calls, crossed>>

-----------------------------------------------------------------------------
(* The session and its pod. *)

StopAnswered(l) ==
  /\ session[l].go = "closing"
  /\ session' = [session EXCEPT ![l].go = "closed"]
  /\ UNCHANGED <<record, boot, cluster, target, launch, current, calls, crossed>>

(* The listener breaks, and Go says so. *)
GoFails(l) ==
  /\ session[l].go = "open"
  /\ session' = [session EXCEPT ![l] = GoCloses(@)]
  /\ UNCHANGED <<record, boot, cluster, target, launch, current, calls, crossed>>

(* onSessionClosed. *)
Closed(l) ==
  /\ session[l].bye /\ launch[l].pc # "listening"
  /\ session' = [session EXCEPT ![l] = [@ EXCEPT !.stopped = TRUE, !.bye = FALSE, !.held = FALSE, !.status = "starting"]]
  /\ current' = IF current = l THEN None ELSE current
  /\ record' = Told(record, "error")
  /\ UNCHANGED <<boot, cluster, target, launch, calls, crossed>>

Checks(l, check) == session' = [session EXCEPT ![l].check = check]

(* recheck, on the timer or when a connection failed. *)
recheck(l) ==
  /\ current = l /\ ~session[l].stopped /\ session[l].check = "idle"
  /\ Checks(l, "probing")
  /\ UNCHANGED <<record, boot, cluster, target, launch, current, calls, crossed>>

(* update of a session: one that was stopped says nothing. *)
Says(l, status) ==
  IF session[l].stopped
  THEN Checks(l, "idle") /\ UNCHANGED record
  ELSE /\ session' = [session EXCEPT ![l].check = "idle", ![l].status = status]
       /\ record' = Told(record, status)

PodServes(l) ==
  /\ session[l].check = "probing"
  /\ IF session[l].status = "active" THEN Checks(l, "idle") /\ UNCHANGED record ELSE Says(l, "active")
  /\ UNCHANGED <<boot, cluster, target, launch, current, calls, crossed>>

(* The probe, the backend or the retarget failed: the next tick asks again. *)
CheckFails(l) ==
  /\ session[l].check \in {"probing", "moving"}
  /\ Checks(l, "idle")
  /\ UNCHANGED <<record, boot, cluster, target, launch, current, calls, crossed>>

(* The pod is gone: a forward to a pod is given up, ... *)
PodGone(l) ==
  /\ session[l].check = "probing"
  /\ IF session[l].stopped THEN Checks(l, "idle") /\ UNCHANGED current
     ELSE IF target = "services" THEN Checks(l, "resolving") /\ UNCHANGED current
     ELSE /\ current' = IF current = l THEN None ELSE current
          /\ session' = [Stopped(session, l) EXCEPT ![l].check = "abandoning"]
  /\ UNCHANGED <<record, boot, cluster, target, launch, calls, crossed>>

Abandoned(l) ==
  /\ session[l].check = "abandoning" /\ Over(l)
  /\ Checks(l, "idle")
  /\ record' = Told(record, "error")
  /\ UNCHANGED <<boot, cluster, target, launch, current, calls, crossed>>

(* ... one to a service moves to another pod, if there is one. *)
NoBackend(l) ==
  /\ session[l].check = "resolving"
  /\ Says(l, "reconnecting")
  /\ UNCHANGED <<boot, cluster, target, launch, current, calls, crossed>>

Backend(l) ==
  /\ session[l].check = "resolving"
  /\ Checks(l, IF session[l].stopped THEN "idle" ELSE "moving")
  /\ UNCHANGED <<record, boot, cluster, target, launch, current, calls, crossed>>

(* Mutant: a move is told though the forward was stopped meanwhile. *)
MovedRegardless(l) ==
  /\ session[l].check = "moving"
  /\ session' = [session EXCEPT ![l].check = "idle", ![l].status = "active"]
  /\ record' = Told(record, "active")
  /\ UNCHANGED <<boot, cluster, target, launch, current, calls, crossed>>

Moved(l) ==
  /\ session[l].check = "moving"
  /\ Says(l, "active")
  /\ UNCHANGED <<boot, cluster, target, launch, current, calls, crossed>>

-----------------------------------------------------------------------------
Next ==
  \/ Loaded \/ LoadFails \/ start \/ stop \/ remove \/ Removed \/ Updated \/ UpdateFails
  \/ \E mode \in Modes : create(mode)
  \/ \E change \in {"ports"} \cup Modes : update(change)
  \/ Restored \/ StartReturns \/ StartJoins \/ StartDials
  \/ Connects \/ Enters \/ Dialed \/ ScopeRead \/ ScopeFails \/ Unreached
  \/ Drains \/ GoDisconnects \/ Disconnected \/ Reclosed
  \/ \E l \in Launches :
       \/ Cleared(l) \/ Resolved(l) \/ Unresolved(l) \/ GoListens(l) \/ Refused(l) \/ Answered(l) \/ Replaced(l)
       \/ StopAnswered(l) \/ GoFails(l) \/ Closed(l)
       \/ recheck(l) \/ PodServes(l) \/ CheckFails(l) \/ PodGone(l) \/ Abandoned(l)
       \/ NoBackend(l) \/ Backend(l) \/ Moved(l)

Spec == Init /\ [][Next]_vars

-----------------------------------------------------------------------------
(* Properties. *)

(* Every variable keeps its type. *)
Statuses == {"starting", "active", "reconnecting", "stopped", "waiting", "error"}
Pcs      == {"idle", "clearing", "resolving", "listening", "replacing", "done"}
GoStates == {"none", "asked", "open", "closing", "closed"}
Rechecks == {"idle", "probing", "resolving", "moving", "abandoning"}
Records  == [present : BOOLEAN, status : Statuses, byUser : BOOLEAN, mode : Modes]
Calls    == [pc : Pcs, waits : Launches \cup {None}, lost : BOOLEAN]
SessionRecords == [stopped : BOOLEAN, go : GoStates, bye : BOOLEAN, held : BOOLEAN, renewed : BOOLEAN,
                   status : Statuses, check : Rechecks]
ConnStates == {"closed", "connecting", "scoping", "open", "draining", "closing", "redraining", "reclosing"}
TypeOK ==
  /\ record \in Records /\ boot \in {"loading", "launching", "restoring", "loaded"}
  /\ conn \in ConnStates /\ drained \subseteq Launches
  /\ shows \in {"nothing", "another", "live"} /\ joinable \in BOOLEAN
  /\ target \in {"pods", "services"}
  /\ launch \in [Launches -> Calls]
  /\ current \in Launches \cup {None}
  /\ session \in [Launches -> SessionRecords]
  /\ edit \in {"none", "ports"} \cup Modes /\ starter \subseteq {"asked", "joined"}
  /\ removal \in [on : BOOLEAN, waits : Launches \cup {None}]
  /\ crossed \in BOOLEAN

(* What the user stopped stays stopped until the user starts it: no connect,
   disconnect, failed start, late report or answer of a launch changes what it
   shows (PortForwardStore start, onForwardChanged, onClusterDisconnected). *)
StopHolds == record.present /\ record.byUser => record.status = "stopped"

(* No forward waits for a cluster whose connect was announced, however the    *)
(* reading of the records and the awaits of a connect or a reconnect          *)
(* interleave (PortForwardStore load, onClusterConnected): nothing would start *)
(* it any more.  A cluster whose scope could not be read is live without it.   *)
WaitsForCluster == record.present /\ record.status = "waiting" => ~(isConnected /\ shows = "live")

(* "Stopped, removed or disconnected while it was opening: the listener it got
   is nobody's" (PortForwardStore launch) and is closed: once a launch is over
   its listener is open only as that of the session the service and the
   registry hold, whom a stop, a disconnect or the exit reaches. *)
NobodysListener ==
  \A l \in Launches : launch[l].pc = "done" /\ session[l].go = "open" => current = l /\ session[l].held

(* Between calls a forward that listens reads so, and one that reads so       *)
(* listens, or its session is the one a reconnect stopped; while the cluster   *)
(* is being disconnected it still shows what was.  A launch that began while   *)
(* another, a removal or an abandon was under way is excepted                  *)
(* (PortForwardStore launch, onForwardChanged, onClusterDisconnected).         *)
Listens == current # None /\ ~session[current].stopped
Renewed == current # None /\ session[current].renewed
Reads   == record.present /\ record.status \in Listening
ShownNow == Quiet /\ ~Leaving => (Listens => Reads) /\ (Reads => Listens \/ Renewed)

ShownAsItIs == ~crossed => ShownNow
===============================================================================
