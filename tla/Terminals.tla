------------------------------ MODULE Terminals ------------------------------
(***************************************************************************)
(* The terminals of one cluster: the views of TerminalStore, the sessions  *)
(* TerminalService keeps for them, the channel or process behind each in   *)
(* Go, and the pods NodeShellService creates and sweeps.                   *)
(*                                                                         *)
(* A member of Attempts is one call of openExec, openNodeShell or          *)
(* openLocalShell and the TerminalSession it makes; pc says which await it *)
(* stands at.  What runs between two awaits is one step.                   *)
(***************************************************************************)
EXTENDS Naturals, FiniteSets

CONSTANTS
  Keys,         \* the tabs of the dock
  Kinds,        \* "exec", "node", "local"
  MaxAttempts,  \* bound: sessions begun
  None          \* no session

ASSUME KindsKnown == Kinds \subseteq {"exec", "node", "local"}
ASSUME Bounds == MaxAttempts \in Nat

Attempts == 1..MaxAttempts

ASSUME NoneApart == None \notin Attempts

VARIABLES
  conn,     \* the cluster: "open", "draining", "closed"
  drained,  \* the sessions the registry stopped and the disconnect waits for
  view,     \* TerminalStore.views: [present, state]
  current,  \* TerminalService.sessions
  nodePods, \* TerminalService.nodePods
  session,  \* TerminalSession
  pod,      \* the cluster: the pod each node shell created
  crossed,  \* history: a session began while another of its tab was under way
  raced,    \* history: pods whose shell was stopped, or gave up, before their creation was answered
  unlisted  \* history: pods a sweep may not have been told to keep

vars == <<conn, drained, view, current, nodePods, session, pod, crossed, raced, unlisted>>

Unbegun == [key |-> None, kind |-> "none", pc |-> "idle", disposed |-> FALSE, held |-> FALSE, attached |-> FALSE,
            link |-> "none", bye |-> FALSE, early |-> FALSE, cleanup |-> FALSE, undo |-> "none", pods |-> {}]

Init ==
  /\ conn = "open" /\ drained = {}
  /\ view = [k \in Keys |-> [present |-> FALSE, state |-> "starting"]]
  /\ current = [k \in Keys |-> None]
  /\ nodePods = [k \in Keys |-> None]
  /\ session = [a \in Attempts |-> Unbegun]
  /\ pod = [a \in Attempts |-> "none"]
  /\ crossed = FALSE
  /\ raced = {}
  /\ unlisted = {}

Fresh(a)    == session[a].pc = "idle" /\ \A b \in Attempts : b < a => session[b].pc # "idle"
Running(a)  == session[a].pc \notin {"idle", "done"}
Stopping(a) == session[a].link = "closing" \/ session[a].undo = "queued"
AtRest      == \A a \in Attempts : ~Running(a) /\ ~Stopping(a)

(* A cleanup no channel is waited for is run before anything else. *)
Settled == \A a \in Attempts : session[a].undo = "queued" => session[a].link # "none"

(* stop of a session: it leaves the registry, hears no more, closes what it is
   attached to and, after that, removes its pod. *)
Halted(s) ==
  [s EXCEPT !.disposed = TRUE, !.held = FALSE, !.attached = FALSE, !.bye = s.bye /\ ~s.attached, !.cleanup = FALSE,
            !.link = IF @ = "open" /\ s.attached THEN "closing" ELSE @,
            !.undo = IF s.cleanup THEN "queued" ELSE @]

Stopped(S) == [a \in Attempts |-> IF a \in S THEN Halted(session[a]) ELSE session[a]]
Held(k)    == {current[k]} \ {None}

(* onState: a tab that is closed is not told. *)
Shows(k, state) == view' = [view EXCEPT ![k].state = IF view[k].present THEN state ELSE @]

-----------------------------------------------------------------------------
(* A session begins. *)

(* begin: what the tab had is stopped and not waited for.  An exec dials at
   once; a node shell sweeps first, sparing the pods of the tabs that have a
   session; a local shell looks for kubectl. *)
nothingKept == {}   \* mutant: sweep is called without its second argument
Unanswered(b) == session[b].pc \in {"sweeping", "deleting", "creating"}
livePods == {nodePods[k] : k \in {j \in Keys : nodePods[j] # None /\ current[j] # None}}

begin(a, k, kind) ==
  LET allowed == kind = "local" \/ conn # "closed"
      new == [Unbegun EXCEPT !.key = k, !.kind = kind, !.held = TRUE,
                !.pc = IF ~allowed THEN "done"
                       ELSE CASE kind = "exec" -> "dialing" [] kind = "node" -> "sweeping" [] kind = "local" -> "preparing",
                !.link = IF kind = "exec" /\ allowed THEN "asked" ELSE "none",
                !.pods = IF kind = "node" THEN livePods ELSE {}] IN
  /\ Fresh(a)
  /\ session' = [Stopped(Held(k)) EXCEPT ![a] = new]
  /\ current' = [current EXCEPT ![k] = a]
  /\ view' = [view EXCEPT ![k] = [present |-> TRUE, state |-> IF allowed THEN "starting" ELSE "failed"]]
  /\ crossed' = (crossed \/ \E b \in Attempts : session[b].key = k /\ (Running(b) \/ Stopping(b)))
  /\ raced' = raced \cup {b \in Held(k) : Unanswered(b)}
  /\ UNCHANGED unlisted

(* A tab is opened under a key of its own, ... *)
Open(a, k, kind) ==
  /\ \A b \in Attempts : session[b].key # k
  /\ conn = "open"
  /\ begin(a, k, kind)
  /\ UNCHANGED <<conn, drained, nodePods, pod>>

(* ... and restarted; an exec also when another container is chosen. *)
Restart(a, k) ==
  /\ view[k].present /\ Settled
  /\ LET kind == session[current[k]].kind IN
       /\ kind = "exec" \/ view[k].state \in {"ended", "failed"}
       /\ begin(a, k, kind)
  /\ UNCHANGED <<conn, drained, nodePods, pod>>

(* localShellService.prepare: the shell is started, or kubectl is missing. *)
Prepared(a) ==
  /\ session[a].pc = "preparing"
  /\ session' = [session EXCEPT ![a].pc = "dialing", ![a].link = "asked"]
  /\ UNCHANGED <<conn, drained, view, current, nodePods, pod, crossed, raced, unlisted>>

KubectlMissing(a) ==
  /\ session[a].pc = "preparing"
  /\ session' = [session EXCEPT ![a].pc = "done"]
  /\ Shows(session[a].key, "failed")
  /\ UNCHANGED <<conn, drained, current, nodePods, pod, crossed, raced, unlisted>>

(* sweep: the node shell pods are listed, and those that were not to be kept
   are deleted one by one; a delete that fails is passed over. *)
Listed(a) ==
  /\ session[a].pc = "sweeping" /\ conn # "closed"
  /\ session' = [session EXCEPT ![a].pc = "deleting", ![a].pods = {b \in Attempts : pod[b] = "there"} \ @]
  /\ UNCHANGED <<conn, drained, view, current, nodePods, pod, crossed, raced, unlisted>>

Deleted(a, b) ==
  /\ session[a].pc = "deleting" /\ b \in session[a].pods /\ pod[b] = "there" /\ conn # "closed"
  /\ pod' = [pod EXCEPT ![b] = "gone"]
  /\ UNCHANGED <<conn, drained, view, current, nodePods, session, crossed, raced, unlisted>>

Swept(a) ==
  /\ session[a].pc = "deleting"
  /\ session' = [session EXCEPT ![a].pc = "creating", ![a].pods = {}]
  /\ UNCHANGED <<conn, drained, view, current, nodePods, pod, crossed, raced, unlisted>>

(* The cluster creates the pod, and then the webview hears of it: only from
   here on is it known, and removed when the session is stopped.  A sweep that
   is under way was told before what to keep, and a tab keeps one pod. *)
PodCreated(a) ==
  /\ session[a].pc = "creating" /\ pod[a] = "none" /\ conn # "closed"
  /\ pod' = [pod EXCEPT ![a] = "there"]
  /\ UNCHANGED <<conn, drained, view, current, nodePods, session, crossed, raced, unlisted>>

Awaited(a) == \E b \in Attempts : session[b].pc = "sweeping" \/ (session[b].pc = "deleting" /\ a \in session[b].pods)
CreateAnswered(a) ==
  /\ session[a].pc = "creating" /\ pod[a] # "none"
  /\ LET k == session[a].key IN
       /\ nodePods' = [nodePods EXCEPT ![k] = a]
       /\ unlisted' = unlisted \cup {b \in Attempts : b = nodePods[k] \/ (b = a /\ Awaited(a))}
  /\ session' = [session EXCEPT ![a].pc = "polling", ![a].cleanup = TRUE]
  /\ UNCHANGED <<conn, drained, view, current, pod, crossed, raced>>

Ready(a) ==
  /\ session[a].pc = "polling" /\ pod[a] = "there" /\ conn # "closed"
  /\ session' = [session EXCEPT ![a].pc = "dialing", ![a].link = "asked"]
  /\ UNCHANGED <<conn, drained, view, current, nodePods, pod, crossed, raced, unlisted>>

(* ChannelService.Open, or ProcessService.Start, over the bridge. *)
GoOpens(a) ==
  /\ session[a].link = "asked" /\ (session[a].kind = "local" \/ conn # "closed")
  /\ session' = [session EXCEPT ![a].link = "open"]
  /\ UNCHANGED <<conn, drained, view, current, nodePods, pod, crossed, raced, unlisted>>

(* Mutant: a session that was stopped keeps what it got. *)
AttachedAnyway(a, data) ==
  /\ session[a].pc = "dialing" /\ session[a].link \in {"open", "closed"}
  /\ session' = [session EXCEPT ![a].pc = "done", ![a].attached = TRUE, ![a].early = session[a].bye, ![a].bye = FALSE]
  /\ Shows(session[a].key, "running")
  /\ UNCHANGED <<conn, drained, current, nodePods, pod, crossed, raced, unlisted>>

(* attach: what was held back is told, data and the end of the session among
   it; then a session that was stopped meanwhile closes what it got, and any
   other is shown as running. *)
Attached(a, data) ==
  /\ session[a].pc = "dialing" /\ session[a].link \in {"open", "closed"}
  /\ IF session[a].disposed
     THEN /\ session' = [session EXCEPT ![a].pc = "done", ![a].bye = FALSE,
                                        ![a].link = IF @ = "open" THEN "closing" ELSE @]
          /\ IF data THEN Shows(session[a].key, "running") ELSE UNCHANGED view
     ELSE /\ session' = [session EXCEPT ![a].pc = "done", ![a].attached = TRUE, ![a].early = session[a].bye,
                                        ![a].bye = FALSE]
          /\ Shows(session[a].key, "running")
  /\ UNCHANGED <<conn, drained, current, nodePods, pod, crossed, raced, unlisted>>

(* guard: something on the way failed, if only the answer; the session is
   stopped, and after that, unless its cleanup fails, its tab shows why. *)
Fails(a) ==
  /\ session[a].pc \in {"preparing", "sweeping", "creating", "polling", "dialing"}
  /\ session[a].pc = "dialing" => session[a].link = "asked"
  /\ LET h == Halted(session[a]) IN
       session' = [session EXCEPT ![a] = [h EXCEPT !.pc = IF session[a].cleanup THEN "undoing" ELSE "failing", !.pods = {},
                                            !.link = IF h.link = "asked" THEN "closed" ELSE h.link]]
  /\ raced' = IF session[a].pc = "creating" THEN raced \cup {a} ELSE raced
  /\ UNCHANGED <<conn, drained, view, current, nodePods, pod, crossed, unlisted>>

Failed(a) ==
  /\ session[a].pc = "failing"
  /\ session' = [session EXCEPT ![a].pc = "done"]
  /\ Shows(session[a].key, "failed")
  /\ UNCHANGED <<conn, drained, current, nodePods, pod, crossed, raced, unlisted>>

-----------------------------------------------------------------------------
(* A session ends. *)

(* The shell exits or the API server hangs up. *)
Exits(a) ==
  /\ session[a].link = "open"
  /\ session' = [session EXCEPT ![a].link = "closed", ![a].bye = TRUE]
  /\ UNCHANGED <<conn, drained, view, current, nodePods, pod, crossed, raced, unlisted>>

(* Mutant: a shell that exits is not shown. *)
ExitUnsaid(a, state) ==
  /\ session[a].bye /\ session[a].attached
  /\ session' = [session EXCEPT ![a].bye = FALSE]
  /\ view' = view
  /\ UNCHANGED <<conn, drained, current, nodePods, pod, crossed, raced, unlisted>>

(* onClose, onExit. *)
ExitHeard(a, state) ==
  /\ session[a].bye /\ session[a].attached
  /\ session' = [session EXCEPT ![a].bye = FALSE]
  /\ Shows(session[a].key, state)
  /\ UNCHANGED <<conn, drained, current, nodePods, pod, crossed, raced, unlisted>>

(* close of a tab. *)
Close(k) ==
  /\ view[k].present
  /\ view' = [view EXCEPT ![k] = [present |-> FALSE, state |-> "starting"]]
  /\ current' = [current EXCEPT ![k] = None]
  /\ session' = Stopped(Held(k))
  /\ raced' = raced \cup {b \in Held(k) : Unanswered(b)}
  /\ UNCHANGED <<conn, drained, nodePods, pod, crossed, unlisted>>

(* The channel is closed, the process killed. *)
LinkClosed(a) ==
  /\ session[a].link = "closing"
  /\ session' = [session EXCEPT ![a].link = "closed"]
  /\ UNCHANGED <<conn, drained, view, current, nodePods, pod, crossed, raced, unlisted>>

(* Mutant: the pod is forgotten and left. *)
ForgottenHere(a, answered) ==
  /\ session[a].undo = "queued" /\ session[a].link # "closing"
  /\ session' = [session EXCEPT ![a].undo = "done", ![a].pc = IF @ = "undoing" THEN "failing" ELSE @]
  /\ nodePods' = [nodePods EXCEPT ![session[a].key] = None]
  /\ UNCHANGED <<conn, drained, view, current, pod, crossed, raced, unlisted>>

(* The cleanup of a node shell: whatever pod the tab has is forgotten, and its
   own is removed if the cluster is still connected; the request may fail, and
   then nothing more is done about the pod, nor shown of a session that failed. *)
CleanedUp(a, answered) ==
  /\ session[a].undo = "queued" /\ session[a].link # "closing"
  /\ answered \/ conn # "closed"
  /\ session' = [session EXCEPT ![a].undo = IF answered THEN "done" ELSE "failed",
                                ![a].pc = IF @ # "undoing" THEN @ ELSE IF answered THEN "failing" ELSE "done"]
  /\ LET k == session[a].key IN
       /\ nodePods' = [nodePods EXCEPT ![k] = None]
       /\ unlisted' = unlisted \cup ({nodePods[k]} \ {a, None})
  /\ pod' = IF answered /\ conn # "closed" THEN [pod EXCEPT ![a] = "gone"] ELSE pod
  /\ UNCHANGED <<conn, drained, view, current, crossed, raced>>

-----------------------------------------------------------------------------
(* The cluster is disconnected. *)

Drains ==
  /\ conn = "open" /\ Settled
  /\ conn' = "draining"
  /\ drained' = {a \in Attempts : session[a].held}
  /\ session' = Stopped(drained')
  /\ raced' = raced \cup {a \in drained' : Unanswered(a)}
  /\ UNCHANGED <<view, current, nodePods, pod, crossed, unlisted>>

(* Go closes its session and the channels that are left on it; the dock closes
   its tabs and the service what it still holds. *)
Disconnected ==
  /\ conn = "draining" /\ Settled /\ \A a \in drained : ~Stopping(a)
  /\ conn' = "closed" /\ drained' = {}
  /\ view' = [k \in Keys |-> [present |-> FALSE, state |-> "starting"]]
  /\ current' = [k \in Keys |-> None]
  /\ session' = [a \in Attempts |->
       LET s == Stopped(UNION {Held(k) : k \in Keys})[a] IN
         IF s.kind # "local" /\ s.link = "open" THEN [s EXCEPT !.link = "closed"] ELSE s]
  /\ UNCHANGED <<nodePods, pod, crossed, raced, unlisted>>

-----------------------------------------------------------------------------
Next ==
  \/ Drains \/ Disconnected
  \/ \E k \in Keys : Close(k)
  \/ \E a \in Attempts :
       \/ \E k \in Keys, kind \in Kinds : Open(a, k, kind)
       \/ \E k \in Keys : Restart(a, k)
       \/ Prepared(a) \/ KubectlMissing(a) \/ Listed(a) \/ Swept(a) \/ PodCreated(a) \/ CreateAnswered(a) \/ Ready(a) \/ GoOpens(a)
       \/ Fails(a) \/ Failed(a) \/ Exits(a) \/ LinkClosed(a)
       \/ \E b \in Attempts : Deleted(a, b)
       \/ \E answered \in BOOLEAN : CleanedUp(a, answered)
       \/ \E data \in BOOLEAN : Attached(a, data)
       \/ \E state \in {"ended", "failed"} : ExitHeard(a, state)

Spec == Init /\ [][Next]_vars

-----------------------------------------------------------------------------
(* Properties. *)

(* Every variable keeps its type. *)
Pcs   == {"idle", "preparing", "sweeping", "deleting", "creating", "polling", "dialing", "undoing", "failing", "done"}
Links == {"none", "asked", "open", "closing", "closed"}
Undos == {"none", "queued", "done", "failed"}
Views == [present : BOOLEAN, state : {"starting", "running", "ended", "failed"}]
Sessions ==
  [key : Keys \cup {None}, kind : Kinds \cup {"none"}, pc : Pcs, disposed : BOOLEAN, held : BOOLEAN, attached : BOOLEAN,
   link : Links, bye : BOOLEAN, early : BOOLEAN, cleanup : BOOLEAN, undo : Undos, pods : SUBSET Attempts]
TypeOK ==
  /\ conn \in {"open", "draining", "closed"} /\ drained \subseteq Attempts
  /\ view \in [Keys -> Views]
  /\ current \in [Keys -> Attempts \cup {None}]
  /\ nodePods \in [Keys -> Attempts \cup {None}]
  /\ session \in [Attempts -> Sessions]
  /\ pod \in [Attempts -> {"none", "there", "gone"}]
  /\ crossed \in BOOLEAN /\ raced \subseteq Attempts /\ unlisted \subseteq Attempts

(* Once an attempt is over, the channel or process it opened is open only as
   that of the session its tab has, so that closing the tab or disconnecting
   ends it (TerminalSession attach, TerminalService begin, close): no tab that
   was closed, restarted or disconnected while a shell was opening leaves one. *)
NobodysShell ==
  \A a \in Attempts : session[a].pc = "done" /\ session[a].link = "open" =>
    LET k == session[a].key IN view[k].present /\ current[k] = a /\ session[a].attached

(* A tab that reads as running has a shell that runs, or whose exit is on its
   way; excepted are sessions of one tab that overlapped and an exit that is
   told while the session is being attached. *)
Runs(k) == current[k] # None /\ LET s == session[current[k]] IN s.link = "open" \/ s.bye
RunningIsOpen ==
  conn = "open" /\ ~crossed =>
    \A k \in Keys : view[k].present /\ view[k].state = "running" => Runs(k) \/ session[current[k]].early

(* "schedules a privileged pod onto the node you picked, attaches to it,
   deletes it when you close the tab" (README): between calls every node shell
   pod in a connected cluster belongs to a session nobody stopped, which is its
   tab's.  Excepted are pods whose delete failed and pods whose shell was closed,
   restarted, disconnected or given up before their creation was answered. *)
NoneLeft ==
  AtRest /\ conn = "open" =>
    \A a \in Attempts : pod[a] = "there" =>
      \/ current[session[a].key] = a /\ session[a].cleanup
      \/ session[a].undo = "failed" \/ a \in raced

(* "Only the pods of shells this window is not holding open are stale": no
   sweep deletes the pod of a shell that runs.  Excepted are pods whose creation
   was answered while a sweep was under way that could not know them, and pods
   an earlier session of the tab made the service forget. *)
ShellPods == \A a \in Attempts : session[a].attached /\ session[a].kind = "node" => pod[a] = "there" \/ a \in unlisted
===============================================================================
