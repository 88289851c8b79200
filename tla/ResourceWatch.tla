---------------------------- MODULE ResourceWatch ----------------------------
(***************************************************************************)
(* One list of cluster resources: the view that reloads it, the            *)
(* ClusterResourceStore that loads it and hands it to a watch, and the     *)
(* ResourceWatchService, -Session and -Scope that keep it up to date.      *)
(*                                                                         *)
(* A member of Ops is one coroutine, a reload of the view, a resync the    *)
(* watch asks for or the view going away; what it does between two awaits  *)
(* is one step and pc says what it waits for.  The watch session a         *)
(* coroutine starts carries its name.  Each namespace holds one object,    *)
(* whose content is the resource version it was written at.                *)
(***************************************************************************)
EXTENDS Naturals, Sequences, FiniteSets

CONSTANTS
  Namespaces,
  Selections,   \* the sets of namespaces the view may be about
  MaxOps,       \* bound: coroutines
  MaxChanges,   \* bound: writes to each object
  MaxCloses,    \* bound: streams that end on their own, or expire
  MaxPending,   \* ResourceWatchLimits.maxPendingChanges
  MaxFlaps,     \* ResourceWatchLimits.maxConsecutiveFlaps
  Overlap,      \* bound: whether a coroutine may begin while another runs
  NoWatch       \* no session, no namespace listed

ASSUME Selected == Selections \subseteq SUBSET Namespaces \ {{}} /\ Selections # {}
ASSUME WatchBounds == MaxOps \in Nat /\ MaxChanges \in Nat /\ MaxCloses \in Nat
ASSUME Limits == MaxPending \in Nat \ {0} /\ MaxFlaps \in Nat \ {0} /\ Overlap \in BOOLEAN

Ops == 1..MaxOps

ASSUME WatchNoneApart == NoWatch \notin Ops \cup Nat

VARIABLES
  truth,      \* the cluster: the version of the object of each namespace
  conn,       \* the cluster's session: "open", "draining", "closed"
  selected,   \* the namespaces the view is about, none before it is created
  view,       \* the view: [open, watched]
  list,       \* ClusterResourceStore.lists, the one list
  op,         \* the coroutines
  holder,     \* ResourceWatchService.sessions, at the key of the list
  session,    \* ResourceWatchSession
  scope,      \* ResourceWatchScope: one for each session and namespace
  closes,     \* streams that ended on their own
  crossed     \* history: two coroutines ran at a time

listVars == <<truth, conn, selected, view, list, op, holder, session, scope, closes, crossed>>
watchVars == <<holder, session, scope>>

EmptyList == [loaded |-> FALSE, loading |-> FALSE, failed |-> FALSE, watching |-> FALSE, stale |-> FALSE,
              items |-> <<>>, cursors |-> <<>>]
Unopened  == [link |-> "none", rv |-> 0, flaps |-> 0, retry |-> FALSE, stopped |-> FALSE]

WatchInit ==
  /\ truth = [n \in Namespaces |-> 0]
  /\ conn = "open"
  /\ selected = {}
  /\ view = [open |-> TRUE, watched |-> FALSE]
  /\ list = EmptyList
  /\ op = [o \in Ops |-> [pc |-> "idle", kind |-> "reload", sel |-> {}, waits |-> NoWatch, page |-> <<>>]]
  /\ holder = NoWatch
  /\ session = [o \in Ops |-> [stopped |-> FALSE, resyncing |-> FALSE, staled |-> FALSE, early |-> FALSE, pending |-> <<>>]]
  /\ scope = [o \in Ops |-> [n \in Namespaces |-> Unopened]]
  /\ closes = 0
  /\ crossed = FALSE

Idle(o)     == op[o].pc = "idle"
Running(o)  == op[o].pc \notin {"idle", "done"}
AllAtRest   == \A o \in Ops : ~Running(o)
Fresh(o)    == Idle(o) /\ (\A p \in Ops : p < o => ~Idle(p)) /\ (Overlap \/ AllAtRest)

(* stop of a session: its scopes are spliced away, so a second stop finds none. *)
Halts(link) == IF link = "open" THEN "stopping" ELSE link
(* Mutant: stop keeps the retry timer. *)
EndedRetrying(f) == [n \in Namespaces |-> [Unopened EXCEPT !.stopped = TRUE, !.retry = f[n].retry, !.link = Halts(f[n].link)]]
Ended(f)    == [n \in Namespaces |-> [Unopened EXCEPT !.stopped = TRUE, !.link = Halts(f[n].link)]]
Halted(s)   == IF session[s].stopped THEN scope ELSE [scope EXCEPT ![s] = Ended(@)]
Silenced(s) == [session EXCEPT ![s].stopped = TRUE, ![s].pending = <<>>]

(* stopAt: the session leaves the map at once; its caller waits for its streams. *)
stopAt ==
  /\ holder' = NoWatch
  /\ session' = IF holder = NoWatch THEN session ELSE Silenced(holder)
  /\ scope' = IF holder = NoWatch THEN scope ELSE Halted(holder)

(* What awaiting stopAt waits for: nothing, when the scopes were spliced before. *)
StopAwaited == IF holder = NoWatch THEN NoWatch
               ELSE IF session[holder].stopped THEN NoWatch ELSE holder
StreamsStopped(s) == s # NoWatch => \A n \in Namespaces : scope[s][n].link # "stopping"

Begins(o, kind, sel, pc, waits) ==
  /\ op' = [op EXCEPT ![o] = [@ EXCEPT !.pc = pc, !.kind = kind, !.sel = sel, !.waits = waits]]
  /\ crossed' = (crossed \/ ~AllAtRest)

Rests(rec)  == [rec EXCEPT !.pc = "done", !.waits = NoWatch, !.page = <<>>]
Loading(l) == [l EXCEPT !.loading = TRUE, !.failed = FALSE]

(* reload of the view: created, another selection of namespaces, back online.
   The view unwatches what it remembers to watch; the first time, nothing. *)
Reload(o, sel) ==
  /\ Fresh(o) /\ view.open /\ conn = "open"
  /\ selected' = sel
  /\ IF view.watched
     THEN /\ view' = [view EXCEPT !.watched = FALSE]
          /\ stopAt
          /\ Begins(o, "reload", sel, "unwatching", StopAwaited)
          /\ UNCHANGED list
     ELSE /\ list' = Loading(list)
          /\ Begins(o, "reload", sel, "loading", NoWatch)
          /\ UNCHANGED <<view, watchVars>>
  /\ UNCHANGED <<truth, conn, closes>>

(* beforeUnmount: stopWatch, if the view remembers to watch. *)
Leave(o) ==
  /\ Fresh(o) /\ view.open
  /\ view' = [open |-> FALSE, watched |-> FALSE]
  /\ IF view.watched THEN stopAt ELSE UNCHANGED watchVars
  /\ Begins(o, "leave", {}, IF view.watched THEN "unwatching" ELSE "done", IF view.watched THEN StopAwaited ELSE NoWatch)
  /\ UNCHANGED <<truth, conn, selected, list, closes>>

(* unwatch is over: the list is not watched, and a refresh goes on to load. *)
Unwatched(o) ==
  /\ op[o].pc = "unwatching" /\ StreamsStopped(op[o].waits)
  /\ LET quiet == [list EXCEPT !.watching = FALSE, !.stale = FALSE] IN
       IF op[o].kind = "leave"
       THEN list' = quiet /\ op' = [op EXCEPT ![o] = Rests(@)]
       ELSE list' = Loading(quiet) /\ op' = [op EXCEPT ![o].pc = "loading"]
  /\ UNCHANGED <<truth, conn, selected, view, watchVars, closes, crossed>>

(* The API server answers one page a namespace, each with its version. *)
Served(o) ==
  /\ op[o].pc = "loading" /\ conn # "closed"
  /\ op' = [op EXCEPT ![o].pc = "served", ![o].page = [n \in op[o].sel |-> truth[n]]]
  /\ UNCHANGED <<truth, conn, selected, view, list, watchVars, closes, crossed>>

(* After load, watch: an unloaded list is not watched; else the session the
   key holds is stopped first, whoever started it.  The view remembers that
   it watches either way. *)
Remembers(o) == view' = [view EXCEPT !.watched = (@ \/ (op[o].kind = "reload" /\ view.open))]

Watches(o, l) ==
  /\ list' = l
  /\ IF l.loaded
     THEN /\ stopAt
          /\ op' = [op EXCEPT ![o] = [@ EXCEPT !.pc = "replacing", !.waits = StopAwaited, !.page = l.cursors]]
          /\ UNCHANGED view
     ELSE op' = [op EXCEPT ![o] = Rests(@)] /\ Remembers(o) /\ UNCHANGED watchVars

(* Mutant: the watch starts from what the cluster has by then. *)
ListLoadedFromNow(o) ==
  /\ op[o].pc = "served"
  /\ Watches(o, [list EXCEPT !.loaded = TRUE, !.loading = FALSE, !.items = op[o].page,
                             !.cursors = [n \in op[o].sel |-> truth[n]]])
  /\ UNCHANGED <<truth, conn, selected, closes, crossed>>

ListLoaded(o) ==
  /\ op[o].pc = "served"
  /\ Watches(o, [list EXCEPT !.loaded = TRUE, !.loading = FALSE, !.items = op[o].page, !.cursors = op[o].page])
  /\ UNCHANGED <<truth, conn, selected, closes, crossed>>

(* A list that cannot be read keeps what it showed, and is watched from there. *)
LoadFailed(o) ==
  /\ op[o].pc = "loading"
  /\ Watches(o, [list EXCEPT !.loading = FALSE, !.failed = TRUE])
  /\ UNCHANGED <<truth, conn, selected, closes, crossed>>

(* start of a new session, one scope for each cursor. *)
Starts(o) ==
  /\ op[o].pc = "replacing" /\ StreamsStopped(op[o].waits)
  /\ holder' = o
  /\ scope' = [scope EXCEPT ![o] = [n \in Namespaces |->
       IF n \in DOMAIN op[o].page THEN [Unopened EXCEPT !.link = "asked", !.rv = op[o].page[n]] ELSE Unopened]]
  /\ op' = [op EXCEPT ![o].pc = "starting"]
  /\ UNCHANGED <<truth, conn, selected, view, list, session, closes, crossed>>

FirstAnswered(o) == \A n \in Namespaces : scope[o][n].link # "asked"
AnyRefused(o)    == \E n \in Namespaces : scope[o][n].link = "refused"

(* Every scope started: the store shows the list as live. *)
Started(o) ==
  /\ op[o].pc = "starting" /\ FirstAnswered(o) /\ ~AnyRefused(o)
  /\ list' = [list EXCEPT !.watching = TRUE, !.stale = FALSE]
  /\ Remembers(o)
  /\ op' = [op EXCEPT ![o] = Rests(@)]
  /\ UNCHANGED <<truth, conn, selected, watchVars, closes, crossed>>

(* One scope did not: the session is stopped, ... *)
StartFails(o) ==
  /\ op[o].pc = "starting" /\ FirstAnswered(o) /\ AnyRefused(o)
  /\ op' = [op EXCEPT ![o].pc = "failing", ![o].waits = IF session[o].stopped THEN NoWatch ELSE o]
  /\ scope' = Halted(o) /\ session' = Silenced(o)
  /\ UNCHANGED <<truth, conn, selected, view, list, holder, closes, crossed>>

(* ... the key is cleared, whoever holds it, and the list is stale. *)
Failed(o) ==
  /\ op[o].pc = "failing" /\ StreamsStopped(op[o].waits)
  /\ holder' = NoWatch
  /\ list' = [list EXCEPT !.watching = FALSE, !.stale = TRUE]
  /\ Remembers(o)
  /\ op' = [op EXCEPT ![o] = Rests(@)]
  /\ UNCHANGED <<truth, conn, selected, session, scope, closes, crossed>>

-----------------------------------------------------------------------------
(* The streams. *)

(* The store is told once in the life of a session that the list is stale. *)
Tells(o) == ~session[o].stopped /\ ~session[o].staled
(* Mutant: a lost watch is swallowed. *)
StaleUnsaid(o) == list' = list
StaleList(o) == list' = IF Tells(o) THEN [list EXCEPT !.watching = FALSE, !.stale = TRUE] ELSE list
StaleSession(o) == session' = IF Tells(o)
  THEN [session EXCEPT ![o].staled = TRUE, ![o].early = (op[o].pc = "starting")] ELSE session

Write(n) ==
  /\ truth[n] < MaxChanges /\ conn # "closed"
  /\ truth' = [truth EXCEPT ![n] = @ + 1]
  /\ UNCHANGED <<conn, selected, view, list, op, watchVars, closes, crossed>>

(* A stream is open from the version the scope remembers, whether the scope
   was stopped meanwhile or not. *)
Opened(o, n) ==
  /\ scope[o][n].link \in {"asked", "reasked"} /\ conn # "closed"
  /\ scope' = [scope EXCEPT ![o][n].link = "open"]
  /\ UNCHANGED <<truth, conn, selected, view, list, op, holder, session, closes, crossed>>

(* It cannot be opened.  A retry that fails makes the list stale. *)
Refused(o, n) ==
  /\ scope[o][n].link \in {"asked", "reasked"}
  /\ scope' = [scope EXCEPT ![o][n].link = IF @ = "asked" THEN "refused" ELSE "closed"]
  /\ IF scope[o][n].link = "reasked" THEN StaleSession(o) /\ StaleList(o) ELSE UNCHANGED <<session, list>>
  /\ UNCHANGED <<truth, conn, selected, view, op, holder, closes, crossed>>

(* resync: the session asks once; the store unwatches, loads and watches with
   the request the session was started for. *)
Resyncs(o, r, sc) ==
  /\ Fresh(r)
  /\ LET wait == StopAwaited
         told == [session EXCEPT ![o].resyncing = TRUE, ![o].pending = <<>>]
         stop == holder # NoWatch /\ ~session[holder].stopped IN
       /\ Begins(r, "resync", op[o].sel, "unwatching", wait)
       /\ holder' = NoWatch
       /\ session' = IF stop THEN [told EXCEPT ![holder].stopped = TRUE, ![holder].pending = <<>>] ELSE told
       /\ scope' = IF stop THEN [sc EXCEPT ![holder] = Ended(@)] ELSE sc

Deaf(o, n) == scope[o][n].stopped \/ session[o].stopped

(* Mutant: what overflows is dropped and nobody asks for a resync. *)
EventForgets(o, n) ==
  /\ scope[o][n].link = "open" /\ ~Deaf(o, n) /\ scope[o][n].rv < truth[n]
  /\ LET at == scope[o][n].rv + 1 IN
       /\ scope' = [scope EXCEPT ![o][n].rv = at]
       /\ session' = [session EXCEPT ![o].pending = IF Len(@) = MaxPending THEN <<>> ELSE Append(@, <<n, at>>)]
  /\ UNCHANGED <<truth, conn, selected, view, list, op, holder, closes, crossed>>

(* A change: the scope remembers its version, the session keeps it for the
   next flush; more than it may keep, and it starts over.  A scope or a session
   that was stopped hears nothing. *)
Event(o, n) ==
  /\ scope[o][n].link = "open" /\ ~Deaf(o, n) /\ scope[o][n].rv < truth[n]
  /\ LET at   == scope[o][n].rv + 1
         read == [scope EXCEPT ![o][n].rv = at]
         full == Len(session[o].pending) = MaxPending IN
       \/ full /\ ~session[o].resyncing /\ \E r \in Ops : Resyncs(o, r, read)
       \/ /\ full => session[o].resyncing
          /\ scope' = read
          /\ session' = [session EXCEPT ![o].pending = IF full THEN <<>> ELSE Append(@, <<n, at>>)]
          /\ UNCHANGED <<op, crossed, holder>>
  /\ UNCHANGED <<truth, conn, selected, view, list, closes>>

(* The version to resume from is no longer kept: the list starts over. *)
Expired(o, n) ==
  /\ scope[o][n].link = "open" /\ ~Deaf(o, n) /\ ~session[o].resyncing /\ closes < MaxCloses
  /\ closes' = closes + 1
  /\ \E r \in Ops : Resyncs(o, r, scope)
  /\ UNCHANGED <<truth, conn, selected, view, list>>

(* The last change of each object wins; what the list lacks is added. *)
applyChanges(items, p) ==
  LET last == [n \in {p[i][1] : i \in DOMAIN p} |->
                 p[CHOOSE i \in DOMAIN p : p[i][1] = n /\ \A j \in DOMAIN p : p[j][1] = n => j <= i][2]] IN
    [n \in DOMAIN last \cup DOMAIN items |-> IF n \in DOMAIN last THEN last[n] ELSE items[n]]

(* The timer: what is pending goes into the list. *)
flush(o) ==
  /\ session[o].pending # <<>>
  /\ session' = [session EXCEPT ![o].pending = <<>>]
  /\ list' = IF list.loaded THEN [list EXCEPT !.items = applyChanges(@, session[o].pending)] ELSE list
  /\ UNCHANGED <<truth, conn, selected, view, op, holder, scope, closes, crossed>>

(* A healthy life forgets the flaps before it, one that ended at once is one
   more; a stream that broke is not retried. *)
FlapsAfter(how, flaps) == CASE how = "flap" -> flaps + 1 [] how = "eof" -> 0 [] OTHER -> flaps
canRetry(how, flaps)   == how # "error" /\ FlapsAfter(how, flaps) < MaxFlaps

(* A stream ends by itself, also before the caller has heard that it is open:
   resumed after a healthy life or a few flaps, else the list is stale. *)
StreamCloses(o, n, how) ==
  /\ scope[o][n].link \in {"asked", "reasked", "open"} /\ conn # "closed" /\ closes < MaxCloses
  /\ closes' = closes + 1
  /\ LET s     == scope[o][n]
         again == ~s.stopped /\ canRetry(how, s.flaps) IN
       /\ scope' = [scope EXCEPT ![o][n].link = "closed", ![o][n].retry = again,
                                 ![o][n].flaps = IF s.stopped THEN @ ELSE FlapsAfter(how, @)]
       /\ IF s.stopped \/ again THEN UNCHANGED <<session, list>> ELSE StaleSession(o) /\ StaleList(o)
  /\ UNCHANGED <<truth, conn, selected, view, op, holder, crossed>>

ScopeRetries(o, n) ==
  /\ scope[o][n].retry
  /\ scope' = [scope EXCEPT ![o][n].retry = FALSE, ![o][n].link = "reasked"]
  /\ UNCHANGED <<truth, conn, selected, view, list, op, holder, session, closes, crossed>>

Stopped(o, n) ==
  /\ scope[o][n].link = "stopping"
  /\ scope' = [scope EXCEPT ![o][n].link = "closed"]
  /\ UNCHANGED <<truth, conn, selected, view, list, op, holder, session, closes, crossed>>

-----------------------------------------------------------------------------
(* The cluster is disconnected. *)

(* drain: every registered stream of the cluster is stopped, whoever holds it;
   no scope takes that for a loss. *)
Drains ==
  /\ conn = "open"
  /\ conn' = "draining"
  /\ scope' = [o \in Ops |-> [n \in Namespaces |->
       IF scope[o][n].link = "open" THEN [scope[o][n] EXCEPT !.link = "stopping"] ELSE scope[o][n]]]
  /\ UNCHANGED <<truth, selected, view, list, op, holder, session, closes, crossed>>

(* The session is closed, the list forgotten and its watch released. *)
Disconnected ==
  /\ conn = "draining" /\ \A o \in Ops, n \in Namespaces : scope[o][n].link # "stopping"
  /\ conn' = "closed"
  /\ list' = EmptyList
  /\ stopAt
  /\ UNCHANGED <<truth, selected, view, op, closes, crossed>>

(* Go ends a stream of a session that is gone. *)
CutOff(o, n) ==
  /\ scope[o][n].link = "open" /\ conn = "closed"
  /\ scope' = [scope EXCEPT ![o][n].link = "closed"]
  /\ IF scope[o][n].stopped THEN UNCHANGED <<session, list>> ELSE StaleSession(o) /\ StaleList(o)
  /\ UNCHANGED <<truth, conn, selected, view, op, holder, closes, crossed>>

-----------------------------------------------------------------------------
Works(o) == Unwatched(o) \/ Served(o) \/ ListLoaded(o) \/ Starts(o) \/ Started(o) \/ StartFails(o) \/ Failed(o)
            \/ (conn = "closed" /\ LoadFailed(o))
Streams(o, n) == Opened(o, n) \/ Event(o, n) \/ ScopeRetries(o, n) \/ Stopped(o, n) \/ CutOff(o, n)
                 \/ (conn = "closed" /\ Refused(o, n))

WatchNext ==
  \/ \E n \in Namespaces : Write(n)
  \/ Drains \/ Disconnected
  \/ \E o \in Ops :
       \/ \E sel \in Selections : Reload(o, sel)
       \/ Leave(o) \/ Unwatched(o) \/ Served(o) \/ ListLoaded(o) \/ LoadFailed(o)
       \/ Starts(o) \/ Started(o) \/ StartFails(o) \/ Failed(o) \/ flush(o)
       \/ \E n \in Namespaces :
            \/ Opened(o, n) \/ Refused(o, n) \/ Event(o, n) \/ Expired(o, n)
            \/ ScopeRetries(o, n) \/ Stopped(o, n) \/ CutOff(o, n)
            \/ \E how \in {"eof", "flap", "error"} : StreamCloses(o, n, how)

(* What was asked of the cluster is answered, a stream delivers, a timer
   fires; nobody has to reload, leave, write or disconnect. *)
WatchFairness ==
  /\ \A o \in Ops : WF_listVars(Works(o)) /\ WF_listVars(flush(o))
  /\ \A o \in Ops, n \in Namespaces : WF_listVars(Streams(o, n))
  /\ WF_listVars(Disconnected)

WatchSpec     == WatchInit /\ [][WatchNext]_listVars
WatchFairSpec == WatchSpec /\ WatchFairness

-----------------------------------------------------------------------------
(* Properties. *)

(* What the list will show of n once everything pending is flushed. *)
Shows(o, n) ==
  LET p    == session[o].pending
      mine == {i \in DOMAIN p : p[i][1] = n} IN
    IF mine # {} THEN p[CHOOSE i \in mine : \A j \in mine : j <= i][2]
    ELSE IF n \in DOMAIN list.items THEN list.items[n] ELSE 0

Watched(o) == {n \in Namespaces : scope[o][n].link # "none"}

(* A list never falls behind the version its watch would resume from, however
   streams close, expire and resume and whatever overflows: what a resumed
   watch skips is in the list or waits for the flush (ResourceWatchScope
   remember, ResourceWatchSession accept).  Coroutines that overlapped are
   excepted. *)
NothingSkipped ==
  ~crossed /\ holder # NoWatch /\ ~session[holder].stopped /\ conn = "open" =>
    \A n \in Watched(holder) : scope[holder][n].rv <= Shows(holder, n)

(* A list that claims to be live has, in each namespace it was loaded for, a
   stream that is open or on its way (ClusterResourceStore.watch); excepted
   are overlapping coroutines and a stream that is lost before the start of
   its session is over, which the code shows as live. *)
LiveIsWatched ==
  AllAtRest /\ ~crossed /\ conn = "open" /\ list.watching =>
    /\ holder # NoWatch
    /\ session[holder].early \/ \A n \in DOMAIN list.cursors :
         scope[holder][n].link \in {"open", "reasked"} \/ scope[holder][n].retry

(* Nobody but the session the service holds may stream or retry at rest, and
   nothing may once the view is gone (ResourceWatchService.stopAt); excepted
   are overlapping coroutines and a scope that was stopped while it waited for
   its stream, which nobody stops any more. *)
NobodysStream ==
  AllAtRest /\ ~crossed =>
    \A o \in Ops, n \in Namespaces :
      /\ scope[o][n].link \in {"open", "asked", "reasked"} /\ ~scope[o][n].stopped => o = holder /\ view.open
      /\ scope[o][n].retry => o = holder /\ view.open

(* A list that stays live shows in the end what the cluster has; overlapping
   coroutines and a stream lost during the start excepted. *)
Settled   == AllAtRest /\ ~crossed /\ conn = "open" /\ list.watching /\ ~session[holder].early
Converges == <>[]Settled => <>[](\A n \in DOMAIN list.items : list.items[n] = truth[n])

(* After a disconnect no stream stays open and nothing retries, not even what
   overlapping coroutines left behind: KubeStreamRegistry drains by cluster
   and Go ends what opened after that. *)
DisconnectEndsWatches ==
  conn = "closed" ~> \A o \in Ops, n \in Namespaces :
                       scope[o][n].link \notin {"asked", "reasked", "open", "stopping"} /\ ~scope[o][n].retry

(* A watch that goes on tells the truth in the end, and one whose cluster is
   gone ends. *)
Settles == Converges /\ DisconnectEndsWatches
=============================================================================
