------------------------- MODULE ClusterConnections -------------------------
(***************************************************************************)
(* How the webview keeps its cluster connections: ClusterConnectionStore   *)
(* and ClusterConnectionService over the sessions of the Go registry.      *)
(*                                                                         *)
(* A member of Ops is one call of the store, a coroutine: what it does     *)
(* between two awaits is one step, and other calls run while it waits.     *)
(* pc says what it waits for.  A reload throws the webview's half away     *)
(* and leaves the registry, and the calls Go has not answered, as they     *)
(* are.                                                                    *)
(***************************************************************************)
EXTENDS SessionRegistry, Naturals

CONSTANTS
  Clusters, Ops,
  Kinds,        \* which calls the store gets: "connect", "disconnect", "adopt"
  MaxReloads,   \* bound: reloads of the webview
  None          \* no cluster, no session

ASSUME CallKinds  == Kinds \subseteq {"connect", "disconnect", "adopt"}
ASSUME CallBounds == MaxReloads \in Nat
ASSUME NoneApart  == None \notin Sessions \cup Clusters

VARIABLES
  label,       \* Session.Label: the context a session was opened for
  live,        \* ClusterConnectionService.live: the session of a cluster
  contexts,    \* KubeContextProvider.connections: the session it talks over
  shown,       \* ClusterConnectionStore.connections, the session in each
  scoped,      \* clusters with an entry in ClusterConnectionStore.namespaces
  connecting,  \* ClusterConnectionStore.connectingIds
  adopted,     \* ClusterConnectionStore.adopted
  op,          \* the calls
  left,        \* sessions a reload left and no adoption has listed
  reloads,
  crossed      \* history: clusters two calls of this page dealt with at once

pageVars == <<live, contexts, shown, scoped, connecting, adopted>>
vars     == <<sessionVars, label, pageVars, op, left, reloads, crossed>>

Waits == {"spec", "draining", "closing", "closed", "dialing", "dialed", "reading", "scoping",
          "listing", "deciding", "proving", "discarding", "adopting"}
Calls == [pc : Waits \cup {"idle"}, kind : {"connect", "disconnect", "adopt"},
          c : Clusters \cup {None}, s : Sessions \cup {None}, ok : BOOLEAN,
          list : SUBSET Sessions, taken : SUBSET Sessions, gone : BOOLEAN]
Idle  == [pc |-> "idle", kind |-> "connect", c |-> None, s |-> None, ok |-> FALSE,
          list |-> {}, taken |-> {}, gone |-> FALSE]

Init ==
  /\ SessionsInit
  /\ label = [s \in Sessions |-> None]
  /\ live = [c \in Clusters |-> None] /\ contexts = live /\ shown = live
  /\ scoped = {} /\ connecting = {} /\ adopted = FALSE
  /\ op = [o \in Ops |-> Idle]
  /\ left = {} /\ reloads = 0 /\ crossed = {}

(* o waits, on this page, for pc. *)
At(o, pc) == op[o].pc = pc /\ ~op[o].gone

Goes(o, rec) == op' = [op EXCEPT ![o] = rec]

(* Go answers o, unless the page that asked is gone. *)
Answers(o, rec) == Goes(o, IF op[o].gone THEN Idle ELSE rec)

(* Nothing keeps a call from starting while others are awaited. *)
CanStart(o, kind) == kind \in Kinds /\ op[o].pc = "idle"

-----------------------------------------------------------------------------
(* Store.connect.                                                          *)

ConnectCall(o, c) ==
  /\ CanStart(o, "connect")
  /\ c \notin connecting
  /\ connecting' = connecting \cup {c}
  /\ Goes(o, [Idle EXCEPT !.pc = "spec", !.c = c])
  /\ UNCHANGED <<sessionVars, label, live, contexts, shown, scoped, adopted, left, reloads>>

(* Mutant: the flag is left when the connect throws. *)
FailsFlagged(o) ==
  /\ Goes(o, Idle)
  /\ UNCHANGED <<sessionVars, label, pageVars, left, reloads>>

(* The failure is kept for the screen, and the finally clears the flag. *)
Fails(o) ==
  /\ Goes(o, Idle)
  /\ connecting' = connecting \ {op[o].c}
  /\ UNCHANGED <<sessionVars, label, live, contexts, shown, scoped, adopted, left, reloads>>

SpecFails(o) == At(o, "spec") /\ Fails(o)

(* Mutant: what is already live is left open. *)
SpecReadOver(o) ==
  /\ At(o, "spec")
  /\ Goes(o, [op[o] EXCEPT !.pc = "dialing"])
  /\ UNCHANGED <<sessionVars, label, pageVars, left, reloads>>

(* The old session of the context goes first. *)
SpecRead(o) ==
  /\ At(o, "spec")
  /\ LET s == live[op[o].c] IN
       Goes(o, IF s # None THEN [op[o] EXCEPT !.pc = "draining", !.s = s]
                           ELSE [op[o] EXCEPT !.pc = "dialing"])
  /\ UNCHANGED <<sessionVars, label, pageVars, left, reloads>>

(* Connect, in Go.  Sessions bounds how many are ever opened. *)
GoConnect(o, s) ==
  /\ op[o].pc = "dialing"
  /\ Add(s)
  /\ label' = [label EXCEPT ![s] = op[o].c]
  /\ left' = IF op[o].gone THEN left \cup {s} ELSE left
  /\ Answers(o, [op[o] EXCEPT !.pc = "dialed", !.s = s])
  /\ UNCHANGED <<pageVars, reloads>>

GoRejects(o) ==
  /\ op[o].pc = "dialing"
  /\ IF op[o].gone
     THEN /\ Goes(o, Idle)
          /\ UNCHANGED <<sessionVars, label, pageVars, left, reloads>>
     ELSE Fails(o)

(* The version is asked for over a context of the new session. *)
AskVersion(o) ==
  /\ At(o, "dialed")
  /\ contexts' = [contexts EXCEPT ![op[o].c] = op[o].s]
  /\ Goes(o, [op[o] EXCEPT !.pc = "reading"])
  /\ UNCHANGED <<sessionVars, label, live, shown, scoped, connecting, adopted, left, reloads>>

(* Known or not, the version does not decide whether it is a connection. *)
VersionRead(o) ==
  /\ At(o, "reading")
  /\ live' = [live EXCEPT ![op[o].c] = op[o].s]
  /\ Goes(o, [op[o] EXCEPT !.pc = "scoping"])
  /\ UNCHANGED <<sessionVars, label, contexts, shown, scoped, connecting, adopted, left, reloads>>

ScopeFails(o) == At(o, "scoping") /\ Fails(o)

ScopeRead(o) ==
  /\ At(o, "scoping")
  /\ scoped' = scoped \cup {op[o].c}
  /\ shown' = [shown EXCEPT ![op[o].c] = op[o].s]
  /\ connecting' = connecting \ {op[o].c}
  /\ Goes(o, Idle)
  /\ UNCHANGED <<sessionVars, label, live, contexts, adopted, left, reloads>>

-----------------------------------------------------------------------------
(* Store.disconnect; connect closes an old session the same way.           *)

(* The screens offer it for what they show. *)
DisconnectCall(o, c) ==
  /\ CanStart(o, "disconnect")
  /\ shown[c] # None /\ live[c] # None
  /\ Goes(o, [Idle EXCEPT !.pc = "draining", !.kind = "disconnect", !.c = c, !.s = live[c]])
  /\ UNCHANGED <<sessionVars, label, pageVars, left, reloads>>

(* Every stream registered for the cluster has answered its stop.  Whoever *)
(* disconnects meanwhile finds none registered and does not wait.          *)
Drained(o) ==
  /\ At(o, "draining")
  /\ Goes(o, [op[o] EXCEPT !.pc = "closing"])
  /\ UNCHANGED <<sessionVars, label, pageVars, left, reloads>>

(* Disconnect, in Go. *)
GoDisconnect(o) ==
  /\ op[o].pc = "closing"
  /\ LET found == op[o].s \in registry IN
       /\ IF found THEN Remove(op[o].s) ELSE UNCHANGED sessionVars
       /\ Answers(o, [op[o] EXCEPT !.pc = "closed", !.ok = found])
  /\ UNCHANGED <<label, pageVars, left, reloads>>

(* The finally of ClusterConnectionService.disconnect. *)
Released(o) == [contexts EXCEPT ![op[o].c] = None]

Closed(o) ==
  /\ At(o, "closed")
  /\ contexts' = Released(o)
  /\ live' = [live EXCEPT ![op[o].c] = None]
  /\ LET connects == op[o].kind = "connect"
         goesOn   == connects /\ op[o].ok
     IN /\ Goes(o, IF goesOn THEN [op[o] EXCEPT !.pc = "dialing", !.s = None] ELSE Idle)
        /\ connecting' = IF connects /\ ~op[o].ok THEN connecting \ {op[o].c} ELSE connecting
        /\ shown' = IF ~connects /\ op[o].ok THEN [shown EXCEPT ![op[o].c] = None] ELSE shown
  /\ UNCHANGED <<sessionVars, label, scoped, adopted, left, reloads>>

-----------------------------------------------------------------------------
(* Store.adopt.                                                            *)

(* What the old page asked of Go is over by the time the new one has read  *)
(* its kubeconfig files.                                                   *)
AdoptCall(o) ==
  /\ CanStart(o, "adopt")
  /\ \A other \in Ops : ~op[other].gone
  /\ ~adopted /\ adopted' = TRUE
  /\ Goes(o, [Idle EXCEPT !.pc = "listing", !.kind = "adopt"])
  /\ UNCHANGED <<sessionVars, label, live, contexts, shown, scoped, connecting, left, reloads>>

(* Sessions, in Go. *)
GoSessions(o) ==
  /\ op[o].pc = "listing"
  /\ Answers(o, [op[o] EXCEPT !.pc = "deciding", !.list = registry])
  /\ left' = IF op[o].gone THEN left ELSE {}
  /\ UNCHANGED <<sessionVars, label, pageVars, reloads>>

Held(s) == \E c \in Clusters : live[c] = s

(* The next session of the list, in the order of Sessions: ours already.   *)
Keeps(o, s) ==
  /\ At(o, "deciding") /\ s \in op[o].list
  /\ Held(s)
  /\ Goes(o, [op[o] EXCEPT !.list = @ \ {s}])
  /\ UNCHANGED <<sessionVars, label, pageVars, left, reloads>>

(* Not ours: another one is live, or the catalog does not list it any more *)
Discards(o, s) ==
  /\ At(o, "deciding") /\ s \in op[o].list
  /\ ~Held(s)
  /\ Goes(o, [op[o] EXCEPT !.list = @ \ {s}, !.pc = "discarding", !.s = s])
  /\ UNCHANGED <<sessionVars, label, pageVars, left, reloads>>

(* Perhaps ours: whether it still answers is asked over a context of it.   *)
Proves(o, s) ==
  /\ At(o, "deciding") /\ s \in op[o].list
  /\ ~Held(s) /\ live[label[s]] = None
  /\ Goes(o, [op[o] EXCEPT !.list = @ \ {s}, !.pc = "proving", !.c = label[s], !.s = s])
  /\ contexts' = [contexts EXCEPT ![label[s]] = s]
  /\ UNCHANGED <<sessionVars, label, live, shown, scoped, connecting, adopted, left, reloads>>

Reclaims(o) ==
  /\ At(o, "proving")
  /\ live' = [live EXCEPT ![op[o].c] = op[o].s]
  /\ Goes(o, [op[o] EXCEPT !.pc = "deciding", !.taken = @ \cup {op[o].s}])
  /\ UNCHANGED <<sessionVars, label, contexts, shown, scoped, connecting, adopted, left, reloads>>

GivesUp(o) ==
  /\ At(o, "proving")
  /\ contexts' = Released(o)
  /\ Goes(o, [op[o] EXCEPT !.pc = "discarding"])
  /\ UNCHANGED <<sessionVars, label, live, shown, scoped, connecting, adopted, left, reloads>>

GoDiscards(o) ==
  /\ op[o].pc = "discarding"
  /\ IF op[o].s \in registry THEN Remove(op[o].s) ELSE UNCHANGED sessionVars
  /\ Answers(o, [op[o] EXCEPT !.pc = "deciding"])
  /\ UNCHANGED <<label, pageVars, left, reloads>>

ListDone(o) ==
  /\ At(o, "deciding") /\ op[o].list = {}
  /\ Goes(o, IF op[o].taken = {} THEN Idle ELSE [op[o] EXCEPT !.pc = "adopting"])
  /\ UNCHANGED <<sessionVars, label, pageVars, left, reloads>>

(* The scope of each is known by now: one that cannot be read is taken to  *)
(* be every namespace.                                                     *)
Adopts(o) ==
  /\ At(o, "adopting")
  /\ scoped' = scoped \cup {label[s] : s \in op[o].taken}
  /\ shown' = [c \in Clusters |->
       LET mine == {s \in op[o].taken : label[s] = c}
       IN IF mine = {} THEN shown[c] ELSE CHOOSE s \in mine : TRUE]
  /\ Goes(o, Idle)
  /\ UNCHANGED <<sessionVars, label, live, contexts, connecting, adopted, left, reloads>>

-----------------------------------------------------------------------------
(* The webview reloads: only calls Go has still to carry out remain.       *)
Reload ==
  /\ reloads < MaxReloads
  /\ reloads' = reloads + 1 /\ crossed' = {}
  /\ live' = [c \in Clusters |-> None] /\ contexts' = live' /\ shown' = live'
  /\ scoped' = {} /\ connecting' = {} /\ adopted' = FALSE
  /\ left' = registry
  /\ op' = [o \in Ops |->
       IF op[o].pc \in {"dialing", "closing", "listing", "discarding"}
       THEN [op[o] EXCEPT !.gone = TRUE] ELSE Idle]
  /\ UNCHANGED <<sessionVars, label>>

(* Go closes what it took out of the registry. *)
GoCloses(s) ==
  /\ CloseOne(s)
  /\ UNCHANGED <<label, pageVars, op, left, reloads>>

OpStep(o) ==
  \/ SpecFails(o) \/ SpecRead(o) \/ GoRejects(o) \/ AskVersion(o) \/ VersionRead(o)
  \/ ScopeFails(o) \/ ScopeRead(o) \/ Drained(o) \/ GoDisconnect(o) \/ Closed(o)
  \/ GoSessions(o) \/ Reclaims(o) \/ GivesUp(o) \/ GoDiscards(o) \/ ListDone(o) \/ Adopts(o)
  \/ \E s \in Sessions : GoConnect(o, s) \/ Keeps(o, s) \/ Discards(o, s) \/ Proves(o, s)

(* History: what a call of this page has in hand, connecting, disconnecting
   or going through its list. *)
DealsWith(o, c) ==
  /\ op[o].pc # "idle" /\ ~op[o].gone
  /\ op[o].c = c \/ \E s \in op[o].list \cup ({op[o].s} \ {None}) : label[s] = c
Crossing == {c \in Clusters : \E o1, o2 \in Ops : o1 # o2 /\ DealsWith(o1, c) /\ DealsWith(o2, c)}
Crosses  == crossed' = crossed \cup Crossing'

Next ==
  \/ /\ \/ \E o \in Ops :
             \/ OpStep(o) \/ AdoptCall(o)
             \/ \E c \in Clusters : ConnectCall(o, c) \/ DisconnectCall(o, c)
        \/ \E s \in Sessions : GoCloses(s)
     /\ Crosses
  \/ Reload

(* Go answers every call, the stop of a stream too, and a request to the   *)
(* cluster has a deadline, so an await ends; nobody is bound to call the   *)
(* store or to reload.                                                     *)
Fairness ==
  /\ \A o \in Ops : WF_vars(OpStep(o) /\ Crosses)
  /\ \A s \in Sessions : WF_vars(GoCloses(s) /\ Crosses)

Spec == Init /\ [][Next]_vars /\ Fairness

-----------------------------------------------------------------------------
(* Properties.                                                             *)

(* Every variable keeps its type. *)
TypeOK ==
  /\ SessionsTypeOK
  /\ label \in [Sessions -> Clusters \cup {None}]
  /\ live \in [Clusters -> Sessions \cup {None}]
  /\ contexts \in [Clusters -> Sessions \cup {None}]
  /\ shown \in [Clusters -> Sessions \cup {None}]
  /\ scoped \subseteq Clusters /\ connecting \subseteq Clusters /\ adopted \in BOOLEAN
  /\ op \in [Ops -> Calls]
  /\ left \subseteq Sessions /\ reloads \in 0..MaxReloads /\ crossed \subseteq Clusters

(* A call still has the session in hand. *)
InHand(s) == \E o \in Ops : op[o].pc # "idle" /\ ~op[o].gone
                              /\ (op[o].s = s \/ s \in op[o].list)

(* No session stays open in Go with nothing left holding its id: it is     *)
(* live, in the hand of a call, or left by a reload for adopt to find.     *)
(* Excepted are the clusters that two calls of this page dealt with at     *)
(* once: an adoption, a connect and a disconnect of the same cluster write *)
(* over one another and do strand a session.  Calls for other clusters,    *)
(* whatever their kind, never do.                                          *)
NothingStranded == \A s \in registry : Held(s) \/ InHand(s) \/ s \in left \/ label[s] \in crossed

Quiet == \A o \in Ops : op[o].pc = "idle"

(* A cluster never reads as connected while its scope is unknown, or its   *)
(* lists would already be on their way to every namespace.                 *)
ScopeKnownWhenShown == \A c \in Clusters : shown[c] # None => c \in scoped

Connects(o) == op[o].pc # "idle" /\ op[o].kind = "connect" /\ ~op[o].gone

(* One connect to a cluster at a time: the flag of each lasts as long as   *)
(* the call, whatever way it and the others end.                           *)
OneConnectEach ==
  \A o1, o2 \in Ops :
    o1 # o2 /\ Connects(o1) /\ Connects(o2) => op[o1].c # op[o2].c

(* A connect that started ends, so the flag does not shut out the next.    *)
ConnectEnds == \A c \in Clusters : (c \in connecting) ~> (c \notin connecting)
=============================================================================
