-------------------------- MODULE SessionRegistry --------------------------
(***************************************************************************)
(* The sessions the Go services share: the registry's map, the sessions    *)
(* that left it and are not closed yet, and the context each session lends *)
(* to whatever is opened over it.  The services extend this module and add *)
(* what their own variables do in each of these steps.                     *)
(***************************************************************************)
EXTENDS FiniteSets

CONSTANT Sessions    \* ids handed out by newSession

VARIABLES
  registry,    \* SessionRegistry.sessions
  closing,     \* sessions out of the registry whose close() has not run yet
  sessionCtx   \* the context every request of a session is a child of

sessionVars == <<registry, closing, sessionCtx>>

SessionsInit ==
  /\ registry = {}
  /\ closing = {}
  /\ sessionCtx = [k \in Sessions |-> "unborn"]

Add(k) ==
  /\ sessionCtx[k] = "unborn"
  /\ sessionCtx' = [sessionCtx EXCEPT ![k] = "live"]
  /\ registry' = registry \cup {k}
  /\ UNCHANGED closing

(* Remove takes the session out of the map under the lock and closes it    *)
(* after the unlock; an unknown id is answered without touching anything.  *)
Remove(k) ==
  /\ k \in registry
  /\ registry' = registry \ {k}
  /\ closing' = closing \cup {k}
  /\ UNCHANGED sessionCtx

(* Session.close: the context ends, and with it every child. *)
CloseOne(k) ==
  /\ k \in closing
  /\ closing' = closing \ {k}
  /\ sessionCtx' = [sessionCtx EXCEPT ![k] = "cancelled"]
  /\ UNCHANGED registry

(* Close empties the map under the lock and closes what it held one by one. *)
CloseAll ==
  /\ registry' = {}
  /\ closing' = closing \cup registry
  /\ UNCHANGED sessionCtx

SessionsTypeOK ==
  /\ registry \subseteq Sessions
  /\ closing \subseteq Sessions
  /\ sessionCtx \in [Sessions -> {"unborn", "live", "cancelled"}]
=============================================================================
