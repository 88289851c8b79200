---------------------- MODULE ClusterConnectionsProofs ----------------------
(***************************************************************************)
(* Proofs about ClusterConnections for any number of clusters, sessions    *)
(* and calls, overlapping or not.                                          *)
(***************************************************************************)
EXTENDS ClusterConnections, TLAPS

(* What only connect waits for, and what only adopt does. *)
ConnectWaits == {"spec", "dialing", "dialed", "reading", "scoping"}
AdoptWaits   == {"listing", "deciding", "proving", "discarding", "adopting"}

(* The flag of a connect stands as long as the call. *)
FlagHeld == \A o \in Ops : Connects(o) => op[o].c \in connecting

(* A session that was ever opened is labelled with the context of a        *)
(* cluster, and the calls have only such sessions in hand.                 *)
Labelled == {s \in Sessions : label[s] \in Clusters}
Good == {r \in Calls :
  /\ r.list \subseteq Labelled /\ r.taken \subseteq Labelled
  /\ r.pc = "proving" => r.s \in Labelled
  /\ r.kind = "connect" /\ r.pc \in ConnectWaits \cup {"draining", "closing", "closed"} => r.c \in Clusters
  /\ r.pc \in ConnectWaits => r.kind = "connect"
  /\ r.pc \in AdoptWaits => r.kind = "adopt"}

TypeInv == TypeOK /\ registry \subseteq Labelled /\ op \in [Ops -> Good]
FlagInv == TypeInv /\ FlagHeld /\ OneConnectEach

(* No call starts, and none changes its cluster. *)
Follows == \A o \in Ops : Connects(o)' => Connects(o) /\ op'[o].c = op[o].c

-----------------------------------------------------------------------------
LEMMA IdleGood == Idle \in Good /\ Idle \in Calls
BY DEF Idle, Good, Calls, Waits, ConnectWaits, AdoptWaits

LEMMA FlagInit == Init => FlagInv
<1> SUFFICES ASSUME Init PROVE FlagInv
    OBVIOUS
<1>1. /\ op \in [Ops -> Calls] /\ op \in [Ops -> Good]
      /\ \A o \in Ops : op[o].pc = "idle"
  BY IdleGood DEF Init, Idle
<1>2. SessionsTypeOK /\ registry \subseteq Labelled
  BY DEF Init, SessionsInit, SessionsTypeOK
<1>3. reloads \in 0..MaxReloads
  BY CallBounds DEF Init
<1>4. /\ live \in [Clusters -> Sessions \cup {None}]
      /\ contexts \in [Clusters -> Sessions \cup {None}]
      /\ shown \in [Clusters -> Sessions \cup {None}]
      /\ label \in [Sessions -> Clusters \cup {None}]
  BY DEF Init
<1>5. TypeOK
  BY <1>1, <1>2, <1>3, <1>4, Zenon DEF Init, TypeOK
<1>6. FlagHeld /\ OneConnectEach
  BY <1>1 DEF FlagHeld, OneConnectEach, Connects
<1>. QED
  BY <1>1, <1>2, <1>5, <1>6 DEF FlagInv, TypeInv

(* A call that goes on as a good one, labels unchanged. *)
LEMMA GoesType ==
  ASSUME TypeInv, NEW o \in Ops, NEW rec \in Good, Goes(o, rec) \/ Answers(o, rec), label' = label
  PROVE  op' \in [Ops -> Calls] /\ op' \in [Ops -> Good'] /\ Labelled' = Labelled
<1>1. PICK r \in Good : op' = [op EXCEPT ![o] = r]
  BY IdleGood DEF Goes, Answers
<1>2. Labelled' = Labelled
  BY DEF Labelled
<1>3. Good' = Good
  BY <1>2 DEF Good
<1>4. op' \in [Ops -> Good]
  BY <1>1 DEF TypeInv
<1>5. Good \subseteq Calls
  BY DEF Good
<1>. QED
  BY <1>2, <1>3, <1>4, <1>5

(* Removing and closing keep the types of the registry. *)
LEMMA SessionTypes ==
  ASSUME TypeInv, NEW s \in Sessions, Remove(s) \/ CloseOne(s)
  PROVE  SessionsTypeOK' /\ registry' \subseteq Labelled
<1>1. CASE Remove(s)
  BY <1>1 DEF TypeInv, TypeOK, SessionsTypeOK, Remove
<1>2. CASE CloseOne(s)
  BY <1>2 DEF TypeInv, TypeOK, SessionsTypeOK, CloseOne
<1>. QED
  BY <1>1, <1>2

-----------------------------------------------------------------------------
(* The type invariant, step by step. *)

LEMMA CallTypes ==
  ASSUME TypeInv, crossed' \subseteq Clusters, NEW o \in Ops, NEW c,
         \/ c \in Clusters /\ (ConnectCall(o, c) \/ DisconnectCall(o, c))
         \/ AdoptCall(o)
  PROVE  TypeInv'
<1> USE DEF TypeInv, TypeOK, SessionsTypeOK, sessionVars, pageVars
<1> DEFINE cs == [Idle EXCEPT !.pc = "spec", !.c = c]
           ds == [Idle EXCEPT !.pc = "draining", !.kind = "disconnect", !.c = c, !.s = live[c]]
           as == [Idle EXCEPT !.pc = "listing", !.kind = "adopt"]
<1>0. (c \in Clusters => cs \in Good /\ ds \in Good) /\ as \in Good
  BY DEF Idle, Good, Calls, Waits, ConnectWaits, AdoptWaits
<1> HIDE DEF cs, ds, as
<1>1. CASE c \in Clusters /\ ConnectCall(o, c)
  <2>1. Goes(o, cs) /\ label' = label
    BY <1>1 DEF ConnectCall, cs
  <2>. QED
    BY <1>0, <1>1, <2>1, GoesType DEF ConnectCall
<1>2. CASE c \in Clusters /\ DisconnectCall(o, c)
  <2>1. Goes(o, ds) /\ label' = label
    BY <1>2 DEF DisconnectCall, ds
  <2>. QED
    BY <1>0, <1>2, <2>1, GoesType DEF DisconnectCall
<1>3. CASE AdoptCall(o)
  <2>1. Goes(o, as) /\ label' = label
    BY <1>3 DEF AdoptCall, as
  <2>. QED
    BY <1>0, <1>3, <2>1, GoesType DEF AdoptCall
<1>. QED
  BY <1>1, <1>2, <1>3

LEMMA FailsTypes ==
  ASSUME TypeInv, crossed' \subseteq Clusters, NEW o \in Ops, Fails(o)
  PROVE  TypeInv'
<1>1. Goes(o, Idle) /\ label' = label
  BY DEF Fails
<1>2. op' \in [Ops -> Calls] /\ op' \in [Ops -> Good'] /\ Labelled' = Labelled
  BY <1>1, IdleGood, GoesType
<1>. QED
  BY <1>2 DEF Fails, TypeInv, TypeOK, SessionsTypeOK, sessionVars

LEMMA ConnectTypes ==
  ASSUME TypeInv, crossed' \subseteq Clusters, NEW o \in Ops,
         SpecRead(o) \/ GoRejects(o) \/ AskVersion(o) \/ VersionRead(o) \/ ScopeRead(o)
  PROVE  TypeInv'
<1> USE DEF TypeInv, TypeOK, SessionsTypeOK, sessionVars, pageVars
<1>0. op[o] \in Good
  OBVIOUS
<1>1. CASE SpecRead(o)
  <2>1. op[o].c \in Clusters
    BY <1>0, <1>1 DEF SpecRead, At, Good, ConnectWaits
  <2>2. /\ [op[o] EXCEPT !.pc = "draining", !.s = live[op[o].c]] \in Good
        /\ [op[o] EXCEPT !.pc = "dialing"] \in Good
    BY <1>0, <1>1, <2>1 DEF SpecRead, At, Good, Calls, Waits, ConnectWaits, AdoptWaits
  <2>3. PICK rec \in Good : Goes(o, rec)
    BY <1>1, <2>2 DEF SpecRead
  <2>4. op' \in [Ops -> Calls] /\ op' \in [Ops -> Good'] /\ Labelled' = Labelled
    BY <1>1, <2>3, GoesType DEF SpecRead
  <2>. QED
    BY <1>1, <2>4 DEF SpecRead
<1>2. CASE GoRejects(o)
  <2>1. CASE op[o].gone
    <3>1. op' \in [Ops -> Calls] /\ op' \in [Ops -> Good'] /\ Labelled' = Labelled
      BY <1>2, <2>1, IdleGood, GoesType DEF GoRejects
    <3>. QED
      BY <1>2, <2>1, <3>1 DEF GoRejects
  <2>2. CASE ~op[o].gone
    BY <1>2, <2>2, FailsTypes DEF GoRejects
  <2>. QED
    BY <2>1, <2>2
<1>3. CASE AskVersion(o)
  <2>1. [op[o] EXCEPT !.pc = "reading"] \in Good /\ op[o].s \in Sessions \cup {None}
    BY <1>0, <1>3 DEF AskVersion, At, Good, Calls, Waits, ConnectWaits, AdoptWaits
  <2>2. Goes(o, [op[o] EXCEPT !.pc = "reading"]) \/ Answers(o, [op[o] EXCEPT !.pc = "reading"])
    BY <1>3 DEF AskVersion
  <2>3. op' \in [Ops -> Calls] /\ op' \in [Ops -> Good'] /\ Labelled' = Labelled
    BY <1>3, <2>1, <2>2, GoesType DEF AskVersion
  <2>. QED
    BY <1>3, <2>1, <2>3 DEF AskVersion, Released
<1>4. CASE VersionRead(o)
  <2>1. [op[o] EXCEPT !.pc = "scoping"] \in Good /\ op[o].s \in Sessions \cup {None}
    BY <1>0, <1>4 DEF VersionRead, At, Good, Calls, Waits, ConnectWaits, AdoptWaits
  <2>2. Goes(o, [op[o] EXCEPT !.pc = "scoping"]) \/ Answers(o, [op[o] EXCEPT !.pc = "scoping"])
    BY <1>4 DEF VersionRead
  <2>3. op' \in [Ops -> Calls] /\ op' \in [Ops -> Good'] /\ Labelled' = Labelled
    BY <1>4, <2>1, <2>2, GoesType DEF VersionRead
  <2>. QED
    BY <1>4, <2>1, <2>3 DEF VersionRead, Released
<1>5. CASE ScopeRead(o)
  <2>1. op[o].s \in Sessions \cup {None} /\ op[o].c \in Clusters
    BY <1>0, <1>5 DEF ScopeRead, At, Good, Calls, ConnectWaits
  <2>2. op' \in [Ops -> Calls] /\ op' \in [Ops -> Good'] /\ Labelled' = Labelled
    BY <1>5, IdleGood, GoesType DEF ScopeRead
  <2>. QED
    BY <1>5, <2>1, <2>2 DEF ScopeRead
<1>. QED
  BY <1>1, <1>2, <1>3, <1>4, <1>5

(* Connect labels a session that had no label before. *)
LEMMA ConnectedTypes ==
  ASSUME TypeInv, crossed' \subseteq Clusters, NEW o \in Ops, NEW s \in Sessions, GoConnect(o, s)
  PROVE  TypeInv'
<1> USE DEF TypeInv, TypeOK, SessionsTypeOK, sessionVars, pageVars
<1>0. op[o] \in Good
  OBVIOUS
<1>1. op[o].c \in Clusters /\ op[o].pc = "dialing"
  BY <1>0 DEF GoConnect, Good, ConnectWaits
<1>2. label' \in [Sessions -> Clusters \cup {None}] /\ Labelled' = Labelled \cup {s}
  BY <1>1 DEF GoConnect, Labelled
<1>3. Good \subseteq Good'
  BY <1>2 DEF Good
<1>4. [op[o] EXCEPT !.pc = "dialed", !.s = s] \in Good
  BY <1>0, <1>1 DEF Good, Calls, Waits, ConnectWaits, AdoptWaits
<1>5. PICK rec \in Good : op' = [op EXCEPT ![o] = rec]
  BY <1>4, IdleGood DEF GoConnect, Answers, Goes
<1>6. op' \in [Ops -> Good]
  BY <1>5
<1>7. op' \in [Ops -> Good'] /\ op' \in [Ops -> Calls]
  BY <1>3, <1>6 DEF Good
<1>8. SessionsTypeOK' /\ registry' \subseteq Labelled'
  BY <1>2 DEF GoConnect, Add
<1>. QED
  BY <1>2, <1>7, <1>8 DEF GoConnect

LEMMA DisconnectTypes ==
  ASSUME TypeInv, crossed' \subseteq Clusters, NEW o \in Ops, Drained(o) \/ GoDisconnect(o) \/ Closed(o) \/ GoDiscards(o)
  PROVE  TypeInv'
<1> USE DEF TypeInv, TypeOK, SessionsTypeOK, sessionVars, pageVars
<1>0. op[o] \in Good
  OBVIOUS
<1>1. CASE GoDisconnect(o)
  <2> DEFINE found == op[o].s \in registry
  <2>0. found \in BOOLEAN
    OBVIOUS
  <2>1. Answers(o, [op[o] EXCEPT !.pc = "closed", !.ok = found])
    BY <1>1 DEF GoDisconnect
  <2> HIDE DEF found
  <2>2. [op[o] EXCEPT !.pc = "closed", !.ok = found] \in Good
    BY <1>0, <1>1, <2>0 DEF GoDisconnect, Good, Calls, Waits, ConnectWaits, AdoptWaits
  <2>3. op' \in [Ops -> Calls] /\ op' \in [Ops -> Good'] /\ Labelled' = Labelled
    BY <1>1, <2>1, <2>2, GoesType DEF GoDisconnect
  <2>4. SessionsTypeOK' /\ registry' \subseteq Labelled
    BY <1>1, SessionTypes DEF GoDisconnect
  <2>. QED
    BY <1>1, <2>3, <2>4 DEF GoDisconnect
<1>2. CASE Closed(o)
  <2>1. op[o].kind = "connect" => [op[o] EXCEPT !.pc = "dialing", !.s = None] \in Good
    BY <1>0, <1>2 DEF Closed, At, Good, Calls, Waits, ConnectWaits, AdoptWaits
  <2>2. PICK rec \in Good : Goes(o, rec)
    BY <1>2, <2>1, IdleGood DEF Closed
  <2>3. op' \in [Ops -> Calls] /\ op' \in [Ops -> Good'] /\ Labelled' = Labelled
    BY <1>2, <2>2, GoesType DEF Closed
  <2>4. /\ contexts' \in [Clusters -> Sessions \cup {None}]
        /\ live' \in [Clusters -> Sessions \cup {None}]
        /\ shown' \in [Clusters -> Sessions \cup {None}]
        /\ connecting' \subseteq Clusters
    BY <1>2 DEF Closed, Released
  <2>. QED
    BY <1>2, <2>3, <2>4 DEF Closed
<1>3. CASE GoDiscards(o)
  <2>1. [op[o] EXCEPT !.pc = "deciding"] \in Good
    BY <1>0, <1>3 DEF GoDiscards, Good, Calls, Waits, ConnectWaits, AdoptWaits
  <2>2. op' \in [Ops -> Calls] /\ op' \in [Ops -> Good'] /\ Labelled' = Labelled
    BY <1>3, <2>1, GoesType DEF GoDiscards
  <2>3. SessionsTypeOK' /\ registry' \subseteq Labelled
    BY <1>3, SessionTypes DEF GoDiscards
  <2>. QED
    BY <1>3, <2>2, <2>3 DEF GoDiscards
<1>4. CASE Drained(o)
  <2>1. [op[o] EXCEPT !.pc = "closing"] \in Good
    BY <1>0, <1>4 DEF Drained, At, Good, Calls, Waits, ConnectWaits, AdoptWaits
  <2>2. op' \in [Ops -> Calls] /\ op' \in [Ops -> Good'] /\ Labelled' = Labelled
    BY <1>4, <2>1, GoesType DEF Drained
  <2>. QED
    BY <1>4, <2>2 DEF Drained
<1>. QED
  BY <1>1, <1>2, <1>3, <1>4

LEMMA AdoptTypes ==
  ASSUME TypeInv, crossed' \subseteq Clusters, NEW o \in Ops,
         GoSessions(o) \/ Reclaims(o) \/ GivesUp(o) \/ ListDone(o) \/ Adopts(o)
  PROVE  TypeInv'
<1> USE DEF TypeInv, TypeOK, SessionsTypeOK, sessionVars, pageVars
<1>0. op[o] \in Good
  OBVIOUS
<1>1. CASE GoSessions(o)
  <2>1. [op[o] EXCEPT !.pc = "deciding", !.list = registry] \in Good
    BY <1>0, <1>1 DEF GoSessions, At, Good, Calls, Waits, ConnectWaits, AdoptWaits
  <2>2. Goes(o, [op[o] EXCEPT !.pc = "deciding", !.list = registry]) \/ Answers(o, [op[o] EXCEPT !.pc = "deciding", !.list = registry])
    BY <1>1 DEF GoSessions
  <2>3. op' \in [Ops -> Calls] /\ op' \in [Ops -> Good'] /\ Labelled' = Labelled
    BY <1>1, <2>1, <2>2, GoesType DEF GoSessions
  <2>. QED
    BY <1>1, <2>1, <2>3 DEF GoSessions, Released
<1>2. CASE Reclaims(o)
  <2>1. [op[o] EXCEPT !.pc = "deciding", !.taken = @ \cup {op[o].s}] \in Good /\ op[o].s \in Sessions
    BY <1>0, <1>2 DEF Reclaims, At, Good, Calls, Waits, ConnectWaits, AdoptWaits, Labelled
  <2>2. Goes(o, [op[o] EXCEPT !.pc = "deciding", !.taken = @ \cup {op[o].s}]) \/ Answers(o, [op[o] EXCEPT !.pc = "deciding", !.taken = @ \cup {op[o].s}])
    BY <1>2 DEF Reclaims
  <2>3. op' \in [Ops -> Calls] /\ op' \in [Ops -> Good'] /\ Labelled' = Labelled
    BY <1>2, <2>1, <2>2, GoesType DEF Reclaims
  <2>. QED
    BY <1>2, <2>1, <2>3 DEF Reclaims, Released
<1>3. CASE GivesUp(o)
  <2>1. [op[o] EXCEPT !.pc = "discarding"] \in Good
    BY <1>0, <1>3 DEF GivesUp, At, Good, Calls, Waits, ConnectWaits, AdoptWaits
  <2>2. Goes(o, [op[o] EXCEPT !.pc = "discarding"]) \/ Answers(o, [op[o] EXCEPT !.pc = "discarding"])
    BY <1>3 DEF GivesUp
  <2>3. op' \in [Ops -> Calls] /\ op' \in [Ops -> Good'] /\ Labelled' = Labelled
    BY <1>3, <2>1, <2>2, GoesType DEF GivesUp
  <2>. QED
    BY <1>3, <2>1, <2>3 DEF GivesUp, Released
<1>4. CASE ListDone(o)
  <2>1. [op[o] EXCEPT !.pc = "adopting"] \in Good
    BY <1>0, <1>4 DEF ListDone, At, Good, Calls, Waits, ConnectWaits, AdoptWaits
  <2>2. PICK rec \in Good : Goes(o, rec)
    BY <1>4, <2>1, IdleGood DEF ListDone
  <2>3. op' \in [Ops -> Calls] /\ op' \in [Ops -> Good'] /\ Labelled' = Labelled
    BY <1>4, <2>2, GoesType DEF ListDone
  <2>. QED
    BY <1>4, <2>3 DEF ListDone
<1>5. CASE Adopts(o)
  <2>1. op' \in [Ops -> Calls] /\ op' \in [Ops -> Good'] /\ Labelled' = Labelled
    BY <1>5, IdleGood, GoesType DEF Adopts
  <2>2. op[o].taken \subseteq Labelled
    BY <1>0 DEF Good
  <2>3. scoped' \subseteq Clusters
    BY <1>5, <2>2 DEF Adopts, Labelled
  <2>4. shown' \in [Clusters -> Sessions \cup {None}]
    <3>1. ASSUME NEW c \in Clusters PROVE shown'[c] \in Sessions \cup {None}
      <4> DEFINE mine == {s \in op[o].taken : label[s] = c}
      <4>1. shown'[c] = IF mine = {} THEN shown[c] ELSE CHOOSE s \in mine : TRUE
        BY <1>5 DEF Adopts
      <4>2. mine \subseteq Sessions
        BY <2>2 DEF Labelled
      <4>3. mine # {} => (CHOOSE s \in mine : TRUE) \in mine
        OBVIOUS
      <4>. QED
        BY <4>1, <4>2, <4>3
    <3>. QED
      BY <1>5, <3>1 DEF Adopts
  <2>. QED
    BY <1>5, <2>1, <2>3, <2>4 DEF Adopts
<1>. QED
  BY <1>1, <1>2, <1>3, <1>4, <1>5

LEMMA DecideTypes ==
  ASSUME TypeInv, crossed' \subseteq Clusters, NEW o \in Ops, NEW s \in Sessions,
         Keeps(o, s) \/ Discards(o, s) \/ Proves(o, s)
  PROVE  TypeInv'
<1> USE DEF TypeInv, TypeOK, SessionsTypeOK, sessionVars, pageVars
<1>0. op[o] \in Good
  OBVIOUS
<1>1. CASE Keeps(o, s)
  <2>1. [op[o] EXCEPT !.list = @ \ {s}] \in Good
    BY <1>0, <1>1 DEF Keeps, At, Good, Calls, Waits, ConnectWaits, AdoptWaits
  <2>2. Goes(o, [op[o] EXCEPT !.list = @ \ {s}]) \/ Answers(o, [op[o] EXCEPT !.list = @ \ {s}])
    BY <1>1 DEF Keeps
  <2>3. op' \in [Ops -> Calls] /\ op' \in [Ops -> Good'] /\ Labelled' = Labelled
    BY <1>1, <2>1, <2>2, GoesType DEF Keeps
  <2>. QED
    BY <1>1, <2>1, <2>3 DEF Keeps, Released
<1>2. CASE Discards(o, s)
  <2>1. [op[o] EXCEPT !.list = @ \ {s}, !.pc = "discarding", !.s = s] \in Good
    BY <1>0, <1>2 DEF Discards, At, Good, Calls, Waits, ConnectWaits, AdoptWaits
  <2>2. Goes(o, [op[o] EXCEPT !.list = @ \ {s}, !.pc = "discarding", !.s = s]) \/ Answers(o, [op[o] EXCEPT !.list = @ \ {s}, !.pc = "discarding", !.s = s])
    BY <1>2 DEF Discards
  <2>3. op' \in [Ops -> Calls] /\ op' \in [Ops -> Good'] /\ Labelled' = Labelled
    BY <1>2, <2>1, <2>2, GoesType DEF Discards
  <2>. QED
    BY <1>2, <2>1, <2>3 DEF Discards, Released
<1>3. CASE Proves(o, s)
  <2>1. [op[o] EXCEPT !.list = @ \ {s}, !.pc = "proving", !.c = label[s], !.s = s] \in Good
    BY ZenonT(30), <1>0, <1>3 DEF Proves, At, Good, Calls, Waits, ConnectWaits, AdoptWaits
  <2>2. Goes(o, [op[o] EXCEPT !.list = @ \ {s}, !.pc = "proving", !.c = label[s], !.s = s]) \/ Answers(o, [op[o] EXCEPT !.list = @ \ {s}, !.pc = "proving", !.c = label[s], !.s = s])
    BY <1>3 DEF Proves
  <2>3. op' \in [Ops -> Calls] /\ op' \in [Ops -> Good'] /\ Labelled' = Labelled
    BY <1>3, <2>1, <2>2, GoesType DEF Proves
  <2>. QED
    BY <1>3, <2>1, <2>3 DEF Proves, Released
<1>. QED
  BY <1>1, <1>2, <1>3

LEMMA ReloadTypes == TypeInv /\ Reload => TypeInv'
<1> SUFFICES ASSUME TypeInv, Reload PROVE TypeInv'
    OBVIOUS
<1> USE DEF TypeInv, TypeOK, SessionsTypeOK, sessionVars
<1>1. Labelled' = Labelled
  BY DEF Reload, Labelled
<1>2. Good' = Good
  BY <1>1 DEF Good
<1>0. \A o \in Ops : op[o] \in Good
  OBVIOUS
<1>3. \A o \in Ops : [op[o] EXCEPT !.gone = TRUE] \in Good
  BY ZenonT(30), <1>0 DEF Good, Calls
<1>4. op' \in [Ops -> Good]
  BY <1>3, IdleGood DEF Reload
<1>5. op' \in [Ops -> Calls] /\ op' \in [Ops -> Good']
  BY <1>2, <1>4 DEF Good
<1>6. reloads' \in 0..MaxReloads
  BY CallBounds DEF Reload
<1>7. /\ live' \in [Clusters -> Sessions \cup {None}]
      /\ contexts' \in [Clusters -> Sessions \cup {None}]
      /\ shown' \in [Clusters -> Sessions \cup {None}]
  BY DEF Reload
<1>. QED
  BY <1>1, <1>5, <1>6, <1>7 DEF Reload

LEMMA ClosesTypes ==
  ASSUME TypeInv, crossed' \subseteq Clusters, NEW s \in Sessions, GoCloses(s)
  PROVE  TypeInv'
<1>1. SessionsTypeOK' /\ registry' \subseteq Labelled
  BY SessionTypes DEF GoCloses
<1>2. Labelled' = Labelled
  BY DEF GoCloses, Labelled
<1>3. Good' = Good
  BY <1>2 DEF Good
<1>. QED
  BY <1>1, <1>2, <1>3 DEF GoCloses, TypeInv, TypeOK, pageVars

-----------------------------------------------------------------------------
(* The flags.                                                              *)

(* A step in which no connect starts and no flag is cleared. *)
LEMMA FollowsKeeps ==
  ASSUME FlagHeld, OneConnectEach, Follows, connecting \subseteq connecting'
  PROVE  FlagHeld' /\ OneConnectEach'
<1>1. FlagHeld'
  BY DEF FlagHeld, Follows
<1>2. OneConnectEach'
  BY DEF OneConnectEach, Follows
<1>. QED
  BY <1>1, <1>2

(* A step in which one call goes on, as the same kind for the same cluster *)
(* or not as a connect.                                                    *)
LEMMA GoesFollows ==
  ASSUME TypeInv, NEW o \in Ops, NEW rec, Goes(o, rec) \/ Answers(o, rec),
         rec.pc # "idle" /\ rec.kind = "connect" /\ ~rec.gone =>
           Connects(o) /\ rec.c = op[o].c
  PROVE  Follows
<1>1. Idle.pc = "idle"
  BY DEF Idle
<1>. QED
  BY <1>1 DEF Follows, Goes, Answers, Connects, TypeInv

(* A connect ends and its flag goes with it. *)
LEMMA EndsKeeps ==
  ASSUME TypeInv, FlagHeld, OneConnectEach, NEW o \in Ops, Connects(o),
         Goes(o, Idle), connecting' = connecting \ {op[o].c}
  PROVE  FlagHeld' /\ OneConnectEach'
<1>1. Follows
  BY GoesFollows DEF Idle
<1>2. ~Connects(o)'
  BY DEF Goes, Connects, Idle, TypeInv
<1>3. FlagHeld'
  BY <1>1, <1>2 DEF FlagHeld, OneConnectEach, Follows
<1>4. OneConnectEach'
  BY <1>1 DEF OneConnectEach, Follows
<1>. QED
  BY <1>3, <1>4

(* The history holds clusters. *)
LEMMA CrossedType == TypeInv /\ [Next]_vars => crossed' \subseteq Clusters
BY DEF TypeInv, TypeOK, Next, Crosses, Crossing, Reload, vars

LEMMA FlagStep == FlagInv /\ [Next]_vars => FlagInv'
<1> SUFFICES ASSUME TypeInv, FlagHeld, OneConnectEach, [Next]_vars, crossed' \subseteq Clusters
             PROVE  FlagInv'
    BY CrossedType DEF FlagInv
<1>0. \A o \in Ops : op[o] \in Good
  BY DEF TypeInv
<1>1. ASSUME NEW o \in Ops, NEW c \in Clusters, ConnectCall(o, c) PROVE FlagInv'
  <2>1. TypeInv'
    BY <1>1, CallTypes
  <2>2. \A p \in Ops : Connects(p)' => (p = o /\ op'[p].c = c)
                                    \/ (p # o /\ Connects(p) /\ op'[p].c = op[p].c)
    BY <1>1 DEF ConnectCall, Goes, Connects, Idle, TypeInv
  <2>3. FlagHeld'
    BY <1>1, <2>2 DEF ConnectCall, FlagHeld
  <2>4. OneConnectEach'
    BY <1>1, <2>2 DEF ConnectCall, FlagHeld, OneConnectEach
  <2>. QED
    BY <2>1, <2>3, <2>4 DEF FlagInv
<1>2. ASSUME NEW o \in Ops, NEW c \in Clusters, DisconnectCall(o, c) PROVE FlagInv'
  <2>1. TypeInv'
    BY <1>2, CallTypes
  <2>2. Follows /\ connecting' = connecting
    BY <1>2, GoesFollows DEF DisconnectCall, Idle, pageVars
  <2>. QED
    BY <2>1, <2>2, FollowsKeeps DEF FlagInv
<1>3. ASSUME NEW o \in Ops, AdoptCall(o) PROVE FlagInv'
  <2>1. TypeInv'
    BY <1>3, CallTypes
  <2>2. Follows /\ connecting' = connecting
    BY <1>3, GoesFollows DEF AdoptCall, Idle
  <2>. QED
    BY <2>1, <2>2, FollowsKeeps DEF FlagInv
<1>4. ASSUME NEW o \in Ops, op[o].pc \in ConnectWaits, ~op[o].gone, Fails(o) PROVE FlagInv'
  <2>1. Connects(o)
    BY <1>0, <1>4 DEF Good, ConnectWaits, Connects
  <2>. QED
    BY <1>4, <2>1, FailsTypes, EndsKeeps DEF Fails, FlagInv
<1>5. ASSUME NEW o \in Ops, SpecFails(o) \/ ScopeFails(o) PROVE FlagInv'
  BY <1>4, <1>5 DEF SpecFails, ScopeFails, At, ConnectWaits
<1>6. ASSUME NEW o \in Ops, SpecRead(o) PROVE FlagInv'
  <2>1. TypeInv'
    BY <1>6, ConnectTypes
  <2>2. Follows /\ connecting' = connecting
    BY <1>0, <1>6, GoesFollows DEF SpecRead, At, Good, Calls, Connects, Idle, pageVars
  <2>. QED
    BY <2>1, <2>2, FollowsKeeps DEF FlagInv
<1>7. ASSUME NEW o \in Ops, AskVersion(o) PROVE FlagInv'
  <2>1. TypeInv'
    BY <1>7, ConnectTypes
  <2>2. Follows /\ connecting' = connecting
    BY <1>0, <1>7, GoesFollows DEF AskVersion, At, Good, Calls, Connects, Idle, pageVars
  <2>. QED
    BY <2>1, <2>2, FollowsKeeps DEF FlagInv
<1>8. ASSUME NEW o \in Ops, VersionRead(o) PROVE FlagInv'
  <2>1. TypeInv'
    BY <1>8, ConnectTypes
  <2>2. Follows /\ connecting' = connecting
    BY <1>0, <1>8, GoesFollows DEF VersionRead, At, Good, Calls, Connects, Idle, pageVars
  <2>. QED
    BY <2>1, <2>2, FollowsKeeps DEF FlagInv
<1>9. ASSUME NEW o \in Ops, NEW s \in Sessions, GoConnect(o, s) PROVE FlagInv'
  <2>1. TypeInv'
    BY <1>9, ConnectedTypes
  <2>2. Follows /\ connecting' = connecting
    BY <1>0, <1>9, GoesFollows DEF GoConnect, At, Good, Calls, Connects, Idle, pageVars
  <2>. QED
    BY <2>1, <2>2, FollowsKeeps DEF FlagInv
<1>10. ASSUME NEW o \in Ops, GoDisconnect(o) PROVE FlagInv'
  <2>1. TypeInv'
    BY <1>10, DisconnectTypes
  <2>2. Follows /\ connecting' = connecting
    BY <1>0, <1>10, GoesFollows DEF GoDisconnect, At, Good, Calls, Connects, Idle, pageVars
  <2>. QED
    BY <2>1, <2>2, FollowsKeeps DEF FlagInv
<1>11. ASSUME NEW o \in Ops, GoDiscards(o) PROVE FlagInv'
  <2>1. TypeInv'
    BY <1>11, DisconnectTypes
  <2>2. Follows /\ connecting' = connecting
    BY <1>0, <1>11, GoesFollows DEF GoDiscards, At, Good, Calls, Connects, Idle, pageVars
  <2>. QED
    BY <2>1, <2>2, FollowsKeeps DEF FlagInv
<1>12. ASSUME NEW o \in Ops, GoSessions(o) PROVE FlagInv'
  <2>1. TypeInv'
    BY <1>12, AdoptTypes
  <2>2. Follows /\ connecting' = connecting
    BY <1>0, <1>12, GoesFollows DEF GoSessions, At, Good, Calls, Connects, Idle, pageVars
  <2>. QED
    BY <2>1, <2>2, FollowsKeeps DEF FlagInv
<1>13. ASSUME NEW o \in Ops, Reclaims(o) PROVE FlagInv'
  <2>1. TypeInv'
    BY <1>13, AdoptTypes
  <2>2. Follows /\ connecting' = connecting
    BY <1>0, <1>13, GoesFollows DEF Reclaims, At, Good, Calls, Connects, Idle, pageVars
  <2>. QED
    BY <2>1, <2>2, FollowsKeeps DEF FlagInv
<1>14. ASSUME NEW o \in Ops, GivesUp(o) PROVE FlagInv'
  <2>1. TypeInv'
    BY <1>14, AdoptTypes
  <2>2. Follows /\ connecting' = connecting
    BY <1>0, <1>14, GoesFollows DEF GivesUp, At, Good, Calls, Connects, Idle, pageVars
  <2>. QED
    BY <2>1, <2>2, FollowsKeeps DEF FlagInv
<1>15. ASSUME NEW o \in Ops, ListDone(o) PROVE FlagInv'
  <2>1. TypeInv'
    BY <1>15, AdoptTypes
  <2>2. Follows /\ connecting' = connecting
    BY <1>0, <1>15, GoesFollows DEF ListDone, At, Good, Calls, Connects, Idle, pageVars
  <2>. QED
    BY <2>1, <2>2, FollowsKeeps DEF FlagInv
<1>16. ASSUME NEW o \in Ops, Adopts(o) PROVE FlagInv'
  <2>1. TypeInv'
    BY <1>16, AdoptTypes
  <2>2. Follows /\ connecting' = connecting
    BY <1>0, <1>16, GoesFollows DEF Adopts, At, Good, Calls, Connects, Idle, pageVars
  <2>. QED
    BY <2>1, <2>2, FollowsKeeps DEF FlagInv
<1>17. ASSUME NEW o \in Ops, NEW s \in Sessions, Keeps(o, s) PROVE FlagInv'
  <2>1. TypeInv'
    BY <1>17, DecideTypes
  <2>2. Follows /\ connecting' = connecting
    BY <1>0, <1>17,
     GoesFollows DEF Keeps, At, Good, Calls, Connects, Idle, pageVars
  <2>. QED
    BY <2>1, <2>2, FollowsKeeps DEF FlagInv
<1>18. ASSUME NEW o \in Ops, NEW s \in Sessions, Discards(o, s) PROVE FlagInv'
  <2>1. TypeInv'
    BY <1>18, DecideTypes
  <2>2. Follows /\ connecting' = connecting
    BY <1>0, <1>18, GoesFollows DEF Discards, At, Good, Calls, Connects, Idle, pageVars
  <2>. QED
    BY <2>1, <2>2, FollowsKeeps DEF FlagInv
<1>19. ASSUME NEW o \in Ops, NEW s \in Sessions, Proves(o, s) PROVE FlagInv'
  <2>1. TypeInv'
    BY <1>19, DecideTypes
  <2>2. Follows /\ connecting' = connecting
    BY <1>0, <1>19, GoesFollows DEF Proves, At, Good, AdoptWaits, Calls, Connects, Idle, pageVars
  <2>. QED
    BY <2>1, <2>2, FollowsKeeps DEF FlagInv
<1>20. ASSUME NEW o \in Ops, GoRejects(o) PROVE FlagInv'
  <2>1. TypeInv'
    BY <1>20, ConnectTypes
  <2>2. CASE op[o].gone
    <3>1. Follows /\ connecting' = connecting
      BY <1>20, <2>2, GoesFollows DEF GoRejects, Idle, pageVars
    <3>. QED
      BY <2>1, <3>1, FollowsKeeps DEF FlagInv
  <2>3. CASE ~op[o].gone
    BY <1>4, <1>20, <2>3 DEF GoRejects, ConnectWaits
  <2>. QED
    BY <2>2, <2>3
<1>21. ASSUME NEW o \in Ops, ScopeRead(o) PROVE FlagInv'
  <2>1. Connects(o)
    BY <1>0, <1>21 DEF ScopeRead, At, Good, ConnectWaits, Connects
  <2>. QED
    BY <1>21, <2>1, ConnectTypes, EndsKeeps DEF ScopeRead, FlagInv
<1>22. ASSUME NEW o \in Ops, Closed(o) PROVE FlagInv'
  <2>1. TypeInv'
    BY <1>22, DisconnectTypes
  <2>2. CASE op[o].kind = "connect" /\ ~op[o].ok
    <3>1. Connects(o)
      BY <1>22, <2>2 DEF Closed, At, Connects
    <3>. QED
      BY <1>22, <2>1, <2>2, <3>1, EndsKeeps DEF Closed, FlagInv
  <2>3. CASE op[o].kind = "connect" /\ op[o].ok
    <3>1. Follows /\ connecting' = connecting
      BY <1>0, <1>22, <2>3, GoesFollows DEF Closed, At, Good, Calls, Connects
    <3>. QED
      BY <2>1, <3>1, FollowsKeeps DEF FlagInv
  <2>4. CASE op[o].kind # "connect"
    <3>1. Follows /\ connecting' = connecting
      BY <1>22, <2>4, GoesFollows DEF Closed, Idle
    <3>. QED
      BY <2>1, <3>1, FollowsKeeps DEF FlagInv
  <2>. QED
    BY <2>2, <2>3, <2>4
<1>23. CASE Reload
  <2>1. TypeInv'
    BY <1>23, ReloadTypes
  <2>2. \A o \in Ops : ~Connects(o)'
    <3>1. \A o \in Ops : [op[o] EXCEPT !.gone = TRUE].gone
      BY <1>0 DEF Good, Calls
    <3>2. Idle.pc = "idle"
      BY DEF Idle
    <3>. QED
      BY <1>23, <3>1, <3>2 DEF Reload, Connects
  <2>. QED
    BY <2>1, <2>2 DEF FlagInv, FlagHeld, OneConnectEach
<1>24. ASSUME NEW s \in Sessions, GoCloses(s) PROVE FlagInv'
  <2>1. Follows /\ connecting' = connecting
    BY <1>24 DEF GoCloses, Follows, Connects, pageVars
  <2>. QED
    BY <1>24, <2>1, ClosesTypes, FollowsKeeps DEF FlagInv
<1>25. CASE UNCHANGED vars
  <2> USE <1>25 DEF vars, sessionVars, pageVars
  <2>1. Follows /\ connecting' = connecting
    BY DEF Follows, Connects
  <2>2. TypeOK' /\ registry' \subseteq Labelled' /\ Good' = Good
    BY DEF TypeInv, TypeOK, SessionsTypeOK, Labelled, Good
  <2>. QED
    BY <2>1, <2>2, FollowsKeeps DEF FlagInv, TypeInv
<1>26. ASSUME NEW o \in Ops, Drained(o) PROVE FlagInv'
  <2>1. TypeInv'
    BY <1>26, DisconnectTypes
  <2>2. Follows /\ connecting' = connecting
    BY <1>0, <1>26, GoesFollows DEF Drained, At, Good, Calls, Connects, Idle, pageVars
  <2>. QED
    BY <2>1, <2>2, FollowsKeeps DEF FlagInv
<1>. QED
  BY <1>1, <1>2, <1>3, <1>5, <1>6, <1>7, <1>8, <1>9, <1>10, <1>11, <1>12, <1>13, <1>14, <1>15, <1>16, <1>17,
     <1>18, <1>19, <1>20, <1>21, <1>22, <1>23, <1>24, <1>25, <1>26 DEF Next, OpStep

(* The store drops a second connect to a cluster while one is in flight:   *)
(* however connects, disconnects, adoptions and reloads interleave, the    *)
(* flag of a cluster belongs to at most one call, and every variable       *)
(* keeps its type.                                                         *)
THEOREM ConnectsApart == Spec => [](TypeOK /\ OneConnectEach)
<1>1. FlagInv => TypeOK /\ OneConnectEach
  BY DEF FlagInv, TypeInv
<1>. QED
  BY FlagInit, FlagStep, <1>1, PTL DEF Spec

-----------------------------------------------------------------------------
LEMMA ScopeStep ==
  TypeInv /\ ScopeKnownWhenShown /\ [Next]_vars => ScopeKnownWhenShown'
<1> SUFFICES ASSUME TypeInv, ScopeKnownWhenShown, [Next]_vars,
                    NEW c \in Clusters, shown'[c] # None
             PROVE  c \in scoped'
    BY DEF ScopeKnownWhenShown
<1> USE DEF ScopeKnownWhenShown, TypeInv, TypeOK
<1>1. ASSUME NEW o \in Ops, ScopeRead(o) PROVE c \in scoped'
  BY <1>1 DEF ScopeRead
<1>2. ASSUME NEW o \in Ops, Adopts(o) PROVE c \in scoped'
  <2> DEFINE mine == {s \in op[o].taken : label[s] = c}
  <2>1. CASE mine = {}
    BY <1>2, <2>1 DEF Adopts
  <2>2. CASE mine # {}
    BY <1>2, <2>2 DEF Adopts
  <2>. QED
    BY <2>1, <2>2
<1>3. ASSUME NEW o \in Ops, Closed(o) PROVE c \in scoped'
  BY <1>3 DEF Closed
<1>4. CASE Reload
  BY <1>4 DEF Reload
<1>5. CASE UNCHANGED <<shown, scoped>>
  BY <1>5
<1>6. ASSUME NEW o \in Ops, NEW d \in Clusters, ConnectCall(o, d) \/ DisconnectCall(o, d) \/ AdoptCall(o)
      PROVE  c \in scoped'
  BY <1>5, <1>6 DEF ConnectCall, DisconnectCall, AdoptCall, pageVars
<1>7. ASSUME NEW o \in Ops,
             SpecFails(o) \/ SpecRead(o) \/ GoRejects(o) \/ AskVersion(o) \/ VersionRead(o) \/ ScopeFails(o)
      PROVE  c \in scoped'
  BY <1>5, <1>7 DEF SpecFails, SpecRead, GoRejects, AskVersion, VersionRead, ScopeFails, Fails, pageVars
<1>8. ASSUME NEW o \in Ops,
             Drained(o) \/ GoDisconnect(o) \/ GoSessions(o) \/ Reclaims(o) \/ GivesUp(o)
               \/ GoDiscards(o) \/ ListDone(o)
      PROVE  c \in scoped'
  BY <1>5, <1>8 DEF Drained, GoDisconnect, GoSessions, Reclaims, GivesUp, GoDiscards, ListDone, pageVars
<1>9. ASSUME NEW o \in Ops, NEW s \in Sessions,
             GoConnect(o, s) \/ Keeps(o, s) \/ Discards(o, s) \/ Proves(o, s)
      PROVE  c \in scoped'
  BY <1>5, <1>9 DEF GoConnect, Keeps, Discards, Proves, pageVars
<1>10. ASSUME NEW s \in Sessions, GoCloses(s) PROVE c \in scoped'
  BY <1>5, <1>10 DEF GoCloses, pageVars
<1>11. ASSUME NEW o \in Ops, OpStep(o) PROVE c \in scoped'
  BY <1>1, <1>2, <1>3, <1>7, <1>8, <1>9, <1>11 DEF OpStep
<1>12. CASE Next
  BY <1>4, <1>6, <1>10, <1>11, <1>12 DEF Next
<1>. QED
  BY <1>5, <1>12 DEF vars, pageVars

(* A cluster never reads as connected before its namespace scope is known, *)
(* by whichever way the connection came.                                   *)
THEOREM ScopeHolds == Spec => []ScopeKnownWhenShown
<1>1. Init => ScopeKnownWhenShown
  BY DEF Init, ScopeKnownWhenShown
<1>2. FlagInv => TypeInv
  BY DEF FlagInv
<1>. QED
  BY FlagInit, FlagStep, ScopeStep, <1>1, <1>2, PTL DEF Spec

-----------------------------------------------------------------------------
(* In whose hand a session is.                                             *)

(* A call of the page that is there, and a session that was ever opened. *)
Active(o) == op[o].pc # "idle" /\ ~op[o].gone
Known(s)  == s # None => sessionCtx[s] # "unborn"

(* The waits in which a call has a session of its cluster in hand. *)
Placed == {"draining", "closing", "closed", "dialed", "reading", "scoping", "proving"}

(* What a call has in hand, by what it waits for.  Where no other call has *)
(* crossed it: the session that is live for its cluster, one that is to    *)
(* take the place of none, or, with all that is done, one that is live or  *)
(* gone from Go.                                                           *)
Hand(o) ==
  Active(o) =>
    /\ op[o].pc \notin AdoptWaits => op[o].list = {}
    /\ op[o].pc \in {"spec", "dialing", "listing"} => op[o].s = None
    /\ op[o].pc \in Placed => op[o].c \in Clusters /\ op[o].s \in Sessions /\ label[op[o].s] = op[o].c
    /\ op[o].pc \in {"draining", "closing", "closed", "scoping"} =>
         (op[o].c \notin crossed => live[op[o].c] = op[o].s)
    /\ op[o].pc = "closed" => op[o].s \notin registry
    /\ op[o].pc = "dialing" => op[o].c \in Clusters
    /\ op[o].pc \in {"dialing", "dialed", "reading", "proving"} =>
         (op[o].c \notin crossed => live[op[o].c] = None)
    /\ op[o].pc = "adopting" => op[o].list = {}
    /\ op[o].pc \in {"deciding", "adopting"} =>
         (op[o].s \in registry /\ label[op[o].s] \notin crossed => Held(op[o].s))
    /\ Known(op[o].s) /\ \A s \in op[o].list : Known(s)
KnownInv ==
  /\ \A c \in Clusters : live[c] # None => Known(live[c]) /\ label[live[c]] = c
  /\ \A s \in registry : Known(s)

(* Two calls of this page that have the same cluster in hand are crossed. *)
Apart     == Crossing \subseteq crossed
StrandInv == KnownInv /\ (\A o \in Ops : Hand(o)) /\ NothingStranded

(* A step of the page or of Go: no history is lost, and a session that was *)
(* ever opened stays one and keeps its label.                              *)
Onward ==
  /\ crossed \subseteq crossed'
  /\ \A s \in Sessions : sessionCtx[s] # "unborn" => sessionCtx'[s] # "unborn" /\ label'[s] = label[s]

LEMMA ApartStep == TypeInv /\ Apart /\ [Next]_vars => Apart'
<1> SUFFICES ASSUME TypeInv, Apart, [Next]_vars PROVE Apart'
    OBVIOUS
<1>1. CASE Reload
  <2>1. op' = [o \in Ops |-> IF op[o].pc \in {"dialing", "closing", "listing", "discarding"}
                            THEN [op[o] EXCEPT !.gone = TRUE] ELSE Idle]
    BY <1>1 DEF Reload
  <2>2. ASSUME NEW o \in Ops PROVE op'[o].pc = "idle" \/ op'[o].gone
    <3>1. op[o] \in Calls
      BY DEF TypeInv, TypeOK
    <3>2. [op[o] EXCEPT !.gone = TRUE].gone /\ Idle.pc = "idle"
      BY <3>1 DEF Calls, Idle
    <3>. QED
      BY <2>1, <3>2
  <2>. QED
    BY <2>2 DEF Apart, Crossing, DealsWith
<1>2. CASE Crosses
  BY <1>2 DEF Crosses, Apart
<1>3. CASE UNCHANGED vars
  BY <1>3 DEF vars, Apart, Crossing, DealsWith
<1>. QED
  BY <1>1, <1>2, <1>3 DEF Next

(* What another call has in hand is not touched. *)
LEMMA HandKept ==
  ASSUME TypeInv, NEW p \in Ops, Hand(p), op'[p] = op[p], Onward,
         \A s \in registry' : s \in registry \/ (s \in Sessions /\ sessionCtx[s] = "unborn"),
         Active(p) /\ op[p].c \in Clusters \ crossed' => live'[op[p].c] = live[op[p].c],
         Active(p) /\ op[p].s \in registry /\ label[op[p].s] \notin crossed' /\ Held(op[p].s) => Held(op[p].s)'
  PROVE  Hand(p)'
<1>1. op[p] \in Calls
  BY DEF TypeInv, TypeOK
<1>2. /\ op[p].s \in Sessions \cup {None} /\ op[p].list \subseteq Sessions
      /\ op[p].c \in Clusters \cup {None}
  BY <1>1 DEF Calls
<1>3. SUFFICES ASSUME Active(p) PROVE Hand(p)'
  BY DEF Hand, Active
<1>4. /\ op[p].s # None => sessionCtx'[op[p].s] # "unborn" /\ label'[op[p].s] = label[op[p].s]
      /\ \A s \in op[p].list : s # None => sessionCtx'[s] # "unborn"
  <2>1. Known(op[p].s) /\ \A s \in op[p].list : Known(s)
    BY <1>3 DEF Hand
  <2>. QED
    BY <1>2, <2>1 DEF Known, Onward
<1>5. op[p].s \in registry' => op[p].s \in registry
  BY <1>2, <1>3, NoneApart DEF Hand, Known, TypeInv, TypeOK, SessionsTypeOK
<1>6. None \notin registry' /\ None \notin Sessions
  BY NoneApart DEF TypeInv, TypeOK, SessionsTypeOK
<1>7. /\ op[p].pc \notin AdoptWaits => op[p].list = {}
      /\ op[p].pc \in {"spec", "dialing", "listing"} => op[p].s = None
      /\ op[p].pc = "adopting" => op[p].list = {}
      /\ op[p].pc = "closed" => op[p].s \notin registry'
      /\ op[p].pc = "dialing" => op[p].c \in Clusters
  BY <1>3, <1>5 DEF Hand
<1>8. op[p].pc \in Placed => op[p].c \in Clusters /\ op[p].s \in Sessions /\ label'[op[p].s] = op[p].c
  BY <1>3, <1>4, <1>6 DEF Hand
<1>9. /\ op[p].pc \in {"draining", "closing", "closed", "scoping"} => (op[p].c \notin crossed' => live'[op[p].c] = op[p].s)
      /\ op[p].pc \in {"dialing", "dialed", "reading", "proving"} => (op[p].c \notin crossed' => live'[op[p].c] = None)
  BY <1>3 DEF Hand, Onward, Placed
<1>10. op[p].pc \in {"deciding", "adopting"} =>
         (op[p].s \in registry' /\ label'[op[p].s] \notin crossed' => Held(op[p].s)')
  BY <1>3, <1>4, <1>5, <1>6 DEF Hand, Onward
<1>11. Active(p)'
  BY <1>3 DEF Active
<1>12. Known(op[p].s)' /\ \A s \in op[p].list : Known(s)'
  BY <1>4 DEF Known
<1>. QED
  BY <1>7, <1>8, <1>9, <1>10, <1>12 DEF Hand

(* A call starts, goes on or ends, and everything it leaves is live. *)
LEMMA CallMoves ==
  ASSUME TypeInv, StrandInv, Onward, NEW o \in Ops, \A p \in Ops : p # o => op'[p] = op[p],
         UNCHANGED <<live, sessionCtx, label>>, registry' \subseteq registry, left \subseteq left', Hand(o)',
         \A s \in registry' : label[s] \notin crossed' /\ Active(o) /\ (op[o].s = s \/ s \in op[o].list) =>
                                Held(s) \/ (Active(o)' /\ (op'[o].s = s \/ s \in op'[o].list))
  PROVE  StrandInv'
<1>1. KnownInv'
  BY DEF StrandInv, KnownInv, Known
<1>3. \A p \in Ops : Hand(p)'
  BY HandKept DEF StrandInv, Held
<1>4. NothingStranded'
  <2> SUFFICES ASSUME NEW s \in registry', label[s] \notin crossed' PROVE Held(s)' \/ InHand(s)' \/ s \in left'
      BY DEF NothingStranded
  <2>1. Held(s) \/ InHand(s) \/ s \in left
    BY DEF StrandInv, NothingStranded, Onward
  <2>2. CASE Held(s)
    BY <2>2 DEF Held
  <2>3. ASSUME NEW p \in Ops, Active(p), op[p].s = s \/ s \in op[p].list
        PROVE  Held(s)' \/ InHand(s)'
    <3>1. CASE p = o
      BY <2>3, <3>1 DEF Held, InHand, Active
    <3>2. CASE p # o
      BY <2>3, <3>2 DEF InHand, Active
    <3>. QED
      BY <3>1, <3>2
  <2>. QED
    BY <2>1, <2>2, <2>3 DEF InHand, Active
<1>. QED
  BY <1>1, <1>3, <1>4 DEF StrandInv

(* A call that is over leaves nothing but what is live. *)
LEMMA CallEnds ==
  ASSUME TypeInv, StrandInv, Onward, NEW o \in Ops, Goes(o, Idle),
         UNCHANGED <<live, sessionCtx, label>>, registry' \subseteq registry, left \subseteq left',
         \A s \in registry' : label[s] \notin crossed' /\ Active(o) /\ (op[o].s = s \/ s \in op[o].list) => Held(s)
  PROVE  StrandInv'
<1>1. op'[o].pc = "idle" /\ \A p \in Ops : p # o => op'[p] = op[p]
  BY DEF Goes, Idle, TypeInv
<1>2. ~Active(o)' /\ Hand(o)'
  BY <1>1 DEF Active, Hand
<1>. QED
  BY <1>1, <1>2, CallMoves

(* Another session, or none, becomes the live one of the cluster a call    *)
(* deals with: only a call that has crossed it deals with the same.        *)
LEMMA LiveMoves ==
  ASSUME TypeInv, Apart, StrandInv, Onward, NEW o \in Ops, NEW c \in Clusters, NEW s \in Sessions \cup {None},
         Active(o), op[o].c = c, \A p \in Ops : p # o => op'[p] = op[p],
         live' = [live EXCEPT ![c] = s], UNCHANGED <<sessionCtx, registry, left, label>>,
         s # None => Known(s) /\ label[s] = c, c \notin crossed' => (live[c] \in registry => live[c] = s), Hand(o)',
         \A x \in registry : label[x] \notin crossed' /\ (op[o].s = x \/ x \in op[o].list) =>
            x = s \/ Held(x) \/ (Active(o)' /\ (op'[o].s = x \/ x \in op'[o].list))
  PROVE  StrandInv'
<1>1. /\ live \in [Clusters -> Sessions \cup {None}] /\ live'[c] = s
      /\ \A d \in Clusters : d # c => live'[d] = live[d]
  BY DEF TypeInv, TypeOK
<1>2. KnownInv'
  BY <1>1 DEF StrandInv, KnownInv, Known
<1>3. \A x \in registry, d \in Clusters : live[d] = x => label[x] = d
  BY NoneApart DEF StrandInv, KnownInv, TypeInv, TypeOK, SessionsTypeOK
<1>4. ASSUME NEW p \in Ops PROVE Hand(p)'
  <2>1. CASE p = o
    BY <2>1
  <2>2. CASE p # o /\ ~Active(p)
    BY <2>2 DEF Hand, Active
  <2>3. CASE p # o /\ Active(p)
    <3>1. DealsWith(o, c)
      BY DEF DealsWith, Active
    <3>2. DealsWith(p, c) => c \in crossed'
      BY <2>3, <3>1 DEF Apart, Crossing, Onward
    <3>3. op[p].c \in Clusters \ crossed' => live'[op[p].c] = live[op[p].c]
      BY <1>1, <2>3, <3>2 DEF DealsWith, Active
    <3>4. ASSUME op[p].s \in registry, label[op[p].s] \notin crossed', Held(op[p].s) PROVE Held(op[p].s)'
      <4>1. PICK d \in Clusters : live[d] = op[p].s
        BY <3>4 DEF Held
      <4>2. label[op[p].s] = d /\ op[p].s # None
        BY <1>3, <3>4, <4>1, NoneApart DEF TypeInv, TypeOK, SessionsTypeOK
      <4>3. d # c
        BY <2>3, <3>2, <3>4, <4>2 DEF DealsWith, Active
      <4>. QED
        BY <1>1, <2>3, <4>1, <4>3 DEF Held
    <3>5. Hand(p) /\ op'[p] = op[p]
      BY <2>3 DEF StrandInv
    <3>. QED
      BY <3>3, <3>4, <3>5, HandKept
  <2>. QED
    BY <2>1, <2>2, <2>3
<1>5. NothingStranded'
  <2> SUFFICES ASSUME NEW x \in registry, label[x] \notin crossed' PROVE Held(x)' \/ InHand(x)' \/ x \in left'
      BY DEF NothingStranded
  <2>1. Held(x) \/ InHand(x) \/ x \in left
    BY DEF StrandInv, NothingStranded, Onward
  <2>2. x = s => Held(x)'
    BY <1>1 DEF Held
  <2>3. Held(x) => Held(x)'
    <3> SUFFICES ASSUME NEW d \in Clusters, live[d] = x PROVE Held(x)'
        BY DEF Held
    <3>1. CASE d = c
      BY <1>3, <2>2, <3>1
    <3>2. CASE d # c
      BY <1>1, <3>2 DEF Held
    <3>. QED
      BY <3>1, <3>2
  <2>4. ASSUME NEW p \in Ops, Active(p), op[p].s = x \/ x \in op[p].list PROVE Held(x)' \/ InHand(x)'
    <3>1. CASE p = o
      BY <2>2, <2>3, <2>4, <3>1 DEF InHand, Active
    <3>2. CASE p # o
      BY <2>4, <3>2 DEF InHand, Active
    <3>. QED
      BY <3>1, <3>2
  <2>. QED
    BY <2>1, <2>3, <2>4 DEF InHand, Active
<1>. QED
  BY <1>2, <1>4, <1>5 DEF StrandInv

(* Every call leaves each open session in some hand. *)
LEMMA CallStrand ==
  ASSUME TypeInv, Apart, StrandInv, crossed \subseteq crossed', NEW o \in Ops,
         \/ OpStep(o) \/ AdoptCall(o)
         \/ \E c \in Clusters : ConnectCall(o, c) \/ DisconnectCall(o, c)
  PROVE  StrandInv'
<1>0. /\ op[o] \in Good /\ op[o] \in Calls /\ Hand(o)
      /\ op[o].s \in Sessions \cup {None} /\ op[o].list \subseteq Sessions
      /\ None \notin registry /\ None \notin Sessions /\ registry \subseteq Sessions
  BY NoneApart DEF TypeInv, TypeOK, SessionsTypeOK, StrandInv, Good, Calls
<1>o. UNCHANGED <<sessionCtx, label>> => Onward
  BY DEF Onward
<1>1. ASSUME NEW c \in Clusters, ConnectCall(o, c) PROVE StrandInv'
  <2>1. /\ op'[o] = [Idle EXCEPT !.pc = "spec", !.c = c]
        /\ \A p \in Ops : p # o => op'[p] = op[p]
    BY <1>1 DEF ConnectCall, Goes, TypeInv
  <2>2. Hand(o)' /\ ~Active(o)
    BY <1>1, <2>1 DEF Idle, Hand, Known, Placed, ConnectCall, CanStart, Active, AdoptWaits
  <2>. QED
    BY <1>o, <1>1, <2>1, <2>2, CallMoves DEF ConnectCall, sessionVars
<1>2. ASSUME NEW c \in Clusters, DisconnectCall(o, c) PROVE StrandInv'
  <2>1. /\ op'[o] = [Idle EXCEPT !.pc = "draining", !.kind = "disconnect", !.c = c, !.s = live[c]]
        /\ \A p \in Ops : p # o => op'[p] = op[p]
        /\ UNCHANGED <<live, sessionCtx, registry, left, label>> /\ live[c] # None
        /\ live[c] \in Sessions /\ ~Active(o)
    BY <1>2 DEF DisconnectCall, Goes, TypeInv, TypeOK, sessionVars, pageVars, CanStart, Active
  <2>2. /\ op'[o].pc = "draining" /\ op'[o].c = c /\ op'[o].s = live[c] /\ op'[o].list = {}
        /\ Known(live[c]) /\ label[live[c]] = c
    BY <2>1 DEF Idle, StrandInv, KnownInv
  <2>3. Hand(o)'
    BY <2>1, <2>2 DEF Hand, Known, Placed
  <2>. QED
    BY <1>o, <2>1, <2>3, CallMoves
<1>3. ASSUME AdoptCall(o) PROVE StrandInv'
  <2>1. /\ op'[o] = [Idle EXCEPT !.pc = "listing", !.kind = "adopt"]
        /\ \A p \in Ops : p # o => op'[p] = op[p]
    BY <1>3 DEF AdoptCall, Goes, TypeInv
  <2>2. Hand(o)' /\ ~Active(o)
    BY <1>3, <2>1 DEF Idle, Hand, Known, Placed, AdoptCall, CanStart, Active
  <2>. QED
    BY <1>o, <1>3, <2>1, <2>2, CallMoves DEF AdoptCall, sessionVars
<1>4. ASSUME SpecFails(o) \/ ScopeFails(o) \/ ScopeRead(o) PROVE StrandInv'
  <2>1. /\ Goes(o, Idle) /\ UNCHANGED <<live, sessionCtx, registry, left, label>>
        /\ Active(o) /\ op[o].pc \in {"spec", "scoping"}
    BY <1>4 DEF SpecFails, ScopeFails, ScopeRead, Fails, At, Active, sessionVars
  <2>2. \A s \in registry' : label[s] \notin crossed' /\ (op[o].s = s \/ s \in op[o].list) => Held(s)
    BY <1>0, <2>1 DEF Hand, AdoptWaits, Held, Placed
  <2>. QED
    BY <1>o, <2>1, <2>2, CallEnds
<1>5. ASSUME GoRejects(o) PROVE StrandInv'
  <2>1. /\ Goes(o, Idle) /\ UNCHANGED <<live, sessionCtx, registry, left, label>>
        /\ op[o].pc = "dialing"
    BY <1>5 DEF GoRejects, Fails, sessionVars, pageVars
  <2>2. \A s \in registry' : Active(o) /\ (op[o].s = s \/ s \in op[o].list) => Held(s)
    BY <1>0, <2>1 DEF Hand, AdoptWaits
  <2>. QED
    BY <1>o, <2>1, <2>2, CallEnds
<1>6. ASSUME SpecRead(o) PROVE StrandInv'
  <2>1. /\ op'[o] = IF live[op[o].c] # None THEN [op[o] EXCEPT !.pc = "draining", !.s = live[op[o].c]]
                                          ELSE [op[o] EXCEPT !.pc = "dialing"]
        /\ \A p \in Ops : p # o => op'[p] = op[p]
        /\ UNCHANGED <<live, sessionCtx, registry, left, label>>
        /\ Active(o) /\ op[o].pc = "spec"
    BY <1>6 DEF SpecRead, Goes, TypeInv, sessionVars, pageVars, At, Active
  <2>2. op[o].kind = "connect" /\ op[o].c \in Clusters /\ op[o].s = None /\ op[o].list = {}
    BY <1>0, <2>1 DEF Good, ConnectWaits, AdoptWaits, Hand
  <2>3. /\ op'[o].c = op[o].c /\ op'[o].list = {} /\ op'[o].s = live[op[o].c]
        /\ \/ op'[o].pc = "dialing" /\ live[op[o].c] = None
           \/ op'[o].pc = "draining" /\ live[op[o].c] # None
    BY <1>0, <2>1, <2>2 DEF Calls
  <2>4. live[op[o].c] # None => Known(live[op[o].c]) /\ label[live[op[o].c]] = op[o].c /\ live[op[o].c] \in Sessions
    BY <2>2 DEF StrandInv, KnownInv, TypeInv, TypeOK
  <2>5. Hand(o)'
    BY <2>1, <2>2, <2>3, <2>4 DEF Hand, Known, Placed, AdoptWaits
  <2>. QED
    BY <1>0, <1>o, <2>1, <2>2, <2>5, CallMoves
<1>7. ASSUME NEW pc \in Waits, Active(o), Goes(o, [op[o] EXCEPT !.pc = pc]),
             UNCHANGED <<live, sessionCtx, registry, left, label>>,
             \/ op[o].pc = "dialed" /\ pc = "reading"
             \/ op[o].pc = "draining" /\ pc = "closing"
             \/ op[o].pc = "proving" /\ pc = "discarding"
             \/ op[o].pc = "deciding" /\ pc = "adopting" /\ op[o].list = {}
      PROVE  StrandInv'
  <2>1. /\ op'[o] = [op[o] EXCEPT !.pc = pc] /\ \A p \in Ops : p # o => op'[p] = op[p]
    BY <1>7 DEF Goes, TypeInv
  <2>2. /\ op'[o].pc = pc /\ op'[o].kind = op[o].kind /\ op'[o].c = op[o].c /\ op'[o].s = op[o].s
        /\ op'[o].list = op[o].list /\ op'[o].gone = op[o].gone
    BY <1>0, <2>1 DEF Calls
  <2>3. Hand(o)' /\ Active(o)'
    BY <1>0, <1>7, <2>2 DEF Hand, Known, Held, Active, AdoptWaits, Placed
  <2>. QED
    BY <1>o, <1>7, <2>1, <2>2, <2>3, CallMoves
<1>8. ASSUME AskVersion(o) \/ Drained(o) \/ GivesUp(o) PROVE StrandInv'
  BY <1>7, <1>8 DEF AskVersion, Drained, GivesUp, At, Active, sessionVars, pageVars, Waits
<1>9. ASSUME ListDone(o) PROVE StrandInv'
  <2>1. CASE op[o].taken # {}
    BY <1>7, <1>9, <2>1 DEF ListDone, At, Active, sessionVars, pageVars, Waits
  <2>2. CASE op[o].taken = {}
    <3>1. /\ Goes(o, Idle) /\ UNCHANGED <<live, sessionCtx, registry, left, label>>
          /\ Active(o) /\ op[o].pc = "deciding" /\ op[o].list = {}
      BY <1>9, <2>2 DEF ListDone, At, Active, sessionVars, pageVars
    <3>2. \A s \in registry' : label[s] \notin crossed' /\ (op[o].s = s \/ s \in op[o].list) => Held(s)
      BY <1>0, <3>1 DEF Hand
    <3>. QED
      BY <1>o, <3>1, <3>2, CallEnds
  <2>. QED
    BY <2>1, <2>2
<1>10. ASSUME Adopts(o) PROVE StrandInv'
  <2>1. /\ Goes(o, Idle) /\ UNCHANGED <<live, sessionCtx, registry, left, label>>
        /\ Active(o) /\ op[o].pc = "adopting"
    BY <1>10 DEF Adopts, At, Active, sessionVars
  <2>2. \A s \in registry' : label[s] \notin crossed' /\ (op[o].s = s \/ s \in op[o].list) => Held(s)
    BY <1>0, <2>1 DEF Hand
  <2>. QED
    BY <1>o, <2>1, <2>2, CallEnds
<1>11. ASSUME NEW s \in Sessions, Keeps(o, s) \/ Discards(o, s) \/ Proves(o, s) PROVE StrandInv'
  <2>1. /\ \A p \in Ops : p # o => op'[p] = op[p]
        /\ UNCHANGED <<live, sessionCtx, registry, left, label>>
        /\ Active(o) /\ op[o].pc = "deciding" /\ s \in op[o].list
    BY <1>11 DEF Keeps, Discards, Proves, Goes, TypeInv, sessionVars, pageVars, At, Active
  <2>2. /\ op'[o].kind = op[o].kind /\ op'[o].list = op[o].list \ {s} /\ op'[o].gone = op[o].gone
        /\ \/ op'[o].pc = "deciding" /\ op'[o].s = op[o].s /\ Held(s)
           \/ op'[o].pc = "discarding" /\ op'[o].s = s
           \/ op'[o].pc = "proving" /\ op'[o].s = s /\ op'[o].c = label[s] /\ live[label[s]] = None
    <3>1. CASE Keeps(o, s)
      BY <1>0, <3>1 DEF Keeps, Goes, TypeInv, At, Calls
    <3>2. CASE Discards(o, s)
      BY <1>0, <3>2 DEF Discards, Goes, TypeInv, At, Calls
    <3>3. CASE Proves(o, s)
      BY <1>0, <3>3 DEF Proves, Goes, TypeInv, At, Calls
    <3>. QED
      BY <1>11, <3>1, <3>2, <3>3
  <2>3. label[s] \in Clusters
    BY <1>0, <2>1 DEF Good, Labelled
  <2>4. Hand(o)' /\ Active(o)'
    BY <1>0, <2>1, <2>2, <2>3 DEF Hand, Known, Held, Active, AdoptWaits, Placed
  <2>5. \A x \in registry' : label[x] \notin crossed' /\ op[o].s = x => Held(x)
    BY <1>0, <2>1 DEF Hand
  <2>. QED
    BY <1>o, <2>1, <2>2, <2>4, <2>5, CallMoves
<1>12. ASSUME GoDisconnect(o) \/ GoDiscards(o) PROVE StrandInv'
  <2>1. /\ \A p \in Ops : p # o => op'[p] = op[p]
        /\ UNCHANGED <<live, sessionCtx, left, label>> /\ registry' = registry \ {op[o].s}
        /\ op[o].pc \in {"closing", "discarding"}
    BY <1>12 DEF GoDisconnect, GoDiscards, Answers, Goes, TypeInv, sessionVars, pageVars, Remove
  <2>2. CASE op[o].gone
    <3>1. Goes(o, Idle) /\ ~Active(o)
      BY <1>12, <2>2 DEF GoDisconnect, GoDiscards, Answers, Active
    <3>. QED
      BY <1>o, <2>1, <3>1, CallEnds
  <2>3. CASE ~op[o].gone
    <3>1. /\ op'[o].kind = op[o].kind /\ op'[o].list = op[o].list /\ op'[o].gone = op[o].gone
          /\ op'[o].s = op[o].s /\ op'[o].c = op[o].c
          /\ \/ op[o].pc = "closing" /\ op'[o].pc = "closed"
             \/ op[o].pc = "discarding" /\ op'[o].pc = "deciding"
      <4>1. CASE GoDisconnect(o)
        BY <1>0, <2>3, <4>1 DEF GoDisconnect, Answers, Goes, TypeInv, Calls
      <4>2. CASE GoDiscards(o)
        BY <1>0, <2>3, <4>2 DEF GoDiscards, Answers, Goes, TypeInv, Calls
      <4>. QED
        BY <1>12, <4>1, <4>2
    <3>2. Hand(o)' /\ Active(o)' /\ Active(o)
      BY <1>0, <2>1, <2>3, <3>1 DEF Hand, Known, Held, Active, AdoptWaits, Placed
    <3>. QED
      BY <1>o, <2>1, <3>1, <3>2, CallMoves
  <2>. QED
    BY <2>2, <2>3
<1>13. ASSUME NEW s \in Sessions, GoConnect(o, s) PROVE StrandInv'
  <2>1. /\ \A p \in Ops : p # o => op'[p] = op[p]
        /\ UNCHANGED live /\ left \subseteq left' /\ registry' = registry \cup {s}
        /\ op[o].pc = "dialing" /\ sessionCtx[s] = "unborn" /\ sessionCtx' = [sessionCtx EXCEPT ![s] = "live"]
        /\ label' = [label EXCEPT ![s] = op[o].c]
    BY <1>13 DEF GoConnect, Answers, Goes, TypeInv, pageVars, Add
  <2>2. /\ sessionCtx'[s] = "live" /\ label'[s] = op[o].c /\ Onward
        /\ live \in [Clusters -> Sessions \cup {None}]
    BY <2>1 DEF TypeInv, TypeOK, SessionsTypeOK, Onward
  <2>3. KnownInv'
    BY <1>0, <2>1, <2>2 DEF StrandInv, KnownInv, Known, Onward
  <2>4. \/ /\ Active(o) /\ Active(o)' /\ op'[o].kind = op[o].kind /\ op'[o].pc = "dialed" /\ op'[o].s = s
           /\ op'[o].list = {} /\ op'[o].c = op[o].c
        \/ /\ ~Active(o) /\ ~Active(o)' /\ s \in left'
    <3>1. CASE op[o].gone
      BY <1>13, <3>1 DEF GoConnect, Answers, Goes, Idle, Active, TypeInv
    <3>2. CASE ~op[o].gone
      <4>1. op'[o] = [op[o] EXCEPT !.pc = "dialed", !.s = s] /\ Active(o) /\ op[o].list = {}
        BY <1>0, <1>13, <3>2 DEF GoConnect, Answers, Goes, Active, TypeInv, Hand, AdoptWaits
      <4>. QED
        BY <1>0, <4>1 DEF Calls, Active
    <3>. QED
      BY <3>1, <3>2
  <2>6. Hand(o)'
    <3>1. CASE ~Active(o)'
      BY <3>1 DEF Hand, Active
    <3>2. CASE Active(o)'
      <4>1. op[o].c \in Clusters /\ (op[o].c \notin crossed' => live'[op[o].c] = None)
        BY <1>0, <2>1, <2>4, <3>2 DEF Hand, Placed
      <4>. QED
        BY <2>1, <2>2, <2>4, <3>2, <4>1 DEF Hand, Known, AdoptWaits, Placed
    <3>. QED
      BY <3>1, <3>2
  <2>7. ASSUME NEW p \in Ops PROVE Hand(p)'
    <3>1. CASE p = o
      BY <2>6, <3>1
    <3>2. CASE p # o
      BY <1>0, <2>1, <2>2, <3>2, HandKept DEF StrandInv, Held
    <3>. QED
      BY <3>1, <3>2
  <2>8. NothingStranded'
    <3> SUFFICES ASSUME NEW x \in registry', label'[x] \notin crossed' PROVE Held(x)' \/ InHand(x)' \/ x \in left'
        BY DEF NothingStranded
    <3>1. CASE x = s
      BY <2>4, <3>1 DEF InHand, Active
    <3>2. CASE x # s
      <4>1. Held(x) \/ InHand(x) \/ x \in left
        BY <1>0, <2>1, <3>2 DEF StrandInv, NothingStranded
      <4>2. ASSUME NEW p \in Ops, Active(p), op[p].s = x \/ x \in op[p].list PROVE InHand(x)'
        <5>1. p # o
          BY <1>0, <2>1, <3>2, <4>2 DEF Hand, AdoptWaits
        <5>. QED
          BY <2>1, <4>2, <5>1 DEF InHand, Active
      <4>. QED
        BY <2>1, <4>1, <4>2 DEF Held, InHand, Active
    <3>. QED
      BY <3>1, <3>2
  <2>. QED
    BY <2>3, <2>7, <2>8 DEF StrandInv
<1>15. ASSUME VersionRead(o) PROVE StrandInv'
  <2>1. /\ op'[o] = [op[o] EXCEPT !.pc = "scoping"] /\ \A p \in Ops : p # o => op'[p] = op[p]
        /\ live' = [live EXCEPT ![op[o].c] = op[o].s] /\ UNCHANGED <<sessionCtx, registry, left, label>>
        /\ Active(o) /\ op[o].pc = "reading"
    BY <1>15 DEF VersionRead, Goes, TypeInv, sessionVars, At, Active
  <2>2. /\ op[o].c \in Clusters /\ op[o].s \in Sessions /\ label[op[o].s] = op[o].c /\ Known(op[o].s)
        /\ op[o].c \notin crossed' => live[op[o].c] = None
        /\ op[o].list = {}
    BY <1>0, <2>1 DEF AdoptWaits, Hand, Placed
  <2>3. /\ op'[o].pc = "scoping" /\ op'[o].kind = op[o].kind /\ op'[o].c = op[o].c /\ op'[o].s = op[o].s
        /\ op'[o].list = op[o].list /\ op'[o].gone = op[o].gone
    BY <1>0, <2>1 DEF Calls
  <2>4. live'[op[o].c] = op[o].s
    BY <2>1, <2>2 DEF TypeInv, TypeOK
  <2>5. Hand(o)'
    BY <2>1, <2>2, <2>3, <2>4 DEF Hand, Known, Placed
  <2>. QED
    BY <1>0, <1>o, <2>1, <2>2, <2>3, <2>5, LiveMoves
<1>16. ASSUME Reclaims(o) PROVE StrandInv'
  <2>1. /\ op'[o] = [op[o] EXCEPT !.pc = "deciding", !.taken = op[o].taken \cup {op[o].s}]
        /\ \A p \in Ops : p # o => op'[p] = op[p]
        /\ live' = [live EXCEPT ![op[o].c] = op[o].s] /\ UNCHANGED <<sessionCtx, registry, left, label>>
        /\ Active(o) /\ op[o].pc = "proving"
    BY <1>16 DEF Reclaims, Goes, TypeInv, sessionVars, At, Active
  <2>2. /\ op[o].c \in Clusters /\ op[o].s \in Sessions /\ label[op[o].s] = op[o].c /\ Known(op[o].s)
        /\ op[o].c \notin crossed' => live[op[o].c] = None
        /\ \A s \in op[o].list : Known(s)
    BY <1>0, <2>1 DEF Hand, Placed
  <2>3. /\ op'[o].pc = "deciding" /\ op'[o].kind = op[o].kind /\ op'[o].c = op[o].c /\ op'[o].s = op[o].s
        /\ op'[o].list = op[o].list /\ op'[o].gone = op[o].gone
    BY <1>0, <2>1 DEF Calls
  <2>4. live'[op[o].c] = op[o].s
    BY <2>1, <2>2 DEF TypeInv, TypeOK
  <2>5. Hand(o)' /\ Active(o)'
    BY <2>1, <2>2, <2>3, <2>4 DEF Hand, Known, Held, AdoptWaits, Active, Placed
  <2>. QED
    BY <1>0, <1>o, <2>1, <2>2, <2>3, <2>5, LiveMoves
<1>17. ASSUME Closed(o) PROVE StrandInv'
  <2>1. /\ \A p \in Ops : p # o => op'[p] = op[p]
        /\ live' = [live EXCEPT ![op[o].c] = None] /\ UNCHANGED <<sessionCtx, registry, left, label>>
        /\ Active(o) /\ op[o].pc = "closed"
        /\ op'[o] = IF op[o].kind = "connect" /\ op[o].ok THEN [op[o] EXCEPT !.pc = "dialing", !.s = None] ELSE Idle
    BY <1>17 DEF Closed, Goes, TypeInv, sessionVars, At, Active
  <2>2. /\ op[o].c \in Clusters /\ op[o].s \notin registry /\ op[o].list = {}
        /\ op[o].c \notin crossed' => live[op[o].c] = op[o].s
    BY <1>0, <2>1 DEF AdoptWaits, Hand, Placed
  <2>3. live'[op[o].c] = None /\ Known(None)
    BY <2>1, <2>2 DEF TypeInv, TypeOK, Known
  <2>4. \/ /\ op'[o].pc = "dialing" /\ op'[o].kind = op[o].kind /\ op'[o].c = op[o].c /\ op'[o].s = None
           /\ op'[o].list = {}
        \/ ~Active(o)'
    BY <1>0, <2>1, <2>2 DEF Calls, Active, Idle
  <2>5. Hand(o)'
    BY <2>2, <2>3, <2>4 DEF Hand, Known, Active, Placed
  <2>. QED
    BY <1>o, <2>1, <2>2, <2>5, LiveMoves
<1>18. ASSUME GoSessions(o) PROVE StrandInv'
  <2>1. /\ \A p \in Ops : p # o => op'[p] = op[p]
        /\ UNCHANGED <<live, sessionCtx, registry, label>> /\ op[o].pc = "listing"
    BY <1>18 DEF GoSessions, Answers, Goes, TypeInv, sessionVars, pageVars
  <2>2. CASE op[o].gone
    BY <1>o, <1>18, <2>1, <2>2, CallEnds DEF GoSessions, Answers, Active
  <2>3. CASE ~op[o].gone
    <3>1. /\ Active(o) /\ Active(o)' /\ op'[o].list = registry /\ op'[o].pc = "deciding"
          /\ op'[o].kind = "adopt" /\ op[o].kind = "adopt" /\ op'[o].s = op[o].s
      BY <1>0, <1>18, <2>1, <2>3 DEF GoSessions, Answers, Goes, TypeInv, Calls, Active, Good, AdoptWaits
    <3>2. op[o].s = None
      BY <1>0, <2>1, <3>1 DEF Hand
    <3>3. KnownInv'
      BY <2>1 DEF StrandInv, KnownInv, Known
    <3>5. Hand(o)'
      BY <1>0, <2>1, <3>1, <3>2 DEF Hand, Known, AdoptWaits, StrandInv, KnownInv, Placed
    <3>6. ASSUME NEW p \in Ops PROVE Hand(p)'
      BY <1>o, <2>1, <3>5, HandKept DEF StrandInv, Held
    <3>7. NothingStranded'
      BY <2>1, <3>1 DEF NothingStranded, InHand, Active
    <3>. QED
      BY <3>3, <3>6, <3>7 DEF StrandInv
  <2>. QED
    BY <2>2, <2>3
<1>. QED
  BY <1>1, <1>2, <1>3, <1>4, <1>5, <1>6, <1>8, <1>9, <1>10, <1>11, <1>12, <1>13, <1>15, <1>16, <1>17, <1>18 DEF OpStep

LEMMA StrandStep == TypeInv /\ Apart /\ StrandInv /\ [Next]_vars => StrandInv'
<1> SUFFICES ASSUME TypeInv, Apart, StrandInv, [Next]_vars PROVE StrandInv'
    OBVIOUS
<1>1. CASE Reload
  <2>1. /\ left' = registry /\ UNCHANGED <<sessionCtx, registry, label>> /\ live' = [c \in Clusters |-> None]
        /\ op' = [o \in Ops |-> IF op[o].pc \in {"dialing", "closing", "listing", "discarding"}
                               THEN [op[o] EXCEPT !.gone = TRUE] ELSE Idle]
    BY <1>1 DEF Reload, sessionVars
  <2>2. ASSUME NEW o \in Ops PROVE ~Active(o)'
    <3>1. op[o] \in Calls
      BY DEF TypeInv, TypeOK
    <3>2. [op[o] EXCEPT !.gone = TRUE].gone /\ Idle.pc = "idle"
      BY <3>1 DEF Calls, Idle
    <3>. QED
      BY <2>1, <3>2 DEF Active
  <2>3. KnownInv'
    BY <2>1 DEF StrandInv, KnownInv, Known
  <2>. QED
    BY <2>1, <2>2, <2>3 DEF StrandInv, Hand, NothingStranded
<1>2. ASSUME UNCHANGED <<registry, live, op, left>>, Onward PROVE StrandInv'
  <2>1. /\ live \in [Clusters -> Sessions \cup {None}] /\ registry \subseteq Sessions
    BY DEF TypeInv, TypeOK, SessionsTypeOK
  <2>2. KnownInv'
    BY <1>2, <2>1 DEF StrandInv, KnownInv, Known, Onward
  <2>3. \A o \in Ops : Hand(o)'
    BY <1>2, HandKept DEF StrandInv, Held
  <2>4. \A s \in registry : label'[s] = label[s]
    BY <1>2, <2>1, NoneApart DEF StrandInv, KnownInv, Known, Onward
  <2>5. NothingStranded'
    BY <1>2, <2>4 DEF StrandInv, NothingStranded, InHand, Held, Onward
  <2>. QED
    BY <2>2, <2>3, <2>5 DEF StrandInv
<1>3. ASSUME NEW s \in Sessions, GoCloses(s), Crosses PROVE StrandInv'
  <2>1. sessionCtx' = [sessionCtx EXCEPT ![s] = "cancelled"] /\ UNCHANGED <<registry, live, op, left, label>>
    BY <1>3 DEF GoCloses, CloseOne, pageVars
  <2>2. Onward
    BY <1>3, <2>1 DEF TypeInv, TypeOK, SessionsTypeOK, Onward, Crosses
  <2>. QED
    BY <1>2, <2>1, <2>2
<1>4. CASE UNCHANGED vars
  BY <1>2, <1>4 DEF vars, sessionVars, pageVars, Onward
<1>5. Crosses => crossed \subseteq crossed'
  BY DEF Crosses
<1>. QED
  BY <1>1, <1>3, <1>4, <1>5, CallStrand DEF Next

(* No session stays open in Go unheld, whatever a reload, a failure or a    *)
(* refusal cut short, as long as no two calls of a page deal with its       *)
(* cluster at once: a call of another cluster, whatever it is, strands none.*)
THEOREM NoneStranded == Spec => []NothingStranded
<1>1. Init => StrandInv /\ Apart
  BY NoneApart DEF Init, SessionsInit, Idle, StrandInv, KnownInv, Known, Active, Hand, NothingStranded,
       Apart, Crossing, DealsWith
<1>2. FlagInv => TypeInv
  BY DEF FlagInv
<1>3. StrandInv => NothingStranded
  BY DEF StrandInv
<1>. QED
  BY FlagInit, FlagStep, ApartStep, StrandStep, <1>1, <1>2, <1>3, PTL DEF Spec
=============================================================================
