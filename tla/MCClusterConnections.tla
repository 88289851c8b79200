------------------------ MODULE MCClusterConnections ------------------------
(* Small instances of ClusterConnections for TLC. *)
EXTENDS ClusterConnections, FiniteSets, TLC

CONSTANTS First, Second   \* the members of Clusters

Opened  == {s \in Sessions : label[s] # None}
Used(c) == (\E s \in Sessions : label[s] = c) \/ \E o \in Ops : op[o].c = c

(* Which of its ids Go gives a session does not matter, nor which cluster is
   connected first or which idle member of Ops a new call is: they are taken
   in order. *)
InOrder ==
  /\ \A o, p \in Ops : o < p /\ op[p].pc = "idle" /\ op'[p].pc # "idle" => op[o].pc # "idle"
  /\ \A s, t \in Sessions : s < t /\ label'[t] # None => label'[s] # None
  /\ Used(Second)' => Used(First) \/ Opened # {}

(* No other step depends on whether Go has closed what it took out of the
   registry: it closes it at once. *)
ClosesAtOnce == closing # {} => closing' \subseteq closing /\ closing' # closing

(* Bound: a third session only with one cluster and no reload, and none is
   opened after a reload with two clusters. *)
FewAtOnce ==
  /\ Cardinality(Opened') > 2 => ~Used(Second)' /\ reloads' = 0
  /\ reloads > 0 /\ Used(Second)' => Opened' = Opened
=============================================================================
