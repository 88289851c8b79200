---------------------------- MODULE MCProcesses ----------------------------
(* Small instances of Processes for TLC. *)
EXTENDS Processes, TLC

(* Bound: calls, output and escapes where no second process is started. *)
ServesAlone ==
  (\/ \E w \in Writers : writer'[w].pc # "idle"
   \/ \E a \in Killers : killer'[a].pc # "idle"
   \/ \E p \in Procs : ((\E s \in Streams : written'[p][s] > 0) \/ ~(tree'[p] \subseteq {"root"})))
  => \A p1, p2 \in Procs : phase'[p1] # "idle" /\ phase'[p2] # "idle" => p1 = p2
=============================================================================
