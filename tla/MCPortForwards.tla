---------------------------- MODULE MCPortForwards ----------------------------
(* Small instances of PortForwards for TLC. *)
EXTENDS PortForwards

(* Bound: what overlaps in one behaviour. *)
FewAtOnce ==
  /\ edit # "none" => starter = {} /\ ~removal.on
  /\ removal.on => starter = {}
  /\ crossed => shows # "another" /\ conn \notin {"redraining", "reclosing"}
=============================================================================
