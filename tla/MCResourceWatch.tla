--------------------------- MODULE MCResourceWatch ---------------------------
(* Small instances of ResourceWatch for TLC. *)
EXTENDS ResourceWatch

CONSTANTS a, b

(* The view is about both namespaces or about one of them. *)
BothOrOne == {{a, b}, {a}}

(* Bound: coroutines overlap where nothing was written and no stream ended on  *)
(* its own.                                                                    *)
OverlapsAlone == crossed' => closes' = 0 /\ \A n \in Namespaces : truth'[n] = 0
=============================================================================
