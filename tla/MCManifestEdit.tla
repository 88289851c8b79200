---------------------------- MODULE MCManifestEdit ----------------------------
(* A small instance of ManifestEdit for TLC: a label, a field of the spec, the *)
(* status and a field the entity of the kind does not declare.                 *)
EXTENDS ManifestEdit, TLC

LeafNames == {"label", "replicas", "ready", "extra"}
Under == [label |-> "metadata", replicas |-> "spec", ready |-> "status", extra |-> "extra"]
Offered == [label |-> {Absent, 1}, replicas |-> {1, 2}, ready |-> {1, 2}, extra |-> {Absent, 1}]
Served == {[label |-> 1, replicas |-> 1, ready |-> 1, extra |-> 1]}
DeclaredFields == {"metadata", "spec", "status"}
Interchangeable == Permutations(Loads)
=============================================================================
