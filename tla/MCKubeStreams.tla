--------------------------- MODULE MCKubeStreams ---------------------------
(* Small instances of KubeStreams for TLC. *)
EXTENDS KubeStreams, TLC, Functions

(* Bound: a third call, which is there to meet the limit, is not combined *)
(* with chunks, a StopStream or the shutdown.                              *)
ThirdIsRefused ==
  (\A s \in Streams : phase'[s] # "idle") =>
    /\ \A s \in Streams : "chunk" \notin Range(events'[s])
    /\ \A c \in Callers : stopper'[c].pc = "idle"
    /\ shut' = "up"
=============================================================================
