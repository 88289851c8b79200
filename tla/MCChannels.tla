----------------------------- MODULE MCChannels -----------------------------
(* Small instances of Channels for TLC. *)
EXTENDS Channels, TLC, Functions

(* Bound: writers contend, and data is read, where no second channel is opened. *)
ServesAlone ==
  (\E w \in Writers : writer'[w].pc # "idle") \/ (\E c \in Chans : "data" \in Range(events'[c]))
    => \A c1, c2 \in Chans : phase'[c1] # "idle" /\ phase'[c2] # "idle" => c1 = c2
=============================================================================
