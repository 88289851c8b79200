----------------------------- MODULE MCForwards -----------------------------
(* Small instances of Forwards for TLC. *)
EXTENDS Forwards, TLC

(* Bound: clients and retargets where no second forward is started. *)
ServesAlone ==
  (\E x \in Conns : fwdConn'[x].pc # "idle") \/ (\E f \in Fwds : fwdTarget'[f] # 0)
    => \A f1, f2 \in Fwds : phase'[f1] # "idle" /\ phase'[f2] # "idle" => f1 = f2
=============================================================================
