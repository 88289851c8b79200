----------------------------- MODULE Downloads -----------------------------
(***************************************************************************)
(* The Go DownloadService: each download has a worker that streams the     *)
(* body of an answer into <target>.part and renames it into place.         *)
(*                                                                         *)
(* A member of Loads is one Start call and its download, of Cancellers one *)
(* Cancel call.  A file on disk is named by the download that created it;  *)
(* what is in it is the sequence of downloads that wrote its chunks, since *)
(* two downloads of one target write the same .part file.                  *)
(***************************************************************************)
EXTENDS Naturals, Sequences, SequencesExt

CONSTANTS
  Loads, Cancellers,
  Targets,   \* the paths a download may be for
  Chunks,    \* bound: chunks of a body
  None       \* no download, no target

ASSUME DownloadBound == Chunks \in Nat \ {0}
ASSUME DownloadNone  == None \notin Loads \cup Targets

VARIABLES
  active,     \* DownloadService.active
  phase,      \* how far Start and then the worker have come
  target,     \* the path of the download
  cancelled,  \* downloads whose context has ended
  partial,    \* the file under <target>.part
  file,       \* the file under <target>
  content,    \* who wrote each chunk of a file
  stuck,      \* history: downloads whose partial file could not be removed
  open,       \* the file a worker writes
  got,        \* chunks received, and hashed
  result,     \* how fetch ended
  canceller,  \* the Cancel calls
  shut,       \* how far the shutdown has come
  snapshot    \* the downloads the shutdown cancelled

diskVars == <<partial, file, content, stuck>>
workVars == <<active, phase, target, cancelled, open, got, result>>
callVars == <<canceller, shut, snapshot>>
vars     == <<workVars, diskVars, callVars>>

(* Phases between workers.Add and workers.Done. *)
Working == {"running", "requested", "answered", "copying", "flushed", "failed",
            "finished", "removed"}
Phases  == {"idle", "refused", "registered", "ended"} \cup Working

Init ==
  /\ active = {} /\ cancelled = {}
  /\ phase = [l \in Loads |-> "idle"]
  /\ target = [l \in Loads |-> None]
  /\ partial = [t \in Targets |-> None] /\ file = [t \in Targets |-> None]
  /\ content = [l \in Loads |-> <<>>] /\ stuck = {}
  /\ open = [l \in Loads |-> None]
  /\ got = [l \in Loads |-> 0]
  /\ result = [l \in Loads |-> "none"]
  /\ canceller = [a \in Cancellers |-> [pc |-> "idle", on |-> None]]
  /\ shut = "up" /\ snapshot = {}

-----------------------------------------------------------------------------
(* Start.                                                                  *)

(* No address, or a path that does not resolve, is refused. *)
Start(l, t) ==
  /\ shut = "up"
  /\ phase[l] = "idle"
  /\ \/ phase' = [phase EXCEPT ![l] = "refused"] /\ UNCHANGED <<active, target>>
     \/ /\ phase' = [phase EXCEPT ![l] = "registered"]
        /\ target' = [target EXCEPT ![l] = t]
        /\ active' = active \cup {l}
  /\ UNCHANGED <<cancelled, open, got, result, diskVars, callVars>>

(* workers.Add, and the worker runs. *)
Run(l) ==
  /\ phase[l] = "registered"
  /\ phase' = [phase EXCEPT ![l] = "running"]
  /\ UNCHANGED <<active, target, cancelled, open, got, result, diskVars, callVars>>

-----------------------------------------------------------------------------
(* fetch.                                                                  *)

To(l, from, to) == phase[l] = from /\ phase' = [phase EXCEPT ![l] = to]

(* An error that wraps the end of the context is a cancel. *)
Failure(l) == IF l \in cancelled THEN {"cancelled", "error"} ELSE {"error"}

(* The request is not sent when the context has ended already. *)
Request(l) ==
  /\ IF l \in cancelled
     THEN To(l, "running", "finished") /\ result' = [result EXCEPT ![l] = "cancelled"]
     ELSE To(l, "running", "requested") /\ UNCHANGED result
  /\ UNCHANGED <<active, target, cancelled, open, got, diskVars, callVars>>

Respond(l) ==
  /\ To(l, "requested", "answered")
  /\ UNCHANGED <<active, target, cancelled, open, got, result, diskVars, callVars>>

(* No answer, one that is not 2xx, a directory or a file that cannot be    *)
(* made.                                                                   *)
FetchFails(l) ==
  /\ To(l, "requested", "finished") \/ To(l, "answered", "finished")
  /\ \E r \in IF phase[l] = "requested" THEN Failure(l) ELSE {"error"} :
       result' = [result EXCEPT ![l] = r]
  /\ UNCHANGED <<active, target, cancelled, open, got, diskVars, callVars>>

(* os.Create empties the file that is there, whoever writes it. *)
Create(l) ==
  /\ To(l, "answered", "copying")
  /\ LET i == IF partial[target[l]] = None THEN l ELSE partial[target[l]] IN
       /\ partial' = [partial EXCEPT ![target[l]] = i]
       /\ open' = [open EXCEPT ![l] = i]
       /\ content' = [content EXCEPT ![i] = <<>>]
  /\ UNCHANGED <<active, target, cancelled, got, result, file, stuck, callVars>>

(* A write at its own offset: what it skips is a hole. *)
Written(c, offset, l) ==
  [i \in 1..(IF Len(c) < offset THEN offset ELSE Len(c)) |->
     IF i = offset THEN l ELSE IF i <= Len(c) THEN c[i] ELSE None]

Copy(l) ==
  /\ phase[l] = "copying" /\ got[l] < Chunks
  /\ got' = [got EXCEPT ![l] = @ + 1]
  /\ content' = [content EXCEPT ![open[l]] = Written(@, got'[l], l)]
  /\ UNCHANGED <<active, phase, target, cancelled, open, result, partial, file,
                 stuck, callVars>>

(* The body breaks off, the context ends it or the disk is full. *)
CopyFails(l) ==
  /\ To(l, "copying", "failed")
  /\ \E r \in Failure(l) : result' = [result EXCEPT ![l] = r]
  /\ UNCHANGED <<active, target, cancelled, open, got, diskVars, callVars>>

(* Mutant: a body that breaks off is taken for its end. *)
CopiedShort(l) ==
  /\ got[l] > 0
  /\ IF l \in cancelled
     THEN To(l, "copying", "failed") /\ result' = [result EXCEPT ![l] = "cancelled"]
     ELSE To(l, "copying", "flushed") /\ UNCHANGED result
  /\ UNCHANGED <<active, target, cancelled, open, got, diskVars, callVars>>

(* Mutant: the context is not looked at after the last chunk. *)
CopiedRegardless(l) ==
  /\ got[l] = Chunks
  /\ To(l, "copying", "flushed") /\ UNCHANGED result
  /\ UNCHANGED <<active, target, cancelled, open, got, diskVars, callVars>>

(* The file is closed and the context looked at once more. *)
Copied(l) ==
  /\ got[l] = Chunks
  /\ IF l \in cancelled
     THEN To(l, "copying", "failed") /\ result' = [result EXCEPT ![l] = "cancelled"]
     ELSE To(l, "copying", "flushed") /\ UNCHANGED result
  /\ UNCHANGED <<active, target, cancelled, open, got, diskVars, callVars>>

(* Mutant: the partial file of a cancelled download stays. *)
RemoveUnlessCancelled(l) ==
  /\ To(l, "failed", "finished")
  /\ partial' = IF result[l] = "cancelled" THEN partial
                ELSE [partial EXCEPT ![target[l]] = None]
  /\ UNCHANGED <<active, target, cancelled, open, got, result, file, content, stuck, callVars>>

(* os.Remove takes the name away, whoever's file it is, or fails, which    *)
(* nobody looks at.                                                        *)
RemovePartial(l) ==
  /\ To(l, "failed", "finished")
  /\ \/ partial' = [partial EXCEPT ![target[l]] = None] /\ UNCHANGED stuck
     \/ partial[target[l]] # None /\ stuck' = stuck \cup {l} /\ UNCHANGED partial
  /\ UNCHANGED <<active, target, cancelled, open, got, result, file, content, callVars>>

(* os.Rename; it fails for certain when somebody took the name away.       *)
Rename(l) ==
  \/ /\ To(l, "flushed", "finished")
     /\ partial[target[l]] # None
     /\ file' = [file EXCEPT ![target[l]] = partial[target[l]]]
     /\ partial' = [partial EXCEPT ![target[l]] = None]
     /\ result' = [result EXCEPT ![l] = "success"]
     /\ UNCHANGED <<active, target, cancelled, open, got, content, stuck, callVars>>
  \/ /\ To(l, "flushed", "failed")
     /\ result' = [result EXCEPT ![l] = "error"]
     /\ UNCHANGED <<active, target, cancelled, open, got, diskVars, callVars>>

(* The handle leaves the map and its context is released. *)
Finish(l) ==
  /\ To(l, "finished", "removed")
  /\ active' = active \ {l}
  /\ cancelled' = cancelled \cup {l}
  /\ UNCHANGED <<target, open, got, result, diskVars, callVars>>

(* The done event, then workers.Done. *)
Done(l) ==
  /\ To(l, "removed", "ended")
  /\ UNCHANGED <<active, target, cancelled, open, got, result, diskVars, callVars>>

-----------------------------------------------------------------------------
(* Cancel and the shutdown.                                                *)

(* The id is out once Start has answered. *)
Knowable(l) == phase[l] \in Working \cup {"ended"}

Cancel(a, l) ==
  /\ shut = "up"
  /\ canceller[a].pc = "idle" /\ Knowable(l)
  /\ canceller' = [canceller EXCEPT ![a] =
       [pc |-> IF l \in active THEN "found" ELSE "unknown", on |-> l]]
  /\ UNCHANGED <<shut, snapshot, workVars, diskVars>>

Cancels(a) ==
  /\ canceller[a].pc = "found"
  /\ canceller' = [canceller EXCEPT ![a].pc = "answered"]
  /\ cancelled' = cancelled \cup {canceller[a].on}
  /\ UNCHANGED <<active, phase, target, open, got, result, shut, snapshot, diskVars>>

(* Everything in the map is cancelled under the lock. *)
ServiceShutdown ==
  /\ shut = "up"
  /\ shut' = "waiting"
  /\ snapshot' = active
  /\ cancelled' = cancelled \cup active
  /\ UNCHANGED <<active, phase, target, open, got, result, canceller, diskVars>>

(* Mutant: the shutdown cancels and waits for nobody. *)
WaitsForNobody ==
  /\ shut = "waiting"
  /\ shut' = "down"
  /\ UNCHANGED <<canceller, snapshot, workVars, diskVars>>

(* workers.Wait. *)
WorkersWait ==
  /\ shut = "waiting"
  /\ \A l \in Loads : phase[l] \notin Working
  /\ shut' = "down"
  /\ UNCHANGED <<canceller, snapshot, workVars, diskVars>>

-----------------------------------------------------------------------------
WorkerStep(l) ==
  \/ Run(l) \/ Request(l) \/ Respond(l) \/ FetchFails(l) \/ Create(l)
  \/ Copy(l) \/ CopyFails(l) \/ Copied(l) \/ RemovePartial(l) \/ Rename(l)
  \/ Finish(l) \/ Done(l)

Exit == shut = "down" /\ UNCHANGED vars

Next ==
  \/ \E l \in Loads, t \in Targets : Start(l, t)
  \/ \E l \in Loads : WorkerStep(l) \/ (\E a \in Cancellers : Cancel(a, l))
  \/ \E a \in Cancellers : Cancels(a)
  \/ ServiceShutdown \/ WorkersWait \/ Exit

Spec == Init /\ [][Next]_vars

-----------------------------------------------------------------------------
(* Properties.                                                             *)

(* Every variable keeps its type, and a handle is in the map until its     *)
(* worker is through.                                                      *)
TypeOK ==
  /\ phase \in [Loads -> Phases]
  /\ active = {l \in Loads : phase[l] \in {"registered"} \cup (Working \ {"removed"})}
  /\ target \in [Loads -> Targets \cup {None}]
  /\ cancelled \subseteq Loads
  /\ partial \in [Targets -> Loads \cup {None}] /\ file \in [Targets -> Loads \cup {None}]
  /\ content \in [Loads -> Seq(Loads \cup {None})] /\ stuck \subseteq Loads
  /\ open \in [Loads -> Loads \cup {None}]
  /\ got \in [Loads -> 0..Chunks]
  /\ result \in [Loads -> {"none", "success", "cancelled", "error"}]
  /\ canceller \in [Cancellers -> [pc : {"idle", "found", "unknown", "answered"},
                                   on : Loads \cup {None}]]
  /\ shut \in {"up", "waiting", "down"} /\ snapshot \subseteq Loads

(* No other download was ever started for the target of this one. *)
Alone(l) == \A m \in Loads \ {l} : target[m] # target[l]

(* A download that reports success has its own bytes, all of them, under   *)
(* its target, as the digest it reports says.                              *)
DigestIsOfTheFile ==
  \A l \in Loads : result[l] = "success" /\ Alone(l) =>
    /\ file[target[l]] = l
    /\ Len(content[l]) = Chunks /\ ToSet(content[l]) = {l}

(* A download that is over has no partial file, unless its own removal of  *)
(* it failed, and one that failed or was cancelled has put nothing under   *)
(* its target.                                                             *)
NothingLeftBehind ==
  \A l \in Loads : phase[l] = "ended" /\ Alone(l) =>
    /\ partial[target[l]] = None \/ l \in stuck
    /\ result[l] # "success" => file[target[l]] = None

(* The shutdown ends no sooner than what it cancelled has cleaned up, or   *)
(* failed to.                                                              *)
ShutdownCleansUp ==
  shut = "down" => \A l \in snapshot : Alone(l) => partial[target[l]] # l \/ l \in stuck

(* A cancel that comes before the last chunk is honoured, even when all    *)
(* chunks arrive after it.                                                 *)
CancelIsHonoured ==
  \A l \in Loads :
    [](l \in cancelled /\ phase[l] \in {"registered", "running", "requested", "answered", "copying"}
       => [](result[l] # "success"))
=============================================================================
