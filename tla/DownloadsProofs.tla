-------------------------- MODULE DownloadsProofs --------------------------
(***************************************************************************)
(* Proofs about Downloads for any number of downloads, targets and chunks. *)
(***************************************************************************)
EXTENDS Downloads, SequenceTheorems, TLAPS

(* How far a download is, told by what it has. *)
Early  == {"idle", "refused", "registered", "running", "requested", "answered"}
Staged ==
  \A l \in Loads :
    /\ phase[l] \in Early => got[l] = 0 /\ open[l] = None /\ result[l] = "none"
    /\ phase[l] \in {"copying", "flushed"} => result[l] = "none" /\ open[l] # None
    /\ phase[l] = "flushed" => got[l] = Chunks
    /\ phase[l] = "failed" => result[l] # "success"
    /\ l \in stuck => phase[l] \in {"finished", "removed", "ended"} /\ result[l] # "success"

(* A download is for a target once it is registered; a file, under either  *)
(* name and in a worker's hands, was created for the target it is under.   *)
Named ==
  /\ \A l \in Loads : target[l] = None <=> phase[l] \in {"idle", "refused"}
  /\ \A t \in Targets :
       /\ partial[t] # None => target[partial[t]] = t
       /\ file[t] # None => target[file[t]] = t
  /\ \A l \in Loads : open[l] # None => target[open[l]] = target[l]

(* A Cancel call that is on its way is about a download. *)
Aimed == \A a \in Cancellers : canceller[a].pc # "idle" => canceller[a].on \in Loads

(* What the shutdown found has been cancelled, and once it is over none of *)
(* it holds a file or will create one.                                     *)
Cut ==
  /\ snapshot \subseteq cancelled
  /\ \A l \in snapshot : phase[l] \notin {"idle", "refused"}
  /\ shut = "up" => snapshot = {}
  /\ shut = "down" => \A l \in snapshot :
       phase[l] \in {"registered", "running", "finished", "removed", "ended"}

Basic == TypeOK /\ Staged /\ Named /\ Aimed /\ Cut

(* A file all of whose chunks so far were written by l. *)
Whole(l, n) == Len(content[l]) = n /\ \A i \in 1..n : content[l][i] = l

(* The only download of a target has the names to itself. *)
OwnFiles(l) ==
  /\ partial[target[l]] =
       IF phase[l] \in {"copying", "flushed", "failed"} \/ l \in stuck THEN l ELSE None
  /\ file[target[l]] = IF result[l] = "success" THEN l ELSE None
  /\ phase[l] \in {"copying", "flushed"} => open[l] = l /\ Whole(l, got[l])
  /\ result[l] = "success" => Whole(l, Chunks)
Owned == \A l \in Loads : target[l] # None /\ Alone(l) => OwnFiles(l)

-----------------------------------------------------------------------------
(* A write keeps a file a sequence of chunks, and appends where no chunk   *)
(* was skipped.                                                            *)
LEMMA WrittenType ==
  ASSUME NEW S, NEW c \in Seq(S \cup {None}), NEW n \in Nat, NEW l \in S
  PROVE  Written(c, n, l) \in Seq(S \cup {None})
<1> DEFINE m == IF Len(c) < n THEN n ELSE Len(c)
<1>1. m \in Nat
  OBVIOUS
<1>2. \A i \in 1..m : (IF i = n THEN l ELSE IF i <= Len(c) THEN c[i] ELSE None) \in S \cup {None}
  OBVIOUS
<1>3. [i \in 1..m |-> IF i = n THEN l ELSE IF i <= Len(c) THEN c[i] ELSE None]
        \in Seq(S \cup {None})
  BY <1>1, <1>2
<1>. QED
  BY <1>3 DEF Written

LEMMA WrittenAppends ==
  ASSUME NEW S, NEW c \in Seq(S), NEW n \in Nat, NEW l, Len(c) + 1 = n,
         \A i \in 1..Len(c) : c[i] = l
  PROVE  Len(Written(c, n, l)) = n /\ \A i \in 1..n : Written(c, n, l)[i] = l
<1>1. Written(c, n, l) =
        [i \in 1..n |-> IF i = n THEN l ELSE IF i <= Len(c) THEN c[i] ELSE None]
  BY DEF Written
<1>. QED
  BY <1>1

-----------------------------------------------------------------------------
LEMMA BasicInit == Init => Basic
<1> SUFFICES ASSUME Init PROVE Basic
    OBVIOUS
<1>1. TypeOK
  BY DownloadBound DEF Init, TypeOK, Phases, Working
<1>2. Staged /\ Named /\ Aimed /\ Cut
  BY DEF Init, Staged, Early, Named, Aimed, Cut
<1>. QED
  BY <1>1, <1>2 DEF Basic

LEMMA TypeStep == Basic /\ [Next]_vars => TypeOK'
<1> SUFFICES ASSUME TypeOK, Staged, Named, Aimed, [Next]_vars PROVE TypeOK'
    BY DEF Basic
<1>0. \A l \in Loads : phase[l] \notin {"idle", "refused"} => target[l] \in Targets
  BY DEF TypeOK, Named
<1> USE DEF TypeOK, Phases, Working, diskVars, workVars, callVars
<1>1. ASSUME NEW l \in Loads, NEW t \in Targets, Start(l, t) PROVE TypeOK'
  <2>1. CASE phase' = [phase EXCEPT ![l] = "refused"] /\ UNCHANGED <<active, target>>
    BY <1>1, <2>1 DEF Start
  <2>2. CASE /\ phase' = [phase EXCEPT ![l] = "registered"]
             /\ target' = [target EXCEPT ![l] = t]
             /\ active' = active \cup {l}
    BY <1>1, <2>2 DEF Start
  <2>. QED
    BY <1>1, <2>1, <2>2 DEF Start
<1>2. ASSUME NEW l \in Loads, Run(l) PROVE TypeOK'
  BY <1>2 DEF Run
<1>3. ASSUME NEW l \in Loads, Request(l) PROVE TypeOK'
  BY <1>3 DEF Request, To
<1>4. ASSUME NEW l \in Loads, Respond(l) PROVE TypeOK'
  BY <1>4 DEF Respond, To
<1>5. ASSUME NEW l \in Loads, FetchFails(l) PROVE TypeOK'
  BY ZenonT(30), <1>5 DEF FetchFails, To, Failure
<1>6. ASSUME NEW l \in Loads, Create(l) PROVE TypeOK'
  <2>1. target[l] \in Targets
    BY <1>0, <1>6 DEF Create, To
  <2>2. <<>> \in Seq(Loads \cup {None})
    OBVIOUS
  <2>. QED
    BY <1>6, <2>1, <2>2 DEF Create, To
<1>7. ASSUME NEW l \in Loads, Copy(l) PROVE TypeOK'
  <2>1. open[l] \in Loads /\ got'[l] \in 0..Chunks
    BY <1>7, DownloadBound DEF Copy, Staged
  <2>2. Written(content[open[l]], got'[l], l) \in Seq(Loads \cup {None})
    <3>1. content[open[l]] \in Seq(Loads \cup {None}) /\ got'[l] \in Nat
      BY <2>1, DownloadBound
    <3>. QED
      BY <3>1, WrittenType
  <2>3. content' \in [Loads -> Seq(Loads \cup {None})]
    BY <1>7, <2>1, <2>2 DEF Copy
  <2>4. got' \in [Loads -> 0..Chunks]
    BY <1>7, DownloadBound DEF Copy
  <2>. QED
    BY <1>7, <2>3, <2>4 DEF Copy
<1>8. ASSUME NEW l \in Loads, CopyFails(l) PROVE TypeOK'
  BY <1>8 DEF CopyFails, To, Failure
<1>9. ASSUME NEW l \in Loads, Copied(l) PROVE TypeOK'
  BY ZenonT(30), <1>9 DEF Copied, To
<1>10. ASSUME NEW l \in Loads, RemovePartial(l) PROVE TypeOK'
  BY <1>10 DEF RemovePartial, To
<1>11. ASSUME NEW l \in Loads, Rename(l) PROVE TypeOK'
  <2>1. target[l] \in Targets
    BY <1>0, <1>11 DEF Rename, To
  <2>. QED
    BY ZenonT(30), <1>11, <2>1 DEF Rename, To
<1>12. ASSUME NEW l \in Loads, Finish(l) PROVE TypeOK'
  BY <1>12 DEF Finish, To
<1>13. ASSUME NEW l \in Loads, Done(l) PROVE TypeOK'
  BY <1>13 DEF Done, To
<1>14. ASSUME NEW a \in Cancellers, NEW l \in Loads, Cancel(a, l) PROVE TypeOK'
  BY <1>14 DEF Cancel
<1>15. ASSUME NEW a \in Cancellers, Cancels(a) PROVE TypeOK'
  BY ZenonT(30), <1>15 DEF Cancels, Aimed
<1>16. ASSUME ServiceShutdown PROVE TypeOK'
  BY <1>16 DEF ServiceShutdown
<1>17. ASSUME WorkersWait PROVE TypeOK'
  BY <1>17 DEF WorkersWait
<1>18. ASSUME UNCHANGED vars PROVE TypeOK'
  BY <1>18 DEF vars
<1>. QED
  BY <1>1, <1>2, <1>3, <1>4, <1>5, <1>6, <1>7, <1>8, <1>9, <1>10, <1>11, <1>12,
     <1>13, <1>14, <1>15, <1>16, <1>17, <1>18 DEF Next, WorkerStep, Exit

(* What a download has follows how far it is. *)
LEMMA StagedStep == Basic /\ [Next]_vars => Staged'
<1> SUFFICES ASSUME TypeOK, Staged, [Next]_vars PROVE Staged'
    BY DEF Basic
<1> USE DEF TypeOK, Staged, Early, diskVars, workVars, callVars
<1>1. ASSUME NEW l \in Loads, NEW t \in Targets, Start(l, t) PROVE Staged'
  BY <1>1 DEF Start
<1>2. ASSUME NEW l \in Loads, Run(l) PROVE Staged'
  BY <1>2 DEF Run, To
<1>3. ASSUME NEW l \in Loads, Request(l) PROVE Staged'
  <2>1. CASE To(l, "running", "finished") /\ result' = [result EXCEPT ![l] = "cancelled"]
    BY <1>3, <2>1 DEF Request, To
  <2>2. CASE To(l, "running", "requested") /\ UNCHANGED result
    BY <1>3, <2>2 DEF Request, To
  <2>. QED
    BY <1>3, <2>1, <2>2 DEF Request
<1>4. ASSUME NEW l \in Loads, Respond(l) PROVE Staged'
  BY <1>4 DEF Respond, To
<1>5. ASSUME NEW l \in Loads, FetchFails(l) PROVE Staged'
  BY <1>5 DEF FetchFails, To, Failure
<1>6. ASSUME NEW l \in Loads, Create(l) PROVE Staged'
  <2>1. l # None /\ (partial[target[l]] = None \/ partial[target[l]] # None)
    BY DownloadNone
  <2>2. open'[l] # None
    BY <1>6, <2>1 DEF Create
  <2>. QED
    BY <1>6, <2>2 DEF Create, To
<1>7. ASSUME NEW l \in Loads, Copy(l) PROVE Staged'
  BY <1>7 DEF Copy
<1>8. ASSUME NEW l \in Loads, CopyFails(l) PROVE Staged'
  BY <1>8 DEF CopyFails, To, Failure
<1>9. ASSUME NEW l \in Loads, Copied(l) PROVE Staged'
  BY ZenonT(30), <1>9 DEF Copied, To
<1>10. ASSUME NEW l \in Loads, RemovePartial(l) PROVE Staged'
  BY <1>10 DEF RemovePartial, To
<1>11. ASSUME NEW l \in Loads, Rename(l) PROVE Staged'
  <2>1. CASE To(l, "flushed", "finished") /\ result' = [result EXCEPT ![l] = "success"]
    BY <1>11, <2>1 DEF Rename, To
  <2>2. CASE To(l, "flushed", "failed") /\ result' = [result EXCEPT ![l] = "error"]
    BY <1>11, <2>2 DEF Rename, To
  <2>. QED
    BY <1>11, <2>1, <2>2 DEF Rename
<1>12. ASSUME NEW l \in Loads, Finish(l) PROVE Staged'
  BY <1>12 DEF Finish, To
<1>13. ASSUME NEW l \in Loads, Done(l) PROVE Staged'
  BY <1>13 DEF Done, To
<1>14. ASSUME NEW a \in Cancellers, NEW l \in Loads, Cancel(a, l) PROVE Staged'
  BY <1>14 DEF Cancel
<1>15. ASSUME NEW a \in Cancellers, Cancels(a) PROVE Staged'
  BY <1>15 DEF Cancels
<1>16. ASSUME ServiceShutdown PROVE Staged'
  BY <1>16 DEF ServiceShutdown
<1>17. ASSUME WorkersWait PROVE Staged'
  BY <1>17 DEF WorkersWait
<1>18. ASSUME UNCHANGED vars PROVE Staged'
  BY <1>18 DEF vars
<1>. QED
  BY <1>1, <1>2, <1>3, <1>4, <1>5, <1>6, <1>7, <1>8, <1>9, <1>10, <1>11, <1>12,
     <1>13, <1>14, <1>15, <1>16, <1>17, <1>18 DEF Next, WorkerStep, Exit

(* Files stay under the target they were created for. *)
LEMMA NamedStep == Basic /\ [Next]_vars => Named'
<1> SUFFICES ASSUME TypeOK, Named, Staged, [Next]_vars PROVE Named'
    BY DEF Basic
<1> USE DEF TypeOK, Named, diskVars, workVars, callVars
<1>1. ASSUME NEW l \in Loads, NEW t \in Targets, Start(l, t) PROVE Named'
  <2>1. CASE phase' = [phase EXCEPT ![l] = "refused"] /\ UNCHANGED target
    BY <1>1, <2>1 DEF Start
  <2>2. CASE /\ phase' = [phase EXCEPT ![l] = "registered"]
             /\ target' = [target EXCEPT ![l] = t]
    <3>0. None \notin Loads /\ None \notin Targets
      BY DownloadNone
    <3>1. target[l] = None /\ t # None
      BY <1>1, <3>0 DEF Start
    <3>2. \A m \in Loads : open[m] # l
      BY <3>1, DownloadNone DEF Staged, Early
    <3>3. \A u \in Targets : partial[u] # l /\ file[u] # l
      <4> SUFFICES ASSUME NEW u \in Targets PROVE partial[u] # l /\ file[u] # l
          OBVIOUS
      <4>1. target[l] # u
        BY <3>0, <3>1
      <4>. QED
        BY <3>0, <4>1
    <3>4. /\ target'[l] = t /\ \A m \in Loads \ {l} : target'[m] = target[m]
          /\ phase'[l] = "registered" /\ \A m \in Loads \ {l} : phase'[m] = phase[m]
          /\ UNCHANGED <<partial, file, open>>
      BY <1>1, <2>2 DEF Start
    <3>5. \A m \in Loads : target'[m] = None <=> phase'[m] \in {"idle", "refused"}
      BY <3>1, <3>4
    <3>6. \A u \in Targets :
            /\ partial'[u] # None => target'[partial'[u]] = u
            /\ file'[u] # None => target'[file'[u]] = u
      BY <3>3, <3>4
    <3>7. \A m \in Loads : open'[m] # None => target'[open'[m]] = target'[m]
      <4>1. open[l] = None
        BY <1>1 DEF Start, Staged, Early
      <4>. QED
        BY <3>2, <3>4, <4>1
    <3>. QED
      BY <3>5, <3>6, <3>7
  <2>. QED
    BY <1>1, <2>1, <2>2 DEF Start
<1>2. ASSUME NEW l \in Loads, Run(l) PROVE Named'
  BY <1>2 DEF Run, To
<1>3. ASSUME NEW l \in Loads, Request(l) PROVE Named'
  BY ZenonT(30), <1>3 DEF Request, To
<1>4. ASSUME NEW l \in Loads, Respond(l) PROVE Named'
  BY <1>4 DEF Respond, To
<1>5. ASSUME NEW l \in Loads, FetchFails(l) PROVE Named'
  BY <1>5 DEF FetchFails, To
<1>6. ASSUME NEW l \in Loads, Create(l) PROVE Named'
  BY <1>6 DEF Create, To
<1>7. ASSUME NEW l \in Loads, Copy(l) PROVE Named'
  BY <1>7 DEF Copy
<1>8. ASSUME NEW l \in Loads, CopyFails(l) PROVE Named'
  BY <1>8 DEF CopyFails, To
<1>9. ASSUME NEW l \in Loads, Copied(l) PROVE Named'
  BY ZenonT(30), <1>9 DEF Copied, To
<1>10. ASSUME NEW l \in Loads, RemovePartial(l) PROVE Named'
  BY <1>10 DEF RemovePartial, To
<1>11. ASSUME NEW l \in Loads, Rename(l) PROVE Named'
  BY <1>11 DEF Rename, To
<1>12. ASSUME NEW l \in Loads, Finish(l) PROVE Named'
  BY <1>12 DEF Finish, To
<1>13. ASSUME NEW l \in Loads, Done(l) PROVE Named'
  BY <1>13 DEF Done, To
<1>14. ASSUME NEW a \in Cancellers, NEW l \in Loads, Cancel(a, l) PROVE Named'
  BY <1>14 DEF Cancel
<1>15. ASSUME NEW a \in Cancellers, Cancels(a) PROVE Named'
  BY <1>15 DEF Cancels
<1>16. ASSUME ServiceShutdown PROVE Named'
  BY <1>16 DEF ServiceShutdown
<1>17. ASSUME WorkersWait PROVE Named'
  BY <1>17 DEF WorkersWait
<1>18. ASSUME UNCHANGED vars PROVE Named'
  BY <1>18 DEF vars
<1>. QED
  BY <1>1, <1>2, <1>3, <1>4, <1>5, <1>6, <1>7, <1>8, <1>9, <1>10, <1>11, <1>12,
     <1>13, <1>14, <1>15, <1>16, <1>17, <1>18 DEF Next, WorkerStep, Exit

(* What was cancelled stays so, and creates nothing once nobody waits. *)
LEMMA CutStep == Basic /\ [Next]_vars => (Aimed /\ Cut)'
<1> SUFFICES ASSUME TypeOK, Aimed, Cut, [Next]_vars PROVE (Aimed /\ Cut)'
    BY DEF Basic
<1> USE DEF TypeOK, Aimed, Cut, Working, diskVars, workVars, callVars
<1>1. ASSUME NEW l \in Loads, NEW t \in Targets, Start(l, t) PROVE (Aimed /\ Cut)'
  BY <1>1 DEF Start
<1>2. ASSUME NEW l \in Loads, Run(l) PROVE (Aimed /\ Cut)'
  BY <1>2 DEF Run, To
<1>3. ASSUME NEW l \in Loads, Request(l) PROVE (Aimed /\ Cut)'
  BY ZenonT(30), <1>3 DEF Request, To
<1>4. ASSUME NEW l \in Loads, Respond(l) PROVE (Aimed /\ Cut)'
  BY <1>4 DEF Respond, To
<1>5. ASSUME NEW l \in Loads, FetchFails(l) PROVE (Aimed /\ Cut)'
  BY <1>5 DEF FetchFails, To
<1>6. ASSUME NEW l \in Loads, Create(l) PROVE (Aimed /\ Cut)'
  BY <1>6 DEF Create, To
<1>7. ASSUME NEW l \in Loads, Copy(l) PROVE (Aimed /\ Cut)'
  BY <1>7 DEF Copy
<1>8. ASSUME NEW l \in Loads, CopyFails(l) PROVE (Aimed /\ Cut)'
  BY <1>8 DEF CopyFails, To
<1>9. ASSUME NEW l \in Loads, Copied(l) PROVE (Aimed /\ Cut)'
  BY <1>9 DEF Copied, To
<1>10. ASSUME NEW l \in Loads, RemovePartial(l) PROVE (Aimed /\ Cut)'
  BY <1>10 DEF RemovePartial, To
<1>11. ASSUME NEW l \in Loads, Rename(l) PROVE (Aimed /\ Cut)'
  BY <1>11 DEF Rename, To
<1>12. ASSUME NEW l \in Loads, Finish(l) PROVE (Aimed /\ Cut)'
  BY <1>12 DEF Finish, To
<1>13. ASSUME NEW l \in Loads, Done(l) PROVE (Aimed /\ Cut)'
  BY <1>13 DEF Done, To
<1>14. ASSUME NEW a \in Cancellers, NEW l \in Loads, Cancel(a, l) PROVE (Aimed /\ Cut)'
  BY <1>14 DEF Cancel
<1>15. ASSUME NEW a \in Cancellers, Cancels(a) PROVE (Aimed /\ Cut)'
  BY <1>15 DEF Cancels
<1>16. ASSUME ServiceShutdown PROVE (Aimed /\ Cut)'
  BY <1>16 DEF ServiceShutdown
<1>17. ASSUME WorkersWait PROVE (Aimed /\ Cut)'
  <2>1. \A l \in snapshot : phase[l] \in {"registered", "ended"}
    BY <1>17 DEF WorkersWait, Phases
  <2>. QED
    BY <1>17, <2>1 DEF WorkersWait
<1>18. ASSUME UNCHANGED vars PROVE (Aimed /\ Cut)'
  BY <1>18 DEF vars
<1>. QED
  BY <1>1, <1>2, <1>3, <1>4, <1>5, <1>6, <1>7, <1>8, <1>9, <1>10, <1>11, <1>12,
     <1>13, <1>14, <1>15, <1>16, <1>17, <1>18 DEF Next, WorkerStep, Exit

LEMMA BasicStep == Basic /\ [Next]_vars => Basic'
BY TypeStep, StagedStep, NamedStep, CutStep DEF Basic

-----------------------------------------------------------------------------
(* A download that is alone was alone before, and has the same target.     *)
LEMMA AloneBefore ==
  ASSUME Basic, [Next]_vars, NEW l \in Loads, target'[l] # None, Alone(l)'
  PROVE  /\ target[l] # None => target'[l] = target[l] /\ Alone(l)
         /\ target[l] = None => \E t \in Targets : Start(l, t) /\ target'[l] = t
<1> USE DEF Basic, TypeOK, Named, diskVars, workVars, callVars
<1>1. CASE \E m \in Loads, t \in Targets : Start(m, t)
  <2>1. PICK m \in Loads, t \in Targets : Start(m, t)
    BY <1>1
  <2>2. None \notin Targets
    BY DownloadNone
  <2>3. target[m] = None /\ \A k \in Loads \ {m} : target'[k] = target[k]
    BY <2>1 DEF Start
  <2>4. CASE m = l
    BY <2>1, <2>2, <2>3, <2>4 DEF Start
  <2>5. CASE m # l
    BY <2>3, <2>5 DEF Alone
  <2>. QED
    BY <2>4, <2>5
<1>2. CASE UNCHANGED target
  BY <1>2 DEF Alone
<1>. QED
  BY <1>1, <1>2 DEF Next, WorkerStep, Exit, vars, Run, Request, Respond, FetchFails,
     Create, Copy, CopyFails, Copied, RemovePartial, Rename, Finish, Done, Cancel,
     Cancels, ServiceShutdown, WorkersWait

(* A step of another download leaves the files of one that is alone.       *)
LEMMA OthersApart ==
  ASSUME Basic, NEW l \in Loads, target[l] # None, Alone(l), OwnFiles(l),
         NEW m \in Loads, m # l, WorkerStep(m)
  PROVE  OwnFiles(l)'
<1>1. target[m] # target[l] /\ target[l] \in Targets
  BY DEF Alone, Basic, TypeOK
<1>2. /\ phase'[l] = phase[l] /\ target'[l] = target[l] /\ open'[l] = open[l]
      /\ got'[l] = got[l] /\ result'[l] = result[l]
  BY DEF Basic, TypeOK, WorkerStep, Run, Request, Respond, FetchFails, Create, Copy,
     CopyFails, Copied, RemovePartial, Rename, Finish, Done, To, diskVars
<1>3. partial'[target[l]] = partial[target[l]] /\ file'[target[l]] = file[target[l]]
  BY <1>1 DEF Basic, TypeOK, WorkerStep, Run, Request, Respond, FetchFails, Create,
     Copy, CopyFails, Copied, RemovePartial, Rename, Finish, Done, diskVars
<1>4. content'[l] = content[l]
  <2>1. CASE Create(m)
    <3>1. target[m] \in Targets
      <4>1. phase[m] = "answered"
        BY <2>1 DEF Create, To
      <4>2. target[m] # None
        BY <4>1 DEF Basic, Named
      <4>. QED
        BY <4>2 DEF Basic, TypeOK
    <3>2. partial[target[m]] # l
      BY <1>1, <3>1, DownloadNone DEF Basic, Named
    <3>. QED
      BY <2>1, <3>2 DEF Create, Basic, TypeOK
  <2>2. CASE Copy(m)
    <3>1. open[m] # l
      BY <1>1, <2>2, DownloadNone DEF Basic, Named
    <3>. QED
      BY <2>2, <3>1 DEF Copy, Basic, TypeOK
  <2>. QED
    BY <2>1, <2>2 DEF WorkerStep, Run, Request, Respond, FetchFails, CopyFails, Copied,
       RemovePartial, Rename, Finish, Done, diskVars
<1>5. l \in stuck' <=> l \in stuck
  BY DEF WorkerStep, Run, Request, Respond, FetchFails, Create, Copy, CopyFails, Copied,
     RemovePartial, Rename, Finish, Done, diskVars
<1>. QED
  BY <1>2, <1>3, <1>4, <1>5 DEF OwnFiles, Whole

(* A download that is alone keeps its files by its own steps.              *)
LEMMA OwnStep ==
  ASSUME Basic, NEW l \in Loads, target[l] # None, Alone(l), OwnFiles(l), WorkerStep(l)
  PROVE  OwnFiles(l)'
<1>1. target[l] \in Targets /\ l # None
  BY DownloadNone DEF Basic, TypeOK
<1>2. Basic /\ OwnFiles(l)
  OBVIOUS
<1> USE DEF Basic, TypeOK, OwnFiles, Whole, Staged, Early, diskVars, callVars
<1>3. CASE Run(l)
  BY <1>1, <1>2, <1>3 DEF Run, To, Failure
<1>4. CASE Request(l)
  BY <1>1, <1>2, <1>4 DEF Request, To, Failure
<1>5. CASE Respond(l)
  BY <1>1, <1>2, <1>5 DEF Respond, To, Failure
<1>6. CASE FetchFails(l)
  BY <1>1, <1>2, <1>6 DEF FetchFails, To, Failure
<1>7. CASE CopyFails(l)
  BY <1>1, <1>2, <1>7 DEF CopyFails, To, Failure
<1>8. CASE Copied(l)
  BY <1>1, <1>2, <1>8 DEF Copied, To, Failure
<1>9. CASE RemovePartial(l)
  BY <1>1, <1>2, <1>9 DEF RemovePartial, To, Failure
<1>10. CASE Finish(l)
  BY <1>1, <1>2, <1>10 DEF Finish, To, Failure
<1>11. CASE Done(l)
  BY <1>1, <1>2, <1>11 DEF Done, To, Failure
<1>12. CASE Create(l)
  <2>1. /\ partial[target[l]] = None
        /\ partial' = [partial EXCEPT ![target[l]] = l] /\ open' = [open EXCEPT ![l] = l]
        /\ content' = [content EXCEPT ![l] = <<>>] /\ phase' = [phase EXCEPT ![l] = "copying"]
        /\ UNCHANGED <<target, got, result, file>>
    BY <1>1, <1>2, <1>12 DEF Create, To
  <2>2. got[l] = 0 /\ result[l] = "none"
    BY <1>2, <1>12 DEF Create, To
  <2>. QED
    BY <1>1, <1>2, <2>1, <2>2
<1>13. CASE Copy(l)
  <2>1. open[l] = l /\ Len(content[l]) = got[l] /\ \A i \in 1..got[l] : content[l][i] = l
    BY <1>2, <1>13 DEF Copy
  <2>2. got[l] \in Nat /\ content[l] \in Seq(Loads \cup {None}) /\ got'[l] = got[l] + 1
    BY <1>2, <1>13, DownloadBound DEF Copy
  <2>3. content'[l] = Written(content[l], got'[l], l)
    BY <1>2, <1>13, <2>1 DEF Copy
  <2>4. Len(content'[l]) = got'[l] /\ \A i \in 1..got'[l] : content'[l][i] = l
    <3>1. /\ got'[l] \in Nat /\ Len(content[l]) + 1 = got'[l]
          /\ \A i \in 1..Len(content[l]) : content[l][i] = l
      BY <2>1, <2>2
    <3> HIDE DEF Basic, TypeOK, OwnFiles, Whole, Staged
    <3>. QED
      BY SMTT(30), <2>2, <2>3, <3>1, WrittenAppends
  <2>. QED
    BY <1>1, <1>2, <1>13, <2>1, <2>4 DEF Copy
<1>14. CASE Rename(l)
  <2>1. CASE To(l, "flushed", "finished") /\ result' = [result EXCEPT ![l] = "success"]
    <3>1. /\ partial[target[l]] = l /\ got[l] = Chunks /\ UNCHANGED <<content, target>>
          /\ l \notin stuck'
          /\ file' = [file EXCEPT ![target[l]] = l]
          /\ partial' = [partial EXCEPT ![target[l]] = None]
      BY <1>1, <1>2, <1>14, <2>1 DEF Rename, To
    <3>. QED
      BY <1>1, <1>2, <2>1, <3>1 DEF To
  <2>2. CASE To(l, "flushed", "failed") /\ result' = [result EXCEPT ![l] = "error"]
    BY <1>1, <1>2, <1>14, <2>2 DEF Rename, To
  <2>. QED
    BY <1>14, <2>1, <2>2 DEF Rename
<1>. QED
  BY <1>3, <1>4, <1>5, <1>6, <1>7, <1>8, <1>9, <1>10, <1>11, <1>12, <1>13, <1>14 DEF WorkerStep

(* A download that is started on its own finds neither name taken.         *)
LEMMA StartsAlone ==
  ASSUME Basic, Basic', NEW l \in Loads, NEW t \in Targets, Start(l, t),
         target'[l] = t, Alone(l)'
  PROVE  OwnFiles(l)'
<1>1. None \notin Loads /\ None \notin Targets
  BY DownloadNone
<1>2. phase'[l] = "registered"
  BY <1>1 DEF Start, Basic, TypeOK, Named
<1>3. partial'[t] = None /\ file'[t] = None
  <2>1. UNCHANGED <<partial, file>> /\ partial[t] \in Loads \cup {None}
        /\ file[t] \in Loads \cup {None} /\ target[l] = None
    BY DEF Start, diskVars, Basic, TypeOK, Named
  <2>2. \A m \in Loads \ {l} : target'[m] # t
    BY DEF Alone
  <2>3. /\ partial[t] # None => target'[partial[t]] = t /\ target[partial[t]] = t
        /\ file[t] # None => target'[file[t]] = t /\ target[file[t]] = t
    BY <2>1 DEF Basic, Named
  <2>. QED
    BY <1>1, <2>1, <2>2, <2>3
<1>4. result'[l] = "none" /\ l \notin stuck'
  BY <1>2 DEF Basic, Staged, Early
<1>. QED
  BY <1>2, <1>3, <1>4 DEF OwnFiles

LEMMA OwnedStep == Basic /\ Owned /\ [Next]_vars => Owned'
<1> SUFFICES ASSUME Basic, Owned, [Next]_vars,
                    NEW l \in Loads, target'[l] # None, Alone(l)'
             PROVE  OwnFiles(l)'
    BY DEF Owned
<1>1. Basic'
  BY BasicStep
<1>2. CASE target[l] = None
  <2>1. PICK t \in Targets : Start(l, t) /\ target'[l] = t
    BY <1>2, AloneBefore
  <2>. QED
    BY <1>1, <2>1, StartsAlone
<1>3. CASE target[l] # None
  <2>1. Alone(l) /\ OwnFiles(l) /\ target'[l] = target[l]
    BY <1>3, AloneBefore DEF Owned
  <2>2. ASSUME NEW m \in Loads, WorkerStep(m) PROVE OwnFiles(l)'
    BY <1>3, <2>1, <2>2, OthersApart, OwnStep
  <2>3. ASSUME NEW m \in Loads, NEW t \in Targets, Start(m, t) PROVE OwnFiles(l)'
    <3>1. m # l
      BY <1>3, <2>3 DEF Start, Basic, Named
    <3>. QED
      BY <2>1, <2>3, <3>1 DEF Start, Basic, TypeOK, OwnFiles, Whole, diskVars
  <2>4. ASSUME UNCHANGED <<phase, target, open, got, result, diskVars>> PROVE OwnFiles(l)'
    BY <2>1, <2>4 DEF OwnFiles, Whole, diskVars
  <2>. QED
    BY <2>2, <2>3, <2>4 DEF Next, Exit, vars, workVars, diskVars, Cancel, Cancels,
       ServiceShutdown, WorkersWait
<1>. QED
  BY <1>2, <1>3

-----------------------------------------------------------------------------
THEOREM DownloadsInductive == Spec => [](Basic /\ Owned)
<1>1. Init => Owned
  BY DEF Init, Owned
<1>2. Owned /\ UNCHANGED vars => Owned'
  BY DEF Owned, OwnFiles, Whole, Alone, vars, workVars, diskVars
<1>. QED
  BY <1>1, BasicInit, BasicStep, OwnedStep, PTL DEF Spec

(* Every variable keeps its type, and the map holds exactly the downloads  *)
(* from Start to Finish.                                                   *)
THEOREM DownloadTypes == Spec => []TypeOK
<1>1. Basic => TypeOK
  BY DEF Basic
<1>. QED
  BY <1>1, DownloadsInductive, PTL

(* A download that reports success and had no rival for its target has its *)
(* own chunks there, all of them: what the digest was computed of.         *)
THEOREM DigestHolds == Spec => []DigestIsOfTheFile
<1>1. Basic /\ Owned => DigestIsOfTheFile
  <2> SUFFICES ASSUME Basic, Owned, NEW l \in Loads, result[l] = "success", Alone(l)
               PROVE  /\ file[target[l]] = l
                      /\ Len(content[l]) = Chunks /\ ToSet(content[l]) = {l}
      BY DEF DigestIsOfTheFile
  <2>1. target[l] # None
    BY DEF Basic, Staged, Early, Named
  <2>2. file[target[l]] = l /\ Whole(l, Chunks)
    BY <2>1 DEF Owned, OwnFiles
  <2>3. content[l] \in Seq(Loads \cup {None}) /\ Len(content[l]) = Chunks
    BY <2>2 DEF Basic, TypeOK, Whole
  <2>4. DOMAIN content[l] = 1..Chunks /\ 1 \in 1..Chunks
    BY <2>3, DownloadBound
  <2>5. \A i \in 1..Chunks : content[l][i] = l
    BY <2>2 DEF Whole
  <2>6. ToSet(content[l]) = {l}
    BY <2>4, <2>5 DEF ToSet
  <2>. QED
    BY <2>2, <2>3, <2>6
<1>. QED
  BY <1>1, DownloadsInductive, PTL

(* A download that is over left no partial file, unless its removal of it  *)
(* failed, and nothing under its target unless it succeeded.               *)
THEOREM CleanupHolds == Spec => []NothingLeftBehind
<1>1. Basic /\ Owned => NothingLeftBehind
  BY DEF NothingLeftBehind, Basic, Named, Owned, OwnFiles
<1>. QED
  BY <1>1, DownloadsInductive, PTL

(* The shutdown ends after what it cancelled has cleaned up, or failed to. *)
THEOREM ShutdownHolds == Spec => []ShutdownCleansUp
<1>1. Basic /\ Owned => ShutdownCleansUp
  <2> SUFFICES ASSUME Basic, Owned, shut = "down", NEW l \in snapshot, Alone(l)
               PROVE  partial[target[l]] # l \/ l \in stuck
      BY DEF ShutdownCleansUp
  <2>1. l \in Loads /\ l # None
    BY DownloadNone DEF Basic, TypeOK
  <2>2. phase[l] \in {"registered", "running", "finished", "removed", "ended"}
    BY DEF Basic, Cut
  <2>3. target[l] # None
    BY <2>1, <2>2 DEF Basic, Named
  <2>. QED
    BY <2>1, <2>2, <2>3 DEF Owned, OwnFiles
<1>. QED
  BY <1>1, DownloadsInductive, PTL

-----------------------------------------------------------------------------
(* Cancelled before its last chunk was flushed: such a download stays so,  *)
(* and does not succeed.                                                   *)
Doomed(l) ==
  /\ l \in cancelled /\ result[l] # "success"
  /\ phase[l] \notin {"idle", "refused", "flushed"}

LEMMA DoomedStep ==
  ASSUME NEW l \in Loads
  PROVE  Basic /\ Doomed(l) /\ [Next]_vars => Doomed(l)'
<1> SUFFICES ASSUME TypeOK, Doomed(l), [Next]_vars PROVE Doomed(l)'
    BY DEF Basic
<1> USE DEF TypeOK, Doomed, To, diskVars, workVars, callVars
<1>1. ASSUME NEW m \in Loads, WorkerStep(m) PROVE Doomed(l)'
  <2>1. CASE Run(m) \/ Request(m) \/ Respond(m) \/ FetchFails(m) \/ Create(m)
    BY <2>1 DEF Run, Request, Respond, FetchFails, Failure, Create
  <2>2. CASE Copy(m) \/ CopyFails(m) \/ Copied(m) \/ RemovePartial(m)
    BY <2>2 DEF Copy, CopyFails, Failure, Copied, RemovePartial
  <2>3. CASE Rename(m) \/ Finish(m) \/ Done(m)
    BY <2>3 DEF Rename, Finish, Done
  <2>. QED
    BY <1>1, <2>1, <2>2, <2>3 DEF WorkerStep
<1>2. ASSUME NEW m \in Loads, NEW t \in Targets, Start(m, t) PROVE Doomed(l)'
  BY <1>2 DEF Start
<1>3. CASE UNCHANGED <<phase, result>> /\ cancelled \subseteq cancelled'
  BY <1>3
<1>. QED
  BY <1>1, <1>2, <1>3 DEF Next, Exit, vars, Cancel, Cancels, ServiceShutdown, WorkersWait

(* A cancel that comes before the last chunk is flushed is honoured.       *)
THEOREM CancelHolds == Spec => CancelIsHonoured
<1> SUFFICES ASSUME NEW l \in Loads
             PROVE  Spec => [](l \in cancelled /\ phase[l] \in {"registered", "running",
                                 "requested", "answered", "copying"}
                               => [](result[l] # "success"))
    BY DEF CancelIsHonoured
<1>1. Basic /\ l \in cancelled /\ phase[l] \in {"registered", "running", "requested",
                                                  "answered", "copying"} => Doomed(l)
  BY DEF Basic, Staged, Early, Doomed
<1>2. Doomed(l) => result[l] # "success"
  BY DEF Doomed
<1>. QED
  BY <1>1, <1>2, DoomedStep, DownloadsInductive, PTL DEF Spec
=============================================================================
