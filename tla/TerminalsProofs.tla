--------------------------- MODULE TerminalsProofs ---------------------------
(***************************************************************************)
(* Proofs about the terminals: the tabs of the webview (Terminals), for    *)
(* any tabs, any kinds of session and any number of attempts that overlap; *)
(* and the Go service whose processes some of them run in (Processes), for *)
(* any number of processes, writes and kills.                              *)
(***************************************************************************)
EXTENDS Terminals, Processes, SequenceTheorems, TLAPS

(* What fits together in one session, and whose an attempt is that nobody
   stopped: the one its tab has. *)
Local(s) ==
  /\ s.link = "asked" => s.pc = "dialing"
  /\ s.link = "open" => s.pc \in {"dialing", "done"}
  /\ s.attached => ~s.disposed
  /\ s.pc = "done" /\ s.link = "open" => s.attached
  /\ s.pc # "idle" => s.key \in Keys /\ s.kind \in Kinds
  /\ s.pc = "idle" => s.link = "none" /\ ~s.attached /\ ~s.cleanup /\ s.undo = "none"
Whose(a) ==
  session[a].pc # "idle" /\ ~session[a].disposed => LET k == session[a].key IN view[k].present /\ current[k] = a
Owned(k) ==
  /\ current[k] # None => session[current[k]].key = k /\ session[current[k]].pc # "idle"
  /\ view[k].present => current[k] # None
ShellInv == /\ \A a \in Attempts : Local(session[a]) /\ Whose(a)
            /\ \A k \in Keys : Owned(k)

(* A pod nobody raced for has somebody who will delete it, or who tried: the
   creation that is about to be answered, or the cleanup of its session, kept,
   under way or failed.  A shell nobody stopped keeps its cleanup and has its pod
   from the dial on, and its tab's record of the pod, unless it was forgotten. *)
PodFits(a, s) ==
  /\ pod[a] = "there" /\ a \notin raced /\ conn # "closed" => s.pc = "creating" \/ s.cleanup \/ s.undo \in {"queued", "failed"}
  /\ s.disposed /\ (s.cleanup \/ s.pc \in {"sweeping", "deleting", "creating"}) => a \in raced \/ conn = "closed"
  /\ s.kind = "node" /\ ~s.disposed /\ (s.pc = "dialing" \/ s.attached) => s.cleanup /\ (pod[a] = "there" \/ a \in unlisted)
  /\ s.pc = "polling" /\ ~s.disposed => s.cleanup
  /\ s.cleanup /\ ~s.disposed => nodePods[s.key] = a \/ a \in unlisted
  /\ s.undo # "none" => s.disposed
  /\ s.pc = "preparing" => s.kind = "local"

(* A sweep knows the pod of a shell nobody stopped: it was told to keep it, and
   has not put it down for deletion. *)
SweepFits(a, b) ==
  session[b].cleanup /\ ~session[b].disposed =>
    /\ session[a].pc = "sweeping" => b \in session[a].pods \/ b \in unlisted
    /\ session[a].pc = "deleting" => b \notin session[a].pods \/ b \in unlisted

(* Sessions of a tab that do not overlap: the one under way is the tab's, one
   that was stopped shows nothing any more, and a link that closed before the
   attach has left its goodbye to be told. *)
RunFits(a, s) ==
  /\ conn = "open" /\ ~crossed /\ s.pc \notin {"idle", "done"} => current[s.key] = a \/ ~view[s.key].present
  /\ s.pc = "dialing" /\ ~s.disposed /\ s.link = "closed" /\ conn # "closed" => s.bye
  /\ conn = "open" /\ s.disposed /\ s.pc # "idle" /\ current[s.key] = a => s.pc \in {"undoing", "failing", "done"}
  /\ s.link = "closing" => s.disposed
  /\ s.attached => s.pc = "done"

(* What a tab that reads as running has. *)
Shown(s) == s.attached /\ (s.link = "open" \/ s.bye \/ s.early)
Told(k) == conn = "open" /\ ~crossed /\ view[k].present /\ view[k].state = "running" => Shown(session[current[k]])

PodInv == \A a \in Attempts : PodFits(a, session[a])
SweepInv == \A a, b \in Attempts : SweepFits(a, b)
RunInv == (\A a \in Attempts : RunFits(a, session[a])) /\ \A k \in Keys : Told(k)

(* The values the actions assign, each in its set. *)
LEMMA Values ==
  /\ "idle" \in Pcs /\ "preparing" \in Pcs /\ "sweeping" \in Pcs /\ "creating" \in Pcs
  /\ "deleting" \in Pcs /\ "polling" \in Pcs /\ "dialing" \in Pcs
  /\ "undoing" \in Pcs /\ "failing" \in Pcs /\ "done" \in Pcs
  /\ "none" \in Links /\ "asked" \in Links /\ "open" \in Links /\ "closing" \in Links /\ "closed" \in Links
  /\ "none" \in Undos /\ "queued" \in Undos /\ "done" \in Undos /\ "failed" \in Undos
BY DEF Pcs, Links, Undos

(* A session that is stopped. *)
LEMMA HaltedIs ==
  ASSUME NEW s \in Sessions
  PROVE  /\ Halted(s) \in Sessions
         /\ Halted(s).key = s.key /\ Halted(s).kind = s.kind /\ Halted(s).pc = s.pc
         /\ Halted(s).disposed /\ ~Halted(s).attached
         /\ Halted(s).pods = s.pods
         /\ ~Halted(s).cleanup /\ Halted(s).undo = (IF s.cleanup THEN "queued" ELSE s.undo)
         /\ Halted(s).link = (IF s.link = "open" /\ s.attached THEN "closing" ELSE s.link)
<1> DEFINE link == IF s.link = "open" /\ s.attached THEN "closing" ELSE s.link
           undo == IF s.cleanup THEN "queued" ELSE s.undo
           bye  == s.bye /\ ~s.attached
<1>1. s = [key |-> s.key, kind |-> s.kind, pc |-> s.pc, disposed |-> s.disposed, held |-> s.held,
           attached |-> s.attached, link |-> s.link, bye |-> s.bye, early |-> s.early, cleanup |-> s.cleanup,
           undo |-> s.undo, pods |-> s.pods]
  BY DEF Sessions
<1>2. link \in Links /\ undo \in Undos /\ bye \in BOOLEAN
  BY Values DEF Sessions
<1>5. Halted(s) = [s EXCEPT !.disposed = TRUE, !.held = FALSE, !.attached = FALSE, !.bye = bye, !.cleanup = FALSE,
                            !.link = link, !.undo = undo]
  BY DEF Halted
<1> HIDE DEF link, undo, bye
<1>3. Halted(s) = [key |-> s.key, kind |-> s.kind, pc |-> s.pc, disposed |-> TRUE, held |-> FALSE,
                   attached |-> FALSE, link |-> link, bye |-> bye, early |-> s.early, cleanup |-> FALSE,
                   undo |-> undo, pods |-> s.pods]
  BY <1>1, <1>5
<1>4. Halted(s) \in Sessions
  BY <1>2, <1>3 DEF Sessions
<1>. QED
  BY <1>3, <1>4 DEF link, undo

(* A stop keeps what fits together. *)
LEMMA HaltedFits ==
  ASSUME NEW s \in Sessions, Local(s)
  PROVE  Local(Halted(s))
BY HaltedIs DEF Local

(* What a stop of several sessions makes of each. *)
LEMMA StoppedIs ==
  ASSUME TypeOK, ShellInv, NEW S \in SUBSET Attempts
  PROVE  /\ Stopped(S) \in [Attempts -> Sessions]
         /\ \A a \in Attempts :
              /\ Local(Stopped(S)[a])
              /\ Stopped(S)[a].key = session[a].key /\ Stopped(S)[a].kind = session[a].kind
              /\ Stopped(S)[a].pc = session[a].pc
              /\ ~Stopped(S)[a].disposed => a \notin S /\ ~session[a].disposed
<1>1. ASSUME NEW a \in Attempts
      PROVE  /\ Stopped(S)[a] \in Sessions /\ Local(Stopped(S)[a])
             /\ Stopped(S)[a].key = session[a].key /\ Stopped(S)[a].kind = session[a].kind
             /\ Stopped(S)[a].pc = session[a].pc
             /\ ~Stopped(S)[a].disposed => a \notin S /\ ~session[a].disposed
  <2>1. session[a] \in Sessions /\ Local(session[a])
    BY DEF TypeOK, ShellInv
  <2>2. CASE a \in S
    <3>1. Stopped(S)[a] = Halted(session[a])
      BY <2>2 DEF Stopped
    <3>. QED
      BY <2>1, <3>1, HaltedIs, HaltedFits
  <2>3. CASE a \notin S
    <3>1. Stopped(S)[a] = session[a]
      BY <2>3 DEF Stopped
    <3>. QED
      BY <2>1, <2>3, <3>1
  <2>. QED
    BY <2>2, <2>3
<1>2. Stopped(S) = [a \in Attempts |-> Stopped(S)[a]]
  BY DEF Stopped
<1>. QED
  BY <1>1, <1>2

(* One session moves on, for the same tab. *)
Moves(a, s) ==
  /\ session[a].pc # "idle"
  /\ s \in Sessions /\ Local(s) /\ s.pc # "idle"
  /\ s.key = session[a].key /\ (~s.disposed => ~session[a].disposed)

(* The others stay as they are, and so does every tab. *)
LEMMA OneMoves ==
  ASSUME TypeOK, ShellInv, NEW a \in Attempts, NEW s, Moves(a, s), session' = [session EXCEPT ![a] = s],
         UNCHANGED current, \A k \in Keys : view'[k].present = view[k].present
  PROVE  session' \in [Attempts -> Sessions] /\ ShellInv'
<1>1. session'[a] = s /\ \A b \in Attempts : b # a => session'[b] = session[b]
  BY DEF TypeOK
<1>2. \A b \in Attempts : Local(session'[b])
  BY <1>1 DEF ShellInv, Moves
<1>3. ASSUME NEW b \in Attempts PROVE Whose(b)'
  <2>1. Whose(b) /\ session'[b].key = session[b].key /\ (session'[b].disposed \/ ~session[b].disposed)
        /\ (session[b].pc # "idle" \/ session'[b].pc = "idle")
    BY <1>1 DEF ShellInv, Moves
  <2>2. session'[b].pc # "idle" => session'[b].key \in Keys
    BY <1>2 DEF Local
  <2>. QED
    BY <2>1, <2>2 DEF Whose
<1>4. ASSUME NEW k \in Keys PROVE Owned(k)'
  BY <1>1 DEF Owned, ShellInv, Moves, TypeOK
<1>5. session' \in [Attempts -> Sessions]
  BY DEF TypeOK, Moves
<1>. QED
  BY <1>2, <1>3, <1>4, <1>5 DEF ShellInv

(* What a tab shows does not open or close it. *)
LEMMA ShowsIs ==
  ASSUME TypeOK, NEW k \in Keys, NEW state \in {"starting", "running", "ended", "failed"}, Shows(k, state)
  PROVE  view' \in [Keys -> Views] /\ \A j \in Keys : view'[j].present = view[j].present
<1> DEFINE v == [view[k] EXCEPT !.state = IF view[k].present THEN state ELSE @]
<1>1. view[k] \in Views /\ view[k] = [present |-> view[k].present, state |-> view[k].state]
  BY DEF TypeOK, Views
<1>2. v \in Views /\ v.present = view[k].present
  BY <1>1 DEF Views
<1>3. view' = [view EXCEPT ![k] = v]
  BY DEF Shows, TypeOK
<1> HIDE DEF v
<1>. QED
  BY <1>2, <1>3 DEF TypeOK

(* What a session is made from. *)
LEMMA UnbegunIs == Unbegun \in Sessions /\ Unbegun.disposed = FALSE /\ Unbegun.attached = FALSE
BY Values DEF Unbegun, Sessions

(* A session begins: what the tab had is stopped. *)
LEMMA Begins ==
  ASSUME TypeOK, ShellInv, NEW a \in Attempts, NEW k \in Keys, NEW kind \in Kinds, begin(a, k, kind)
  PROVE  /\ session' \in [Attempts -> Sessions] /\ current' \in [Keys -> Attempts \cup {None}]
         /\ view' \in [Keys -> Views] /\ crossed' \in BOOLEAN /\ raced' \subseteq Attempts
         /\ UNCHANGED unlisted /\ ShellInv'
<1> DEFINE allowed == kind = "local" \/ conn # "closed"
           link == IF kind = "exec" /\ allowed THEN "asked" ELSE "none"
           pc == IF ~allowed THEN "done"
                 ELSE CASE kind = "exec" -> "dialing" [] kind = "node" -> "sweeping" [] kind = "local" -> "preparing"
           keep == IF kind = "node" THEN livePods ELSE {}
           new == [Unbegun EXCEPT !.key = k, !.kind = kind, !.held = TRUE, !.pc = pc, !.link = link, !.pods = keep]
           S == Held(k)
<1>1. S \subseteq Attempts
  BY DEF Held, TypeOK
<1>2. session' = [Stopped(S) EXCEPT ![a] = new] /\ current' = [current EXCEPT ![k] = a] /\ session[a].pc = "idle"
  BY DEF begin, Fresh
<1>3. new \in Sessions /\ Local(new) /\ new.key = k /\ new.pc # "idle" /\ ~new.disposed
  <2>1. kind \in {"exec", "node", "local"}
    BY KindsKnown
  <2>2. /\ pc \in Pcs /\ pc # "idle" /\ link \in {"asked", "none"} /\ link \in Links
        /\ link = "asked" => pc = "dialing"
    BY <2>1, Values
  <2>3. keep \in SUBSET Attempts
    BY DEF livePods, TypeOK
  <2> HIDE DEF pc, link, keep
  <2>5. new = [Unbegun EXCEPT !.key = k, !.kind = kind, !.held = TRUE, !.pc = pc, !.link = link, !.pods = keep]
    OBVIOUS
  <2> HIDE DEF new
  <2>4. /\ new \in Sessions
        /\ new.key = k /\ new.kind = kind /\ new.pc = pc /\ new.link = link /\ ~new.disposed /\ ~new.attached
    <3>1. k \in Keys /\ kind \in Kinds /\ pc \in Pcs /\ link \in Links /\ keep \in SUBSET Attempts
      BY <2>2, <2>3
    <3>2. new \in Sessions
      BY <2>5, <3>1, UnbegunIs DEF Sessions
    <3>3. /\ new.key = k /\ new.kind = kind /\ new.pc = pc /\ new.link = link
          /\ new.disposed = Unbegun.disposed /\ new.attached = Unbegun.attached
      BY <2>5, <3>1, UnbegunIs DEF Sessions
    <3>. QED
      BY <3>2, <3>3, UnbegunIs
  <2>. QED
    BY <2>2, <2>4 DEF Local
<1> HIDE DEF new
<1>4. /\ session'[a] = new
      /\ \A b \in Attempts : b # a => session'[b] = Stopped(S)[b]
      /\ session' \in [Attempts -> Sessions]
  BY <1>1, <1>2, <1>3, StoppedIs
<1>5. current' \in [Keys -> Attempts \cup {None}] /\ current'[k] = a /\ \A j \in Keys : j # k => current'[j] = current[j]
  BY <1>2 DEF TypeOK
<1>6. /\ view' \in [Keys -> Views] /\ view'[k].present /\ \A j \in Keys : j # k => view'[j] = view[j]
  <2>1. PICK st \in {"starting", "failed"} : view' = [view EXCEPT ![k] = [present |-> TRUE, state |-> st]]
    BY DEF begin
  <2>2. [present |-> TRUE, state |-> st] \in Views
    BY <2>1 DEF Views
  <2>. QED
    BY <2>1, <2>2 DEF TypeOK
<1>7. crossed' \in BOOLEAN /\ raced' \subseteq Attempts /\ UNCHANGED unlisted
  BY <1>1 DEF begin, TypeOK, Running, Stopping
<1>8. \A b \in Attempts : Local(session'[b])
  BY <1>1, <1>3, <1>4, StoppedIs
<1>9. ASSUME NEW b \in Attempts PROVE Whose(b)'
  <2>1. CASE b = a
    BY <1>3, <1>4, <1>5, <1>6, <2>1 DEF Whose
  <2>2. CASE b # a
    <3>1. /\ session'[b].key = session[b].key /\ session'[b].pc = session[b].pc
          /\ ~session'[b].disposed => b \notin S /\ ~session[b].disposed
      BY <1>1, <1>4, <2>2, StoppedIs
    <3>2. Whose(b) /\ (session[b].pc # "idle" => session[b].key \in Keys)
      BY DEF ShellInv, Local
    <3>3. current[k] = b => b \in S
      BY NoneApart DEF Held
    <3>. QED
      BY <1>5, <1>6, <3>1, <3>2, <3>3 DEF Whose
  <2>. QED
    BY <2>1, <2>2
<1>10. ASSUME NEW j \in Keys PROVE Owned(j)'
  <2>1. CASE j = k
    BY <1>3, <1>4, <1>5, <2>1, NoneApart DEF Owned
  <2>2. CASE j # k
    <3>1. Owned(j) /\ current'[j] = current[j] /\ view'[j] = view[j] /\ current[j] \in Attempts \cup {None}
      BY <1>5, <1>6, <2>2 DEF ShellInv, TypeOK
    <3>2. current[j] # None => current[j] # a
      BY <1>2, <3>1 DEF Owned
    <3>3. current[j] # None => /\ session'[current[j]].key = session[current[j]].key
                               /\ session'[current[j]].pc = session[current[j]].pc
      BY <1>1, <1>4, <3>1, <3>2, StoppedIs
    <3>. QED
      BY <3>1, <3>3 DEF Owned
  <2>. QED
    BY <2>1, <2>2
<1>. QED
  BY <1>4, <1>5, <1>6, <1>7, <1>8, <1>9, <1>10 DEF ShellInv

(* Every action keeps the types, what fits together in a session and whose it is. *)
LEMMA ShellStep == TypeOK /\ ShellInv /\ [Next]_vars => TypeOK' /\ ShellInv'
<1> SUFFICES ASSUME TypeOK, ShellInv, [Next]_vars PROVE TypeOK' /\ ShellInv'
    OBVIOUS
<1>1. CASE UNCHANGED vars
  BY <1>1 DEF vars, TypeOK, ShellInv, Whose, Owned
<1>2. ASSUME NEW a \in Attempts, NEW k \in Keys, NEW kind \in Kinds, begin(a, k, kind),
             UNCHANGED <<conn, drained, nodePods, pod>>
      PROVE  TypeOK' /\ ShellInv'
  BY <1>2, Begins DEF TypeOK
<1>3. ASSUME NEW a \in Attempts, NEW k \in Keys, NEW kind \in Kinds, Open(a, k, kind) PROVE TypeOK' /\ ShellInv'
  BY <1>2, <1>3 DEF Open
<1>4. ASSUME NEW a \in Attempts, NEW k \in Keys, Restart(a, k) PROVE TypeOK' /\ ShellInv'
  <2>1. view[k].present
    BY <1>4 DEF Restart
  <2>2. session[current[k]].kind \in Kinds
    BY <2>1 DEF ShellInv, Owned, Local, TypeOK
  <2>3. begin(a, k, session[current[k]].kind) /\ UNCHANGED <<conn, drained, nodePods, pod>>
    BY <1>4 DEF Restart
  <2>. QED
    BY <1>2, <2>2, <2>3
<1>5. ASSUME NEW a \in Attempts, NEW s, Moves(a, s), session' = [session EXCEPT ![a] = s], UNCHANGED view,
             UNCHANGED <<conn, drained, current, nodePods, pod, crossed, raced, unlisted>>
      PROVE  TypeOK' /\ ShellInv'
  BY <1>5, OneMoves DEF TypeOK
<1>6. ASSUME NEW a \in Attempts, NEW s, Moves(a, s), session' = [session EXCEPT ![a] = s],
             NEW state \in {"starting", "running", "ended", "failed"}, Shows(session[a].key, state),
             UNCHANGED <<conn, drained, current, nodePods, pod, crossed, raced, unlisted>>
      PROVE  TypeOK' /\ ShellInv'
  <2>1. session[a].key \in Keys
    BY <1>6 DEF Moves, ShellInv, Local
  <2>. QED
    BY <1>6, <2>1, ShowsIs, OneMoves DEF TypeOK
<1>7. ASSUME NEW a \in Attempts, Prepared(a) \/ Ready(a) PROVE TypeOK' /\ ShellInv'
  <2> DEFINE s == [session[a] EXCEPT !.pc = "dialing", !.link = "asked"]
  <2>1. session[a] \in Sessions /\ Local(session[a]) /\ session[a].pc \in {"preparing", "polling"}
    BY <1>7 DEF TypeOK, ShellInv, Prepared, Ready
  <2>2. s \in Sessions /\ s.pc = "dialing" /\ s.link = "asked" /\ s.key = session[a].key /\ s.kind = session[a].kind
        /\ s.disposed = session[a].disposed /\ s.attached = session[a].attached
    BY <2>1, Values DEF Sessions
  <2>3. session' = [session EXCEPT ![a] = s]
    BY <1>7 DEF Prepared, Ready, TypeOK
  <2> HIDE DEF s
  <2>4. Moves(a, s)
    BY <2>1, <2>2 DEF Moves, Local
  <2>. QED
    BY <1>5, <1>7, <2>3, <2>4 DEF Prepared, Ready
<1>8. ASSUME NEW a \in Attempts, KubectlMissing(a) \/ Failed(a) PROVE TypeOK' /\ ShellInv'
  <2> DEFINE s == [session[a] EXCEPT !.pc = "done"]
  <2>1. session[a] \in Sessions /\ Local(session[a]) /\ session[a].pc \in {"preparing", "failing"}
    BY <1>8 DEF TypeOK, ShellInv, KubectlMissing, Failed
  <2>2. s \in Sessions /\ s.pc = "done" /\ s.link = session[a].link /\ s.key = session[a].key
        /\ s.kind = session[a].kind /\ s.disposed = session[a].disposed /\ s.attached = session[a].attached
    BY <2>1, Values DEF Sessions
  <2>3. session' = [session EXCEPT ![a] = s]
    BY <1>8 DEF KubectlMissing, Failed, TypeOK
  <2> HIDE DEF s
  <2>4. Moves(a, s)
    BY <2>1, <2>2 DEF Moves, Local
  <2>. QED
    BY <1>6, <1>8, <2>3, <2>4 DEF KubectlMissing, Failed
<1>9. ASSUME NEW a \in Attempts, Listed(a) \/ Swept(a) PROVE TypeOK' /\ ShellInv'
  <2> DEFINE s == session'[a]
  <2>1. session[a] \in Sessions /\ Local(session[a]) /\ session[a].pc \in {"sweeping", "deleting"}
    BY <1>9 DEF TypeOK, ShellInv, Listed, Swept
  <2>2. PICK pc \in {"deleting", "creating"}, P \in SUBSET Attempts :
          session' = [session EXCEPT ![a] = [session[a] EXCEPT !.pc = pc, !.pods = P]]
    <3>1. CASE Listed(a)
      BY <3>1, <2>1 DEF Listed, TypeOK, Sessions
    <3>2. CASE Swept(a)
      BY <3>2, <2>1 DEF Swept, TypeOK, Sessions
    <3>. QED
      BY <1>9, <3>1, <3>2
  <2>3. /\ s \in Sessions /\ s.pc # "idle" /\ s.pc # "done" /\ s.link = session[a].link /\ s.key = session[a].key
        /\ s.kind = session[a].kind /\ s.disposed = session[a].disposed /\ s.attached = session[a].attached
        /\ session' = [session EXCEPT ![a] = s]
    BY <2>1, <2>2, Values DEF Sessions, TypeOK
  <2> HIDE DEF s
  <2>4. Moves(a, s)
    BY <2>1, <2>3 DEF Moves, Local
  <2>. QED
    BY <1>5, <1>9, <2>3, <2>4 DEF Listed, Swept
<1>22. ASSUME NEW a \in Attempts, NEW b \in Attempts, Deleted(a, b) PROVE TypeOK' /\ ShellInv'
  BY <1>22 DEF Deleted, TypeOK, ShellInv, Whose, Owned
<1>10. ASSUME NEW a \in Attempts, PodCreated(a) PROVE TypeOK' /\ ShellInv'
  BY <1>10 DEF PodCreated, TypeOK, ShellInv, Whose, Owned
<1>11. ASSUME NEW a \in Attempts, CreateAnswered(a) PROVE TypeOK' /\ ShellInv'
  <2> DEFINE s == [session[a] EXCEPT !.pc = "polling", !.cleanup = TRUE]
  <2>1. session[a] \in Sessions /\ Local(session[a]) /\ session[a].pc = "creating"
    BY <1>11 DEF TypeOK, ShellInv, CreateAnswered
  <2>2. s \in Sessions /\ s.pc = "polling" /\ s.link = session[a].link /\ s.key = session[a].key
        /\ s.kind = session[a].kind /\ s.disposed = session[a].disposed /\ s.attached = session[a].attached
    BY <2>1, Values DEF Sessions
  <2>3. session' = [session EXCEPT ![a] = s] /\ UNCHANGED <<conn, drained, view, current, pod, crossed, raced>>
        /\ nodePods' = [nodePods EXCEPT ![session[a].key] = a] /\ unlisted' \subseteq Attempts
    BY <1>11 DEF CreateAnswered, TypeOK
  <2> HIDE DEF s
  <2>4. Moves(a, s)
    BY <2>1, <2>2 DEF Moves, Local
  <2>. QED
    BY <2>3, <2>4, OneMoves DEF TypeOK
<1>12. ASSUME NEW a \in Attempts, GoOpens(a) PROVE TypeOK' /\ ShellInv'
  <2> DEFINE s == [session[a] EXCEPT !.link = "open"]
  <2>1. session[a] \in Sessions /\ Local(session[a]) /\ session[a].link = "asked"
    BY <1>12 DEF TypeOK, ShellInv, GoOpens
  <2>2. s \in Sessions /\ s.pc = session[a].pc /\ s.link = "open" /\ s.key = session[a].key
        /\ s.kind = session[a].kind /\ s.disposed = session[a].disposed /\ s.attached = session[a].attached
    BY <2>1, Values DEF Sessions
  <2>3. session' = [session EXCEPT ![a] = s]
    BY <1>12 DEF GoOpens, TypeOK
  <2> HIDE DEF s
  <2>4. Moves(a, s)
    BY <2>1, <2>2 DEF Moves, Local
  <2>. QED
    BY <1>5, <1>12, <2>3, <2>4 DEF GoOpens
<1>13. ASSUME NEW a \in Attempts, Exits(a) PROVE TypeOK' /\ ShellInv'
  <2> DEFINE s == [session[a] EXCEPT !.link = "closed", !.bye = TRUE]
  <2>1. session[a] \in Sessions /\ Local(session[a]) /\ session[a].link = "open"
    BY <1>13 DEF TypeOK, ShellInv, Exits
  <2>2. s \in Sessions /\ s.pc = session[a].pc /\ s.link = "closed" /\ s.key = session[a].key
        /\ s.kind = session[a].kind /\ s.disposed = session[a].disposed /\ s.attached = session[a].attached
    BY <2>1, Values DEF Sessions
  <2>3. session' = [session EXCEPT ![a] = s]
    BY <1>13 DEF Exits, TypeOK
  <2> HIDE DEF s
  <2>4. Moves(a, s)
    BY <2>1, <2>2 DEF Moves, Local
  <2>. QED
    BY <1>5, <1>13, <2>3, <2>4 DEF Exits
<1>14. ASSUME NEW a \in Attempts, LinkClosed(a) PROVE TypeOK' /\ ShellInv'
  <2> DEFINE s == [session[a] EXCEPT !.link = "closed"]
  <2>1. session[a] \in Sessions /\ Local(session[a]) /\ session[a].link = "closing"
    BY <1>14 DEF TypeOK, ShellInv, LinkClosed
  <2>2. s \in Sessions /\ s.pc = session[a].pc /\ s.link = "closed" /\ s.key = session[a].key
        /\ s.kind = session[a].kind /\ s.disposed = session[a].disposed /\ s.attached = session[a].attached
    BY <2>1, Values DEF Sessions
  <2>3. session' = [session EXCEPT ![a] = s]
    BY <1>14 DEF LinkClosed, TypeOK
  <2> HIDE DEF s
  <2>4. Moves(a, s)
    BY <2>1, <2>2 DEF Moves, Local
  <2>. QED
    BY <1>5, <1>14, <2>3, <2>4 DEF LinkClosed
<1>15. ASSUME NEW a \in Attempts, NEW state \in {"ended", "failed"}, ExitHeard(a, state) PROVE TypeOK' /\ ShellInv'
  <2> DEFINE s == [session[a] EXCEPT !.bye = FALSE]
  <2>1. session[a] \in Sessions /\ Local(session[a]) /\ session[a].attached
    BY <1>15 DEF TypeOK, ShellInv, ExitHeard
  <2>2. s \in Sessions /\ s.pc = session[a].pc /\ s.link = session[a].link /\ s.key = session[a].key
        /\ s.kind = session[a].kind /\ s.disposed = session[a].disposed /\ s.attached = session[a].attached
    BY <2>1 DEF Sessions
  <2>3. session' = [session EXCEPT ![a] = s]
    BY <1>15 DEF ExitHeard, TypeOK
  <2> HIDE DEF s
  <2>4. Moves(a, s)
    BY <2>1, <2>2 DEF Moves, Local
  <2>. QED
    BY <1>6, <1>15, <2>3, <2>4 DEF ExitHeard
<1>16. ASSUME NEW a \in Attempts, NEW answered \in BOOLEAN, CleanedUp(a, answered) PROVE TypeOK' /\ ShellInv'
  <2> DEFINE undo == IF answered THEN "done" ELSE "failed"
             pc == IF session[a].pc # "undoing" THEN session[a].pc ELSE IF answered THEN "failing" ELSE "done"
             s == [session[a] EXCEPT !.undo = undo, !.pc = pc]
  <2>1. session[a] \in Sessions /\ Local(session[a]) /\ session[a].undo = "queued"
    BY <1>16 DEF TypeOK, ShellInv, CleanedUp
  <2>2. /\ undo \in Undos /\ pc \in Pcs /\ (pc = session[a].pc \/ (session[a].pc = "undoing" /\ pc \in {"failing", "done"}))
    BY <2>1, Values DEF Sessions
  <2>3. session' = [session EXCEPT ![a] = s] /\ UNCHANGED <<conn, drained, view, current, crossed, raced>>
    BY <1>16 DEF CleanedUp, TypeOK
  <2> HIDE DEF undo, pc
  <2>6. s \in Sessions /\ s.pc = pc /\ s.undo = undo /\ s.link = session[a].link /\ s.key = session[a].key
        /\ s.kind = session[a].kind /\ s.disposed = session[a].disposed /\ s.attached = session[a].attached
    BY <2>1, <2>2 DEF Sessions
  <2> HIDE DEF s
  <2>4. Moves(a, s)
    BY <2>1, <2>2, <2>6 DEF Moves, Local
  <2>5. /\ nodePods' \in [Keys -> Attempts \cup {None}] /\ pod' \in [Attempts -> {"none", "there", "gone"}]
        /\ unlisted' \subseteq Attempts
    <3>1. session[a].key \in Keys
      BY <2>1 DEF Local
    <3>. QED
      BY <1>16, <3>1 DEF CleanedUp, TypeOK
  <2>. QED
    BY <2>3, <2>4, <2>5, OneMoves DEF TypeOK
<1>17. ASSUME NEW a \in Attempts, NEW data \in BOOLEAN, Attached(a, data) PROVE TypeOK' /\ ShellInv'
  <2>1. session[a] \in Sessions /\ Local(session[a]) /\ session[a].pc = "dialing" /\ session[a].link \in {"open", "closed"}
    BY <1>17 DEF TypeOK, ShellInv, Attached
  <2>2. CASE session[a].disposed
    <3> DEFINE link == IF session[a].link = "open" THEN "closing" ELSE session[a].link
               s == [session[a] EXCEPT !.pc = "done", !.bye = FALSE, !.link = link]
    <3>1. link \in {"closing", "closed"} /\ link \in Links
      BY <2>1, Values
    <3>2. session' = [session EXCEPT ![a] = s]
      BY <1>17, <2>2 DEF Attached, TypeOK
    <3>3. Shows(session[a].key, "running") \/ UNCHANGED view
      BY <1>17, <2>2 DEF Attached
    <3> HIDE DEF link
    <3>4. s \in Sessions /\ s.pc = "done" /\ s.link = link /\ s.key = session[a].key
          /\ s.kind = session[a].kind /\ s.disposed = session[a].disposed /\ s.attached = session[a].attached
      BY <2>1, <3>1, Values DEF Sessions
    <3> HIDE DEF s
    <3>5. Moves(a, s)
      BY <2>1, <2>2, <3>1, <3>4 DEF Moves, Local
    <3>. QED
      BY <1>5, <1>6, <1>17, <3>2, <3>3, <3>5 DEF Attached
  <2>3. CASE ~session[a].disposed
    <3> DEFINE s == [session[a] EXCEPT !.pc = "done", !.attached = TRUE, !.early = session[a].bye, !.bye = FALSE]
    <3>1. session' = [session EXCEPT ![a] = s] /\ Shows(session[a].key, "running")
      BY <1>17, <2>3 DEF Attached, TypeOK
    <3>2. s \in Sessions
      BY <2>1, Values DEF Sessions
    <3>3. s.pc = "done" /\ s.link = session[a].link /\ s.key = session[a].key
          /\ s.kind = session[a].kind /\ s.disposed = session[a].disposed /\ s.attached = TRUE
      BY <2>1 DEF Sessions
    <3> HIDE DEF s
    <3>4. Moves(a, s)
      BY <2>1, <2>3, <3>2, <3>3 DEF Moves, Local
    <3>. QED
      BY <1>6, <1>17, <3>1, <3>4 DEF Attached
  <2>. QED
    BY <2>2, <2>3
<1>18. ASSUME NEW a \in Attempts, Fails(a) PROVE TypeOK' /\ ShellInv'
  <2> DEFINE h == Halted(session[a])
             link == IF h.link = "asked" THEN "closed" ELSE h.link
             pc == IF session[a].cleanup THEN "undoing" ELSE "failing"
             s == [h EXCEPT !.pc = pc, !.pods = {}, !.link = link]
  <2>1. /\ session[a] \in Sessions /\ Local(session[a])
        /\ session[a].pc \in {"preparing", "sweeping", "creating", "polling", "dialing"}
        /\ session[a].pc = "dialing" => session[a].link = "asked"
    BY <1>18 DEF TypeOK, ShellInv, Fails
  <2>2. session' = [session EXCEPT ![a] = s]
    BY <1>18 DEF Fails
  <2>3. /\ h \in Sessions /\ h.key = session[a].key /\ h.kind = session[a].kind /\ h.disposed /\ ~h.attached
        /\ h.link = session[a].link \/ session[a].link = "open"
    BY <2>1, HaltedIs
  <2> HIDE DEF h
  <2>4. link \in Links /\ link \notin {"asked", "open"}
    BY <2>1, <2>3, Values DEF Local, Sessions
  <2>7. pc \in Pcs /\ pc \in {"undoing", "failing"}
    BY Values
  <2> HIDE DEF link, pc
  <2>5. s \in Sessions /\ s.pc = pc /\ s.link = link /\ s.key = h.key
        /\ s.kind = h.kind /\ s.disposed = h.disposed /\ s.attached = h.attached
    BY <2>3, <2>4, <2>7 DEF Sessions
  <2> HIDE DEF s
  <2>6. Moves(a, s)
    BY <2>1, <2>3, <2>4, <2>5, <2>7 DEF Moves, Local
  <2>. QED
    BY <1>18, <2>2, <2>6, OneMoves DEF Fails, TypeOK
<1>19. ASSUME NEW k \in Keys, Close(k) PROVE TypeOK' /\ ShellInv'
  <2>1. Held(k) \subseteq Attempts /\ session' = Stopped(Held(k))
    BY <1>19 DEF Held, TypeOK, Close
  <2>2. /\ current' = [current EXCEPT ![k] = None]
        /\ view' = [view EXCEPT ![k] = [present |-> FALSE, state |-> "starting"]]
        /\ raced' \subseteq Attempts /\ UNCHANGED <<conn, drained, nodePods, pod, crossed, unlisted>>
    BY <1>19, <2>1 DEF Close, TypeOK
  <2>3. view' \in [Keys -> Views] /\ current' \in [Keys -> Attempts \cup {None}]
    BY <2>2 DEF TypeOK, Views
  <2>4. ASSUME NEW b \in Attempts PROVE Whose(b)'
    <3>1. /\ session'[b].key = session[b].key /\ session'[b].pc = session[b].pc
          /\ ~session'[b].disposed => b \notin Held(k) /\ ~session[b].disposed
      BY <2>1, StoppedIs
    <3>2. Whose(b) /\ (session[b].pc # "idle" => session[b].key \in Keys) /\ (current[k] = b => b \in Held(k))
      BY NoneApart DEF ShellInv, Local, Held
    <3>. QED
      BY <2>2, <3>1, <3>2 DEF Whose, TypeOK
  <2>5. ASSUME NEW j \in Keys PROVE Owned(j)'
    <3>1. CASE j = k
      BY <2>2, <3>1 DEF Owned, TypeOK
    <3>2. CASE j # k
      <4>1. Owned(j) /\ current'[j] = current[j] /\ view'[j] = view[j] /\ current[j] \in Attempts \cup {None}
        BY <2>2, <3>2 DEF ShellInv, TypeOK
      <4>2. current[j] # None => /\ session'[current[j]].key = session[current[j]].key
                                 /\ session'[current[j]].pc = session[current[j]].pc
        BY <2>1, <4>1, StoppedIs
      <4>. QED
        BY <4>1, <4>2 DEF Owned
    <3>. QED
      BY <3>1, <3>2
  <2>. QED
    BY <2>1, <2>2, <2>3, <2>4, <2>5, StoppedIs DEF TypeOK, ShellInv
<1>20. CASE Drains
  <2>1. drained' \subseteq Attempts /\ session' = Stopped(drained') /\ raced' \subseteq Attempts
    BY <1>20 DEF Drains, TypeOK
  <2>2. UNCHANGED <<view, current, nodePods, pod, crossed, unlisted>> /\ conn' = "draining"
    BY <1>20 DEF Drains
  <2>3. /\ session' \in [Attempts -> Sessions]
        /\ \A b \in Attempts : /\ Local(session'[b])
                               /\ session'[b].key = session[b].key /\ session'[b].pc = session[b].pc
                               /\ ~session'[b].disposed => ~session[b].disposed
    BY <2>1, StoppedIs
  <2>4. \A b \in Attempts : Whose(b)'
    BY <2>2, <2>3 DEF Whose, ShellInv
  <2>5. \A j \in Keys : Owned(j)'
    BY <2>2, <2>3 DEF Owned, ShellInv, TypeOK
  <2>. QED
    BY <2>1, <2>2, <2>3, <2>4, <2>5 DEF TypeOK, ShellInv
<1>21. CASE Disconnected
  <2> DEFINE S == UNION {Held(k) : k \in Keys}
             t == Stopped(S)
  <2>1. S \subseteq Attempts
    BY DEF Held, TypeOK
  <2>2. /\ t \in [Attempts -> Sessions]
        /\ \A b \in Attempts : /\ Local(t[b]) /\ t[b].key = session[b].key /\ t[b].pc = session[b].pc
                               /\ ~t[b].disposed => b \notin S /\ ~session[b].disposed
    BY <2>1, StoppedIs
  <2>3. session' = [a \in Attempts |-> IF t[a].kind # "local" /\ t[a].link = "open"
                                       THEN [t[a] EXCEPT !.link = "closed"] ELSE t[a]]
    BY <1>21 DEF Disconnected
  <2>4. \A b \in Attempts : current[session[b].key] = b /\ session[b].key \in Keys => b \in S
    BY NoneApart DEF Held
  <2> HIDE DEF t, S
  <2>5. ASSUME NEW b \in Attempts
        PROVE  /\ session'[b] \in Sessions /\ Local(session'[b]) /\ session'[b].pc = session[b].pc
               /\ session'[b].disposed = t[b].disposed
    <3>1. t[b] \in Sessions /\ Local(t[b]) /\ t[b].pc = session[b].pc
      BY <2>2
    <3>2. CASE t[b].kind # "local" /\ t[b].link = "open"
      <4> DEFINE s == [t[b] EXCEPT !.link = "closed"]
      <4>1. s \in Sessions /\ s.pc = t[b].pc /\ s.link = "closed" /\ s.key = t[b].key
            /\ s.kind = t[b].kind /\ s.disposed = t[b].disposed /\ s.attached = t[b].attached
        BY <3>1, Values DEF Sessions
      <4>2. session'[b] = s
        BY <2>3, <3>2
      <4> HIDE DEF s
      <4>. QED
        BY <3>1, <3>2, <4>1, <4>2 DEF Local
    <3>3. CASE ~(t[b].kind # "local" /\ t[b].link = "open")
      BY <2>3, <3>1, <3>3
    <3>. QED
      BY <3>2, <3>3
  <2>6. \A b \in Attempts : session'[b].pc # "idle" => session'[b].disposed
    BY <2>2, <2>4, <2>5 DEF ShellInv, Whose, Local
  <2>7. /\ conn' = "closed" /\ drained' = {} /\ UNCHANGED <<nodePods, pod, crossed, raced, unlisted>>
        /\ view' = [k \in Keys |-> [present |-> FALSE, state |-> "starting"]]
        /\ current' = [k \in Keys |-> None]
    BY <1>21 DEF Disconnected
  <2>8. view' \in [Keys -> Views] /\ current' \in [Keys -> Attempts \cup {None}]
    BY <2>7 DEF Views
  <2>9. session' \in [Attempts -> Sessions]
    BY <2>3, <2>5
  <2>10. \A b \in Attempts : Whose(b)'
    BY <2>6 DEF Whose
  <2>11. \A j \in Keys : Owned(j)'
    BY <2>7 DEF Owned
  <2>. QED
    BY <2>5, <2>7, <2>8, <2>9, <2>10, <2>11 DEF TypeOK, ShellInv
<1>. QED
  BY <1>1, <1>3, <1>4, <1>7, <1>8, <1>9, <1>10, <1>11, <1>12, <1>13, <1>14, <1>15, <1>16, <1>17, <1>18, <1>19,
     <1>20, <1>21, <1>22 DEF Next

(* The inductive invariant: what fits together in a session, that an attempt
   nobody stopped is its tab's, and that what a tab has was begun for it. *)
THEOREM ShellsHold == Spec => [](TypeOK /\ ShellInv)
<1>1. Init => TypeOK
  <2>2. [present |-> FALSE, state |-> "starting"] \in Views
    BY DEF Views
  <2>. QED
    BY <2>2, UnbegunIs DEF Init, TypeOK
<1>2. Init => ShellInv
  BY DEF Init, ShellInv, Local, Whose, Owned, Unbegun
<1>. QED
  BY <1>1, <1>2, ShellStep, PTL DEF Spec

(* No attempt that is over leaves a channel or process open behind a tab that
   was closed, restarted or disconnected while the shell was opening. *)
THEOREM ShellsReachable == Spec => []NobodysShell
<1>1. TypeOK /\ ShellInv => NobodysShell
  BY DEF TypeOK, ShellInv, Local, Whose, NobodysShell
<1>. QED
  BY <1>1, ShellsHold, PTL

-----------------------------------------------------------------------------
(* What a session that begins is, and what it does to the tab and to those *)
(* that had the tab before it.                                             *)
LEMMA BeginsAs ==
  ASSUME TypeOK, ShellInv, NEW a \in Attempts, NEW k \in Keys, NEW kind \in Kinds, begin(a, k, kind)
  PROVE  /\ session[a].pc = "idle" /\ current' = [current EXCEPT ![k] = a]
         /\ session'[a].key = k /\ session'[a].kind = kind
         /\ ~session'[a].disposed /\ ~session'[a].attached /\ ~session'[a].cleanup /\ session'[a].undo = "none"
         /\ session'[a].link \in {"none", "asked"} /\ session'[a].pc # "idle"
         /\ session'[a].pc = "preparing" => kind = "local"
         /\ session'[a].pc = "dialing" => kind = "exec"
         /\ session'[a].pc \notin {"polling", "deleting"}
         /\ session'[a].pc = "sweeping" => session'[a].pods = livePods
         /\ UNCHANGED unlisted
         /\ \A b \in Attempts : b # a => session'[b] = Stopped(Held(k))[b]
         /\ Held(k) \in SUBSET Attempts
         /\ view'[k].state # "running" /\ \A j \in Keys : j # k => view'[j] = view[j]
         /\ raced' = raced \cup {b \in Held(k) : Unanswered(b)}
<1> DEFINE allowed == kind = "local" \/ conn # "closed"
           link == IF kind = "exec" /\ allowed THEN "asked" ELSE "none"
           pc == IF ~allowed THEN "done"
                 ELSE CASE kind = "exec" -> "dialing" [] kind = "node" -> "sweeping" [] kind = "local" -> "preparing"
           keep == IF kind = "node" THEN livePods ELSE {}
           new == [Unbegun EXCEPT !.key = k, !.kind = kind, !.held = TRUE, !.pc = pc, !.link = link, !.pods = keep]
           S == Held(k)
<1>1. S \in SUBSET Attempts
  BY DEF Held, TypeOK
<1>2. session' = [Stopped(S) EXCEPT ![a] = new] /\ current' = [current EXCEPT ![k] = a] /\ session[a].pc = "idle"
  BY DEF begin, Fresh
<1>3. /\ link \in {"none", "asked"} /\ pc # "idle" /\ (pc = "preparing" => kind = "local")
      /\ (pc = "dialing" => kind = "exec") /\ pc \notin {"polling", "deleting"}
      /\ pc = "sweeping" => kind = "node"
  BY KindsKnown
<1>8. pc = "sweeping" => keep = livePods
  BY <1>3
<1> HIDE DEF pc, link, keep
<1>4. /\ new.key = k /\ new.kind = kind /\ new.pc = pc /\ new.link = link
      /\ ~new.disposed /\ ~new.attached /\ ~new.cleanup /\ new.undo = "none" /\ new.pods = keep
  BY DEF Unbegun
<1>5. session'[a] = new /\ \A b \in Attempts : b # a => session'[b] = Stopped(S)[b]
  BY <1>2 DEF Stopped
<1>6. view'[k].state # "running" /\ \A j \in Keys : j # k => view'[j] = view[j]
  BY DEF begin, TypeOK
<1>7. raced' = raced \cup {b \in Held(k) : Unanswered(b)} /\ UNCHANGED unlisted
  BY DEF begin
<1>. HIDE DEF new
<1>. QED
  BY <1>1, <1>2, <1>3, <1>4, <1>5, <1>6, <1>7, <1>8

(* Every action leaves a pod with somebody to delete it, and a shell with its
   pod and the record of it. *)
LEMMA PodStep == TypeOK /\ ShellInv /\ PodInv /\ SweepInv /\ [Next]_vars => PodInv'
<1> SUFFICES ASSUME TypeOK, ShellInv, PodInv, SweepInv, [Next]_vars PROVE PodInv'
    OBVIOUS
<1>1. ASSUME NEW a \in Attempts, Prepared(a) PROVE PodInv'
  BY <1>1 DEF Prepared, TypeOK, Sessions, PodInv, PodFits
<1>2. ASSUME NEW a \in Attempts, KubectlMissing(a) \/ Failed(a) PROVE PodInv'
  <2>1. /\ session' = [session EXCEPT ![a] = [session[a] EXCEPT !.pc = "done"]] /\ session[a] \in Sessions
        /\ UNCHANGED <<conn, pod, nodePods, raced, unlisted>> /\ session[a].pc \in {"preparing", "failing"}
    BY <1>2 DEF KubectlMissing, Failed, TypeOK
  <2>2. /\ session'[a].pc = "done" /\ session'[a].key = session[a].key /\ session'[a].kind = session[a].kind
        /\ session'[a].disposed = session[a].disposed /\ session'[a].attached = session[a].attached
        /\ session'[a].cleanup = session[a].cleanup /\ session'[a].undo = session[a].undo
        /\ \A b \in Attempts : b # a => session'[b] = session[b]
    BY <2>1 DEF Sessions, TypeOK
  <2>. QED
    BY <2>1, <2>2 DEF PodInv, PodFits
<1>3. ASSUME NEW a \in Attempts, Listed(a) \/ Swept(a) PROVE PodInv'
  <2>1. /\ session[a].pc \in {"sweeping", "deleting"} /\ session[a] \in Sessions /\ PodFits(a, session[a])
        /\ UNCHANGED <<conn, pod, nodePods, raced, unlisted>>
    BY <1>3 DEF Listed, Swept, TypeOK, PodInv
  <2>2. PICK pc \in {"deleting", "creating"}, P \in SUBSET Attempts :
          session' = [session EXCEPT ![a] = [session[a] EXCEPT !.pc = pc, !.pods = P]]
    <3>1. CASE Listed(a)
      BY <3>1, <2>1 DEF Listed, TypeOK, Sessions
    <3>2. CASE Swept(a)
      BY <3>2, <2>1 DEF Swept, TypeOK, Sessions
    <3>. QED
      BY <1>3, <3>1, <3>2
  <2>3. /\ session'[a].pc = pc /\ session'[a].key = session[a].key /\ session'[a].kind = session[a].kind
        /\ session'[a].disposed = session[a].disposed /\ session'[a].attached = session[a].attached
        /\ session'[a].cleanup = session[a].cleanup /\ session'[a].undo = session[a].undo
        /\ \A b \in Attempts : b # a => session'[b] = session[b]
    BY <2>1, <2>2 DEF Sessions, TypeOK
  <2>4. PodFits(a, session[a])'
    BY <2>1, <2>2, <2>3 DEF PodFits
  <2>. QED
    BY <2>1, <2>3, <2>4 DEF PodInv, PodFits
<1>22. ASSUME NEW a \in Attempts, NEW b \in Attempts, Deleted(a, b) PROVE PodInv'
  <2>1. /\ pod' = [pod EXCEPT ![b] = "gone"] /\ UNCHANGED <<conn, session, nodePods, raced, unlisted>>
        /\ session[b].cleanup /\ ~session[b].disposed => b \in unlisted
    BY <1>22 DEF Deleted, SweepInv, SweepFits
  <2>2. \A c \in Attempts : pod'[c] = pod[c] \/ (c = b /\ pod'[c] = "gone")
    BY <2>1 DEF TypeOK
  <2>. QED
    BY <2>1, <2>2 DEF PodInv, PodFits
<1>4. ASSUME NEW a \in Attempts, PodCreated(a) PROVE PodInv'
  BY <1>4 DEF PodCreated, TypeOK, Sessions, PodInv, PodFits
<1>5. ASSUME NEW a \in Attempts, CreateAnswered(a) PROVE PodInv'
  <2>1. /\ session' = [session EXCEPT ![a] = [session[a] EXCEPT !.pc = "polling", !.cleanup = TRUE]]
        /\ nodePods' = [nodePods EXCEPT ![session[a].key] = a] /\ UNCHANGED <<conn, pod, raced>>
        /\ session[a].pc = "creating" /\ session[a] \in Sessions /\ session[a].key \in Keys /\ unlisted \subseteq unlisted'
        /\ \A b \in Attempts : b = nodePods[session[a].key] => b \in unlisted'
    BY <1>5 DEF CreateAnswered, TypeOK, ShellInv, Local
  <2>2. PodFits(a, session[a])'
    BY <2>1 DEF PodInv, PodFits, TypeOK, Sessions
  <2>3. ASSUME NEW b \in Attempts, b # a PROVE PodFits(b, session[b])'
    <3>1. session'[b] = session[b] /\ PodFits(b, session[b]) /\ session[b] \in Sessions
      BY <2>1, <2>3 DEF PodInv, TypeOK
    <3>2. nodePods[session[b].key] = b => nodePods'[session[b].key] = b \/ b \in unlisted'
      BY <2>1 DEF TypeOK
    <3>. QED
      BY <2>1, <3>1, <3>2 DEF PodFits
  <2>. QED
    BY <2>2, <2>3 DEF PodInv
<1>6. ASSUME NEW a \in Attempts, Ready(a) PROVE PodInv'
  BY <1>6 DEF Ready, TypeOK, Sessions, PodInv, PodFits
<1>7. ASSUME NEW a \in Attempts, GoOpens(a) PROVE PodInv'
  BY <1>7 DEF GoOpens, TypeOK, Sessions, PodInv, PodFits
<1>8. ASSUME NEW a \in Attempts, Exits(a) PROVE PodInv'
  BY <1>8 DEF Exits, TypeOK, Sessions, PodInv, PodFits
<1>9. ASSUME NEW a \in Attempts, LinkClosed(a) PROVE PodInv'
  BY <1>9 DEF LinkClosed, TypeOK, Sessions, PodInv, PodFits
<1>10. ASSUME NEW a \in Attempts, NEW state \in {"ended", "failed"}, ExitHeard(a, state) PROVE PodInv'
  BY <1>10 DEF ExitHeard, TypeOK, Sessions, PodInv, PodFits
<1>11. ASSUME NEW a \in Attempts, NEW answered \in BOOLEAN, CleanedUp(a, answered) PROVE PodInv'
  <2> DEFINE undo == IF answered THEN "done" ELSE "failed"
             pc == IF session[a].pc # "undoing" THEN session[a].pc ELSE IF answered THEN "failing" ELSE "done"
  <2>1. /\ session' = [session EXCEPT ![a] = [session[a] EXCEPT !.undo = undo, !.pc = pc]]
        /\ nodePods' = [nodePods EXCEPT ![session[a].key] = None] /\ UNCHANGED <<conn, raced>>
        /\ unlisted' = unlisted \cup ({nodePods[session[a].key]} \ {a, None})
        /\ pod' = IF answered /\ conn # "closed" THEN [pod EXCEPT ![a] = "gone"] ELSE pod
        /\ session[a].undo = "queued" /\ session[a] \in Sessions /\ PodFits(a, session[a])
        /\ session[a].pc # "idle" /\ session[a].key \in Keys
    BY <1>11 DEF CleanedUp, TypeOK, ShellInv, Local, PodInv
  <2>2. /\ undo \in {"done", "failed"} /\ (undo = "done" => pod'[a] = "gone" \/ conn = "closed") /\ pod'[a] \in {pod[a], "gone"}
        /\ pc = session[a].pc \/ pc \in {"failing", "done"}
        /\ \A b \in Attempts : b # a => pod'[b] = pod[b]
    BY <2>1 DEF TypeOK
  <2> HIDE DEF undo, pc
  <2>3. PodFits(a, session[a])'
    <3>1. /\ session'[a].undo = undo /\ session'[a].pc = pc /\ session'[a].disposed = session[a].disposed
          /\ session'[a].kind = session[a].kind /\ session'[a].cleanup = session[a].cleanup
      BY <2>1 DEF Sessions, TypeOK
    <3>2. session[a].disposed
      BY <2>1 DEF PodFits
    <3>. QED
      BY <2>1, <2>2, <3>1, <3>2 DEF PodFits
  <2>4. ASSUME NEW b \in Attempts, b # a PROVE PodFits(b, session[b])'
    <3>1. session'[b] = session[b] /\ PodFits(b, session[b]) /\ pod'[b] = pod[b] /\ unlisted \subseteq unlisted'
      BY <2>1, <2>2, <2>4 DEF PodInv, TypeOK
    <3>2. nodePods[session[b].key] = b => nodePods'[session[b].key] = b \/ b \in unlisted'
      BY <2>1, <2>4, NoneApart DEF TypeOK
    <3>. QED
      BY <2>1, <3>1, <3>2 DEF PodFits
  <2>. QED
    BY <2>3, <2>4 DEF PodInv
<1>12. ASSUME NEW a \in Attempts, NEW data \in BOOLEAN, Attached(a, data) PROVE PodInv'
  <2>1. session[a] \in Sessions /\ PodFits(a, session[a]) /\ session[a].pc = "dialing"
    BY <1>12 DEF TypeOK, PodInv, Attached
  <2>2. /\ UNCHANGED <<conn, pod, nodePods, raced, unlisted>> /\ session' = [session EXCEPT ![a] = session'[a]]
        /\ session'[a].key = session[a].key /\ session'[a].kind = session[a].kind /\ session'[a].disposed = session[a].disposed
        /\ session'[a].cleanup = session[a].cleanup /\ session'[a].undo = session[a].undo /\ session'[a].pc = "done"
    <3>1. CASE session[a].disposed
      <4> DEFINE link == IF session[a].link = "open" THEN "closing" ELSE session[a].link
      <4>1. /\ session' = [session EXCEPT ![a] = session'[a]] /\ UNCHANGED <<conn, pod, nodePods, raced, unlisted>>
            /\ session'[a] = [session[a] EXCEPT !.pc = "done", !.bye = FALSE, !.link = link]
        BY <1>12, <3>1 DEF Attached, TypeOK
      <4>. HIDE DEF link
      <4>. QED
        BY <2>1, <4>1 DEF Sessions
    <3>2. CASE ~session[a].disposed
      BY <1>12, <2>1, <3>2 DEF Attached, TypeOK, Sessions
    <3>. QED
      BY <3>1, <3>2
  <2>3. PodFits(a, session[a])'
    BY <2>1, <2>2 DEF PodFits
  <2>4. \A b \in Attempts : b # a => session'[b] = session[b]
    BY <2>2 DEF TypeOK
  <2>. QED
    BY <2>2, <2>3, <2>4 DEF PodInv, PodFits
<1>13. ASSUME NEW a \in Attempts, Fails(a) PROVE PodInv'
  <2> DEFINE h == Halted(session[a])
             link == IF h.link = "asked" THEN "closed" ELSE h.link
             pc == IF session[a].cleanup THEN "undoing" ELSE "failing"
  <2>1. session[a] \in Sessions /\ PodFits(a, session[a])
    BY DEF TypeOK, PodInv
  <2>2. /\ h \in Sessions /\ h.kind = session[a].kind /\ h.disposed /\ ~h.attached /\ ~h.cleanup
        /\ h.undo = (IF session[a].cleanup THEN "queued" ELSE session[a].undo)
    BY <2>1, HaltedIs
  <2>3. /\ session' = [session EXCEPT ![a] = [h EXCEPT !.pc = pc, !.pods = {}, !.link = link]]
        /\ UNCHANGED <<conn, pod, nodePods, unlisted>>
        /\ raced \subseteq raced' /\ (session[a].pc = "creating" => a \in raced')
    BY <1>13 DEF Fails
  <2>4. pc \in {"undoing", "failing"}
    OBVIOUS
  <2> HIDE DEF h, link, pc
  <2>5. /\ session'[a].pc = pc /\ session'[a].disposed /\ ~session'[a].attached /\ ~session'[a].cleanup
        /\ session'[a].undo = (IF session[a].cleanup THEN "queued" ELSE session[a].undo)
    BY <2>2, <2>3 DEF Sessions, TypeOK
  <2>6. PodFits(a, session[a])'
    BY <2>1, <2>3, <2>4, <2>5 DEF PodFits
  <2>7. \A b \in Attempts : b # a => session'[b] = session[b]
    BY <2>3 DEF TypeOK
  <2>. QED
    BY <2>3, <2>6, <2>7 DEF PodInv, PodFits
<1>14. ASSUME NEW S \in SUBSET Attempts, NEW b \in Attempts, PodFits(b, session[b]),
              b \in S /\ Unanswered(b) => b \in raced' \/ conn' = "closed",
              raced \subseteq raced', conn = "closed" => conn' = "closed", UNCHANGED <<pod, nodePods, unlisted>>,
              session'[b] = Stopped(S)[b]
       PROVE  PodFits(b, session[b])'
  <2>1. session[b] \in Sessions
    BY DEF TypeOK
  <2>2. CASE b \in S
    <3>1. session'[b] = Halted(session[b])
      BY <1>14, <2>2 DEF Stopped
    <3>2. /\ session'[b].key = session[b].key /\ session'[b].kind = session[b].kind /\ session'[b].pc = session[b].pc
          /\ session'[b].disposed /\ ~session'[b].attached /\ ~session'[b].cleanup
          /\ session'[b].undo = (IF session[b].cleanup THEN "queued" ELSE session[b].undo)
      BY <2>1, <3>1, HaltedIs
    <3>. QED
      BY <1>14, <2>2, <3>2 DEF PodFits, Unanswered
  <2>3. CASE b \notin S
    <3>1. session'[b] = session[b]
      BY <1>14, <2>3 DEF Stopped
    <3>. QED
      BY <1>14, <3>1 DEF PodFits
  <2>. QED
    BY <2>2, <2>3
<1>15. ASSUME NEW a \in Attempts, NEW k \in Keys, NEW kind \in Kinds, begin(a, k, kind), UNCHANGED <<conn, nodePods, pod>>
       PROVE  PodInv'
  <2>1. raced' = raced \cup {b \in Held(k) : Unanswered(b)} /\ UNCHANGED unlisted
    BY <1>15, BeginsAs
  <2>2. PodFits(a, session[a])'
    <3>1. session[a].pc = "idle" /\ PodFits(a, session[a]) /\ Local(session[a])
      BY <1>15, BeginsAs DEF PodInv, ShellInv
    <3>2. pod[a] = "there" => a \in raced \/ conn = "closed"
      BY <3>1 DEF PodFits, Local
    <3>3. /\ session'[a].kind = kind /\ ~session'[a].disposed /\ ~session'[a].attached /\ ~session'[a].cleanup
          /\ session'[a].undo = "none" /\ session'[a].pc # "polling"
          /\ (session'[a].pc = "preparing" => kind = "local") /\ (session'[a].pc = "dialing" => kind = "exec")
      BY <1>15, BeginsAs
    <3>4. raced \subseteq raced' /\ UNCHANGED <<conn, pod>>
      BY <1>15, <2>1
    <3>. QED
      BY <3>2, <3>3, <3>4 DEF PodFits
  <2>3. ASSUME NEW b \in Attempts, b # a PROVE PodFits(b, session[b])'
    <3>1. Held(k) \in SUBSET Attempts /\ session'[b] = Stopped(Held(k))[b]
      BY <1>15, <2>3, BeginsAs
    <3>. QED
      BY <1>14, <1>15, <2>1, <3>1 DEF PodInv
  <2>. QED
    BY <2>2, <2>3 DEF PodInv
<1>16. ASSUME NEW k \in Keys, Close(k) PROVE PodInv'
  <2>1. Held(k) \in SUBSET Attempts
    BY DEF Held, TypeOK
  <2>2. /\ session' = Stopped(Held(k)) /\ UNCHANGED <<conn, pod, nodePods, unlisted>>
        /\ raced' = raced \cup {b \in Held(k) : Unanswered(b)}
    BY <1>16 DEF Close
  <2>. QED
    BY <1>14, <2>1, <2>2 DEF PodInv
<1>17. CASE Drains
  <2>1. drained' \in SUBSET Attempts
    BY <1>17 DEF Drains
  <2>2. /\ session' = Stopped(drained') /\ UNCHANGED <<pod, nodePods, unlisted>> /\ conn' = "draining" /\ conn = "open"
        /\ raced' = raced \cup {b \in drained' : Unanswered(b)}
    BY <1>17 DEF Drains
  <2>. QED
    BY <1>14, <2>1, <2>2 DEF PodInv
<1>18. CASE Disconnected
  <2> DEFINE S == UNION {Held(k) : k \in Keys}
             t == Stopped(S)
  <2>1. S \in SUBSET Attempts
    BY DEF Held, TypeOK
  <2>2. /\ session' = [a \in Attempts |-> IF t[a].kind # "local" /\ t[a].link = "open"
                                          THEN [t[a] EXCEPT !.link = "closed"] ELSE t[a]]
        /\ conn' = "closed" /\ UNCHANGED <<pod, nodePods, raced, unlisted>>
    BY <1>18 DEF Disconnected
  <2> HIDE DEF S
  <2>3. ASSUME NEW b \in Attempts PROVE PodFits(b, session[b])'
    <3>1. session[b] \in Sessions /\ PodFits(b, session[b]) /\ Halted(session[b]) \in Sessions
      BY HaltedIs DEF TypeOK, PodInv
    <3>2. /\ t[b] \in Sessions /\ t[b].kind = session[b].kind /\ t[b].pc = session[b].pc
          /\ t[b].key = session[b].key /\ (t[b].disposed \/ t[b] = session[b])
          /\ t[b].attached => session[b].attached
          /\ t[b].undo # "none" => t[b].disposed
      BY <3>1, HaltedIs DEF Stopped, PodFits
    <3> HIDE DEF t
    <3>3. /\ session'[b].key = t[b].key /\ session'[b].kind = t[b].kind
          /\ session'[b].pc = t[b].pc /\ session'[b].disposed = t[b].disposed
          /\ session'[b].attached = t[b].attached /\ session'[b].undo = t[b].undo /\ session'[b].cleanup = t[b].cleanup
      BY <2>2, <3>2 DEF Sessions
    <3>. QED
      BY <2>2, <3>1, <3>2, <3>3 DEF PodFits
  <2>. QED
    BY <2>3 DEF PodInv
<1>19. CASE UNCHANGED vars
  BY <1>19 DEF vars, PodInv, PodFits
<1>20. ASSUME NEW a \in Attempts, NEW k \in Keys, NEW kind \in Kinds, Open(a, k, kind) PROVE PodInv'
  BY <1>15, <1>20 DEF Open
<1>21. ASSUME NEW a \in Attempts, NEW k \in Keys, Restart(a, k) PROVE PodInv'
  <2>1. view[k].present
    BY <1>21 DEF Restart
  <2>2. session[current[k]].kind \in Kinds
    BY <2>1 DEF ShellInv, Owned, Local, TypeOK
  <2>. QED
    BY <1>15, <1>21, <2>2 DEF Restart
<1>. QED
  BY <1>1, <1>2, <1>3, <1>4, <1>5, <1>6, <1>7, <1>8, <1>9, <1>10, <1>11, <1>12, <1>13,
     <1>16, <1>17, <1>18, <1>19, <1>20, <1>21, <1>22 DEF Next

(* A session that goes on sweeping as it did, and gets no pod of its own. *)
Calm(b) ==
  /\ session'[b].pc \in {"sweeping", "deleting"} => session'[b].pc = session[b].pc /\ session'[b].pods = session[b].pods
  /\ session'[b].cleanup /\ ~session'[b].disposed => session[b].cleanup /\ ~session[b].disposed

(* A stop is calm. *)
LEMMA StoppedCalm ==
  ASSUME TypeOK, NEW S \in SUBSET Attempts, NEW b \in Attempts, session'[b] = Stopped(S)[b]
  PROVE  Calm(b)
<1>1. session[b] \in Sessions
  BY DEF TypeOK
<1>2. CASE b \in S
  <2>1. session'[b] = Halted(session[b])
    BY <1>2 DEF Stopped
  <2>. QED
    BY <1>1, <2>1, HaltedIs DEF Calm
<1>3. CASE b \notin S
  BY <1>3 DEF Stopped, Calm
<1>. QED
  BY <1>2, <1>3

(* Every sweep goes on to know the pods of the shells nobody stopped. *)
LEMMA SweepStep == TypeOK /\ ShellInv /\ PodInv /\ SweepInv /\ [Next]_vars => SweepInv'
<1> SUFFICES ASSUME TypeOK, ShellInv, PodInv, SweepInv, [Next]_vars PROVE SweepInv'
    OBVIOUS
<1>1. ASSUME unlisted \subseteq unlisted', \A b \in Attempts : Calm(b) PROVE SweepInv'
  BY <1>1 DEF SweepInv, SweepFits, Calm
<1>2. ASSUME NEW a \in Attempts, Prepared(a) \/ KubectlMissing(a) \/ Swept(a) \/ Ready(a) \/ GoOpens(a) \/ Failed(a)
                                 \/ Exits(a) \/ LinkClosed(a)
      PROVE  SweepInv'
  <2>1. /\ session[a] \in Sessions /\ UNCHANGED unlisted
        /\ \A b \in Attempts : b # a => session'[b] = session[b]
    BY <1>2 DEF Prepared, KubectlMissing, Swept, Ready, GoOpens, Failed, Exits, LinkClosed, TypeOK
  <2>2. Calm(a) => SweepInv'
    BY <1>1, <2>1 DEF Calm
  <2>3. CASE Prepared(a) \/ Ready(a)
    BY <2>1, <2>2, <2>3 DEF Prepared, Ready, TypeOK, Sessions, Calm
  <2>4. CASE KubectlMissing(a) \/ Failed(a)
    BY <2>1, <2>2, <2>4 DEF KubectlMissing, Failed, TypeOK, Sessions, Calm
  <2>5. CASE Swept(a)
    BY <2>1, <2>2, <2>5 DEF Swept, TypeOK, Sessions, Calm
  <2>6. CASE GoOpens(a) \/ LinkClosed(a)
    BY <2>1, <2>2, <2>6 DEF GoOpens, LinkClosed, TypeOK, Sessions, Calm
  <2>7. CASE Exits(a)
    BY <2>1, <2>2, <2>7 DEF Exits, TypeOK, Sessions, Calm
  <2>. QED
    BY <1>2, <2>3, <2>4, <2>5, <2>6, <2>7
<1>3. ASSUME NEW a \in Attempts, Listed(a) PROVE SweepInv'
  <2>1. /\ session' = [session EXCEPT ![a] = [session[a] EXCEPT !.pc = "deleting",
                                                            !.pods = {b \in Attempts : pod[b] = "there"} \ session[a].pods]]
        /\ session[a].pc = "sweeping" /\ session[a] \in Sessions /\ UNCHANGED unlisted
    BY <1>3 DEF Listed, TypeOK
  <2>2. /\ session'[a].pc = "deleting" /\ session'[a].pods \cap session[a].pods = {}
        /\ session'[a].cleanup = session[a].cleanup /\ session'[a].disposed = session[a].disposed
        /\ \A b \in Attempts : b # a => session'[b] = session[b]
    BY <2>1 DEF TypeOK, Sessions
  <2>. QED
    BY <2>1, <2>2 DEF SweepInv, SweepFits
<1>4. ASSUME NEW a \in Attempts, CreateAnswered(a) PROVE SweepInv'
  <2>1. /\ session' = [session EXCEPT ![a] = [session[a] EXCEPT !.pc = "polling", !.cleanup = TRUE]]
        /\ unlisted \subseteq unlisted' /\ (Awaited(a) => a \in unlisted') /\ session[a] \in Sessions
    BY <1>4 DEF CreateAnswered, TypeOK
  <2>2. session'[a].pc = "polling" /\ \A b \in Attempts : b # a => session'[b] = session[b]
    BY <2>1 DEF TypeOK, Sessions
  <2>3. ASSUME NEW b \in Attempts, NEW c \in Attempts PROVE SweepFits(b, c)'
    <3>1. CASE b = a
      BY <2>2, <3>1 DEF SweepFits
    <3>2. CASE b # a /\ c = a
      BY <2>1, <2>2, <3>2 DEF SweepFits, Awaited
    <3>3. CASE b # a /\ c # a
      BY <2>1, <2>2, <3>3 DEF SweepFits, SweepInv
    <3>. QED
      BY <3>1, <3>2, <3>3
  <2>. QED
    BY <2>3 DEF SweepInv
<1>5. ASSUME NEW a \in Attempts, NEW k \in Keys, NEW kind \in Kinds, begin(a, k, kind) PROVE SweepInv'
  <2>1. ASSUME NEW b \in Attempts, b # a PROVE Calm(b)
    BY <1>5, <2>1, BeginsAs, StoppedCalm
  <2>2. ASSUME NEW b \in Attempts, b # a, session'[b].cleanup, ~session'[b].disposed
        PROVE  b \in livePods \/ b \in unlisted
    <3>1. session[b].cleanup /\ ~session[b].disposed /\ Local(session[b]) /\ Whose(b) /\ PodFits(b, session[b])
      BY <2>1, <2>2 DEF Calm, ShellInv, PodInv
    <3>2. current[session[b].key] = b /\ session[b].key \in Keys /\ (nodePods[session[b].key] = b \/ b \in unlisted)
      BY <3>1 DEF Local, Whose, PodFits
    <3>. QED
      BY <3>2, NoneApart DEF livePods
  <2>3. UNCHANGED unlisted /\ ~session'[a].cleanup /\ session'[a].pc # "deleting"
        /\ (session'[a].pc = "sweeping" => session'[a].pods = livePods)
    BY <1>5, BeginsAs
  <2>4. ASSUME NEW b \in Attempts, NEW c \in Attempts PROVE SweepFits(b, c)'
    <3>1. CASE c = a
      BY <2>3, <3>1 DEF SweepFits
    <3>2. CASE c # a /\ b = a
      BY <2>2, <2>3, <3>2 DEF SweepFits
    <3>3. CASE c # a /\ b # a
      BY <2>1, <2>3, <3>3 DEF SweepFits, SweepInv, Calm
    <3>. QED
      BY <3>1, <3>2, <3>3
  <2>. QED
    BY <2>4 DEF SweepInv
<1>6. ASSUME NEW a \in Attempts, NEW state \in {"ended", "failed"}, ExitHeard(a, state) PROVE SweepInv'
  BY <1>1, <1>6 DEF ExitHeard, TypeOK, Sessions, Calm
<1>7. ASSUME NEW a \in Attempts, NEW answered \in BOOLEAN, CleanedUp(a, answered) PROVE SweepInv'
  <2>1. session[a] \in Sessions /\ unlisted \subseteq unlisted'
    BY <1>7 DEF CleanedUp, TypeOK
  <2>2. session'[a].pc = session[a].pc \/ session'[a].pc \in {"failing", "done"}
    BY <1>7 DEF CleanedUp, TypeOK, Sessions
  <2>3. /\ session'[a].pods = session[a].pods /\ session'[a].cleanup = session[a].cleanup
        /\ session'[a].disposed = session[a].disposed /\ \A b \in Attempts : b # a => session'[b] = session[b]
    BY <1>7 DEF CleanedUp, TypeOK, Sessions
  <2>4. \A b \in Attempts : Calm(b)
    BY <2>2, <2>3 DEF Calm
  <2>. QED
    BY <1>1, <2>1, <2>4
<1>8. ASSUME NEW a \in Attempts, NEW data \in BOOLEAN, Attached(a, data) PROVE SweepInv'
  <2>1. /\ session'[a].pc = "done" /\ session'[a].cleanup = session[a].cleanup
        /\ session'[a].disposed = session[a].disposed /\ UNCHANGED unlisted
        /\ \A b \in Attempts : b # a => session'[b] = session[b]
    BY <1>8 DEF Attached, TypeOK, Sessions
  <2>2. \A b \in Attempts : Calm(b)
    BY <2>1 DEF Calm
  <2>. QED
    BY <1>1, <2>1, <2>2
<1>9. ASSUME NEW a \in Attempts, Fails(a) PROVE SweepInv'
  <2> DEFINE h == Halted(session[a])
  <2>1. h \in Sessions /\ h.disposed /\ UNCHANGED unlisted
    BY <1>9, HaltedIs DEF Fails, TypeOK
  <2>2. session'[a] = [h EXCEPT !.pc = IF session[a].cleanup THEN "undoing" ELSE "failing", !.pods = {},
                                !.link = IF h.link = "asked" THEN "closed" ELSE h.link]
        /\ \A b \in Attempts : b # a => session'[b] = session[b]
    BY <1>9 DEF Fails, TypeOK
  <2> HIDE DEF h
  <2>3. session'[a].pc \in {"undoing", "failing"} /\ session'[a].disposed
    BY <2>1, <2>2 DEF Sessions
  <2>4. \A b \in Attempts : Calm(b)
    BY <2>2, <2>3 DEF Calm
  <2>. QED
    BY <1>1, <2>1, <2>4
<1>10. ASSUME NEW k \in Keys, Close(k) PROVE SweepInv'
  <2>1. Held(k) \in SUBSET Attempts /\ session' = Stopped(Held(k)) /\ UNCHANGED unlisted
    BY <1>10 DEF Held, TypeOK, Close
  <2>. QED
    BY <1>1, <2>1, StoppedCalm
<1>11. CASE Drains
  <2>1. drained' \in SUBSET Attempts /\ session' = Stopped(drained') /\ UNCHANGED unlisted
    BY <1>11 DEF Drains
  <2>. QED
    BY <1>1, <2>1, StoppedCalm
<1>12. CASE Disconnected
  <2> DEFINE S == UNION {Held(k) : k \in Keys}
             t == Stopped(S)
  <2>1. session' = [a \in Attempts |-> IF t[a].kind # "local" /\ t[a].link = "open"
                                       THEN [t[a] EXCEPT !.link = "closed"] ELSE t[a]]
        /\ UNCHANGED unlisted
    BY <1>12 DEF Disconnected
  <2>2. ASSUME NEW b \in Attempts PROVE Calm(b)
    <3>1. session[b] \in Sessions /\ Halted(session[b]) \in Sessions
      BY HaltedIs DEF TypeOK
    <3>2. t[b] \in Sessions /\ t[b].pc = session[b].pc /\ t[b].pods = session[b].pods
          /\ (t[b].disposed \/ t[b] = session[b])
      BY <3>1, HaltedIs DEF Stopped
    <3> HIDE DEF t
    <3>3. /\ session'[b].pc = t[b].pc /\ session'[b].pods = t[b].pods
          /\ session'[b].disposed = t[b].disposed /\ session'[b].cleanup = t[b].cleanup
      BY <2>1, <3>2 DEF Sessions
    <3>. QED
      BY <3>2, <3>3 DEF Calm
  <2>. QED
    BY <1>1, <2>1, <2>2
<1>13. ASSUME NEW a \in Attempts, NEW k \in Keys, NEW kind \in Kinds, Open(a, k, kind) PROVE SweepInv'
  BY <1>5, <1>13 DEF Open
<1>14. ASSUME NEW a \in Attempts, NEW k \in Keys, Restart(a, k) PROVE SweepInv'
  <2>1. view[k].present
    BY <1>14 DEF Restart
  <2>2. session[current[k]].kind \in Kinds
    BY <2>1 DEF ShellInv, Owned, Local, TypeOK
  <2>. QED
    BY <1>5, <1>14, <2>2 DEF Restart
<1>15. CASE UNCHANGED <<session, unlisted>>
  BY <1>15 DEF SweepInv, SweepFits
<1>16. ASSUME NEW a \in Attempts, NEW b \in Attempts, PodCreated(a) \/ Deleted(a, b) PROVE SweepInv'
  BY <1>15, <1>16 DEF PodCreated, Deleted
<1>17. CASE UNCHANGED vars
  BY <1>15, <1>17 DEF vars
<1>. QED
  BY <1>2, <1>3, <1>4, <1>6, <1>7, <1>8, <1>9, <1>10, <1>11, <1>12, <1>13, <1>14, <1>16, <1>17 DEF Next

(* One session moves on, or stays what it was for its tab. *)
LEMMA RunMoves ==
  ASSUME TypeOK, ShellInv, RunInv, NEW a \in Attempts,
         session' = [session EXCEPT ![a] = session'[a]], UNCHANGED <<conn, current, crossed>>,
         \A k \in Keys : view'[k].present = view[k].present,
         session[a].pc # "idle", session'[a].pc # "idle", session'[a].key = session[a].key,
         RunFits(a, session[a])',
         \A k \in Keys : view'[k].state = "running" =>
           IF k = session[a].key THEN Told(k)' ELSE view[k].state = "running"
  PROVE  RunInv'
<1>1. \A b \in Attempts : b # a => session'[b] = session[b]
  BY DEF TypeOK
<1>2. ASSUME NEW b \in Attempts PROVE RunFits(b, session[b])'
  <2>1. CASE b = a
    BY <2>1
  <2>2. CASE b # a
    <3>1. session'[b] = session[b] /\ RunFits(b, session[b]) /\ (session[b].pc # "idle" => session[b].key \in Keys)
      BY <1>1, <2>2 DEF RunInv, ShellInv, Local
    <3>. QED
      BY <3>1 DEF RunFits
  <2>. QED
    BY <2>1, <2>2
<1>3. ASSUME NEW k \in Keys PROVE Told(k)'
  <2>1. CASE k = session[a].key
    BY <2>1 DEF Told
  <2>2. CASE k # session[a].key
    <3>1. Told(k) /\ Owned(k) /\ (current[k] # None => current[k] \in Attempts)
      BY DEF RunInv, ShellInv, TypeOK
    <3>2. view[k].present => session'[current[k]] = session[current[k]]
      BY <1>1, <2>2, <3>1 DEF Owned
    <3>3. ASSUME conn' = "open", ~crossed', view'[k].present, view'[k].state = "running" PROVE Shown(session[current[k]])'
      <4>1. conn = "open" /\ ~crossed /\ view[k].present /\ view[k].state = "running" /\ current'[k] = current[k]
        BY <2>2, <3>3
      <4>. QED
        BY <3>1, <3>2, <4>1 DEF Told, Shown
    <3>. QED
      BY <3>3 DEF Told
  <2>. QED
    BY <2>1, <2>2
<1>. QED
  BY <1>2, <1>3 DEF RunInv

(* A tab reads as running only of a session that was attached to a link which
   is open or whose end is still to be told. *)
LEMMA RunStep == TypeOK /\ ShellInv /\ RunInv /\ [Next]_vars => RunInv'
<1> SUFFICES ASSUME TypeOK, ShellInv, RunInv, [Next]_vars PROVE RunInv'
    OBVIOUS
<1>0. ASSUME NEW a \in Attempts, session' = [session EXCEPT ![a] = session'[a]], UNCHANGED <<conn, view, current, crossed>>,
             session[a].pc # "idle", session'[a].pc # "idle", session'[a].key = session[a].key,
             RunFits(a, session[a])', Shown(session[a]) => Shown(session[a])'
      PROVE  RunInv'
  <2>1. \A b \in Attempts : b # a => session'[b] = session[b]
    BY <1>0 DEF TypeOK
  <2>2. ASSUME NEW k \in Keys PROVE Told(k)'
    <3>1. Told(k) /\ Owned(k) /\ (current[k] # None => current[k] \in Attempts) /\ UNCHANGED <<conn, view, current, crossed>>
      BY <1>0 DEF RunInv, ShellInv, TypeOK
    <3>2. ASSUME conn = "open", ~crossed, view[k].present, view[k].state = "running"
          PROVE  Shown(session[current[k]])'
      <4>1. Shown(session[current[k]]) /\ current[k] \in Attempts
        BY <3>1, <3>2 DEF Told, Owned
      <4>2. CASE current[k] = a
        BY <1>0, <3>1, <4>1, <4>2
      <4>3. CASE current[k] # a
        <5>1. session'[current'[k]] = session[current[k]]
          BY <2>1, <3>1, <4>1, <4>3
        <5>. QED
          BY <4>1, <5>1 DEF Shown
      <4>. QED
        BY <4>2, <4>3
    <3>. QED
      BY <3>1, <3>2 DEF Told
  <2>. QED
    BY <1>0, <2>1, <2>2, RunMoves
<1>1. ASSUME NEW a \in Attempts, Prepared(a) PROVE RunInv'
  <2>1. session[a] \in Sessions /\ Local(session[a]) /\ RunFits(a, session[a]) /\ session[a].pc = "preparing"
    BY <1>1 DEF TypeOK, ShellInv, RunInv, Prepared
  <2>2. session' = [session EXCEPT ![a] = session'[a]] /\ session'[a] = [session[a] EXCEPT !.pc = "dialing", !.link = "asked"]
    BY <1>1 DEF Prepared, TypeOK
  <2>3. UNCHANGED <<conn, view, current, crossed>>
    BY <1>1 DEF Prepared
  <2>4. session[a].pc # "idle" /\ session'[a].pc # "idle" /\ session'[a].key = session[a].key
    BY <2>1, <2>2 DEF Sessions, Local
  <2>5. RunFits(a, session[a])'
    BY <2>1, <2>2, <2>3 DEF Sessions, RunFits, Local
  <2>6. Shown(session[a]) => Shown(session[a])'
    BY <2>1, <2>2 DEF Sessions, Shown, Local
  <2>. QED
    BY <1>0, <2>2, <2>3, <2>4, <2>5, <2>6
<1>2. ASSUME NEW a \in Attempts, Listed(a) \/ Swept(a) PROVE RunInv'
  <2>1. session[a] \in Sessions /\ Local(session[a]) /\ RunFits(a, session[a]) /\ session[a].pc \in {"sweeping", "deleting"}
    BY <1>2 DEF TypeOK, ShellInv, RunInv, Listed, Swept
  <2>2. PICK pc \in {"deleting", "creating"}, P \in SUBSET Attempts :
          /\ session' = [session EXCEPT ![a] = session'[a]]
          /\ session'[a] = [session[a] EXCEPT !.pc = pc, !.pods = P]
    <3>1. CASE Listed(a)
      BY <3>1, <2>1 DEF Listed, TypeOK, Sessions
    <3>2. CASE Swept(a)
      BY <3>2, <2>1 DEF Swept, TypeOK, Sessions
    <3>. QED
      BY <1>2, <3>1, <3>2
  <2>3. UNCHANGED <<conn, view, current, crossed>>
    BY <1>2 DEF Listed, Swept
  <2>4. session[a].pc # "idle" /\ session'[a].pc # "idle" /\ session'[a].key = session[a].key
    BY <2>1, <2>2 DEF Sessions, Local
  <2>5. RunFits(a, session[a])'
    BY <2>1, <2>2, <2>3 DEF Sessions, RunFits, Local
  <2>6. Shown(session[a]) => Shown(session[a])'
    BY <2>1, <2>2 DEF Sessions, Shown, Local
  <2>. QED
    BY <1>0, <2>2, <2>3, <2>4, <2>5, <2>6
<1>3. ASSUME NEW a \in Attempts, CreateAnswered(a) PROVE RunInv'
  <2>1. session[a] \in Sessions /\ Local(session[a]) /\ RunFits(a, session[a]) /\ session[a].pc = "creating"
    BY <1>3 DEF TypeOK, ShellInv, RunInv, CreateAnswered
  <2>2. session' = [session EXCEPT ![a] = session'[a]] /\ session'[a] = [session[a] EXCEPT !.pc = "polling", !.cleanup = TRUE]
    BY <1>3 DEF CreateAnswered, TypeOK
  <2>3. UNCHANGED <<conn, view, current, crossed>>
    BY <1>3 DEF CreateAnswered
  <2>4. session[a].pc # "idle" /\ session'[a].pc # "idle" /\ session'[a].key = session[a].key
    BY <2>1, <2>2 DEF Sessions, Local
  <2>5. RunFits(a, session[a])'
    BY <2>1, <2>2, <2>3 DEF Sessions, RunFits, Local
  <2>6. Shown(session[a]) => Shown(session[a])'
    BY <2>1, <2>2 DEF Sessions, Shown, Local
  <2>. QED
    BY <1>0, <2>2, <2>3, <2>4, <2>5, <2>6
<1>4. ASSUME NEW a \in Attempts, Ready(a) PROVE RunInv'
  <2>1. session[a] \in Sessions /\ Local(session[a]) /\ RunFits(a, session[a]) /\ session[a].pc = "polling"
    BY <1>4 DEF TypeOK, ShellInv, RunInv, Ready
  <2>2. session' = [session EXCEPT ![a] = session'[a]] /\ session'[a] = [session[a] EXCEPT !.pc = "dialing", !.link = "asked"]
    BY <1>4 DEF Ready, TypeOK
  <2>3. UNCHANGED <<conn, view, current, crossed>>
    BY <1>4 DEF Ready
  <2>4. session[a].pc # "idle" /\ session'[a].pc # "idle" /\ session'[a].key = session[a].key
    BY <2>1, <2>2 DEF Sessions, Local
  <2>5. RunFits(a, session[a])'
    BY <2>1, <2>2, <2>3 DEF Sessions, RunFits, Local
  <2>6. Shown(session[a]) => Shown(session[a])'
    BY <2>1, <2>2 DEF Sessions, Shown, Local
  <2>. QED
    BY <1>0, <2>2, <2>3, <2>4, <2>5, <2>6
<1>5. ASSUME NEW a \in Attempts, GoOpens(a) PROVE RunInv'
  <2>1. session[a] \in Sessions /\ Local(session[a]) /\ RunFits(a, session[a]) /\ session[a].link = "asked"
    BY <1>5 DEF TypeOK, ShellInv, RunInv, GoOpens
  <2>2. session' = [session EXCEPT ![a] = session'[a]] /\ session'[a] = [session[a] EXCEPT !.link = "open"]
    BY <1>5 DEF GoOpens, TypeOK
  <2>3. UNCHANGED <<conn, view, current, crossed>>
    BY <1>5 DEF GoOpens
  <2>4. session[a].pc # "idle" /\ session'[a].pc # "idle" /\ session'[a].key = session[a].key
    BY <2>1, <2>2 DEF Sessions, Local
  <2>5. RunFits(a, session[a])'
    BY <2>1, <2>2, <2>3 DEF Sessions, RunFits, Local
  <2>6. Shown(session[a]) => Shown(session[a])'
    BY <2>1, <2>2 DEF Sessions, Shown, Local
  <2>. QED
    BY <1>0, <2>2, <2>3, <2>4, <2>5, <2>6
<1>6. ASSUME NEW a \in Attempts, Exits(a) PROVE RunInv'
  <2>1. session[a] \in Sessions /\ Local(session[a]) /\ RunFits(a, session[a]) /\ session[a].link = "open"
    BY <1>6 DEF TypeOK, ShellInv, RunInv, Exits
  <2>2. session' = [session EXCEPT ![a] = session'[a]] /\ session'[a] = [session[a] EXCEPT !.link = "closed", !.bye = TRUE]
    BY <1>6 DEF Exits, TypeOK
  <2>3. UNCHANGED <<conn, view, current, crossed>>
    BY <1>6 DEF Exits
  <2>4. session[a].pc # "idle" /\ session'[a].pc # "idle" /\ session'[a].key = session[a].key
    BY <2>1, <2>2 DEF Sessions, Local
  <2>5. RunFits(a, session[a])'
    BY <2>1, <2>2, <2>3 DEF Sessions, RunFits, Local
  <2>6. Shown(session[a]) => Shown(session[a])'
    BY <2>1, <2>2 DEF Sessions, Shown, Local
  <2>. QED
    BY <1>0, <2>2, <2>3, <2>4, <2>5, <2>6
<1>7. ASSUME NEW a \in Attempts, LinkClosed(a) PROVE RunInv'
  <2>1. session[a] \in Sessions /\ Local(session[a]) /\ RunFits(a, session[a]) /\ session[a].link = "closing"
    BY <1>7 DEF TypeOK, ShellInv, RunInv, LinkClosed
  <2>2. session' = [session EXCEPT ![a] = session'[a]] /\ session'[a] = [session[a] EXCEPT !.link = "closed"]
    BY <1>7 DEF LinkClosed, TypeOK
  <2>3. UNCHANGED <<conn, view, current, crossed>>
    BY <1>7 DEF LinkClosed
  <2>4. session[a].pc # "idle" /\ session'[a].pc # "idle" /\ session'[a].key = session[a].key
    BY <2>1, <2>2 DEF Sessions, Local
  <2>5. RunFits(a, session[a])'
    BY <2>1, <2>2, <2>3 DEF Sessions, RunFits, Local
  <2>6. Shown(session[a]) => Shown(session[a])'
    BY <2>1, <2>2 DEF Sessions, Shown, Local
  <2>. QED
    BY <1>0, <2>2, <2>3, <2>4, <2>5, <2>6
<1>8. ASSUME NEW a \in Attempts, NEW answered \in BOOLEAN, CleanedUp(a, answered) PROVE RunInv'
  <2> DEFINE undo == IF answered THEN "done" ELSE "failed"
             pc == IF session[a].pc # "undoing" THEN session[a].pc ELSE IF answered THEN "failing" ELSE "done"
  <2>1. session[a] \in Sessions /\ Local(session[a]) /\ RunFits(a, session[a]) /\ session[a].undo = "queued"
    BY <1>8 DEF TypeOK, ShellInv, RunInv, CleanedUp
  <2>2. session' = [session EXCEPT ![a] = session'[a]] /\ session'[a] = [session[a] EXCEPT !.undo = undo, !.pc = pc]
    BY <1>8 DEF CleanedUp, TypeOK
  <2>3. UNCHANGED <<conn, view, current, crossed>>
    BY <1>8 DEF CleanedUp
  <2>7. pc = session[a].pc \/ (session[a].pc = "undoing" /\ pc \in {"failing", "done"})
    OBVIOUS
  <2> HIDE DEF undo, pc
  <2>4. session[a].pc # "idle" /\ session'[a].pc # "idle" /\ session'[a].key = session[a].key
    BY <2>1, <2>2, <2>7 DEF Sessions, Local
  <2>5. RunFits(a, session[a])'
    BY <2>1, <2>2, <2>3, <2>7 DEF Sessions, RunFits, Local
  <2>6. Shown(session[a]) => Shown(session[a])'
    BY <2>1, <2>2 DEF Sessions, Shown, Local
  <2>. QED
    BY <1>0, <2>2, <2>3, <2>4, <2>5, <2>6
<1>9. ASSUME NEW a \in Attempts, NEW state \in {"ended", "failed"}, Shows(session[a].key, state),
             session' = [session EXCEPT ![a] = session'[a]], UNCHANGED <<conn, current, crossed>>,
             session[a].pc # "idle", session'[a].pc # "idle", session'[a].key = session[a].key,
             \A k \in Keys : view'[k].present = view[k].present => RunFits(a, session[a])'
      PROVE  RunInv'
  <2>1. session[a].key \in Keys
    BY <1>9 DEF ShellInv, Local
  <2>2. \A k \in Keys : view'[k].present = view[k].present
    BY <1>9, <2>1, ShowsIs
  <2>3. \A k \in Keys : view'[k].state = "running" => IF k = session[a].key THEN ~view[k].present ELSE view[k].state = "running"
    BY <1>9, <2>1 DEF Shows, TypeOK, Views
  <2>4. \A k \in Keys : ~view[k].present => Told(k)'
    BY <2>2 DEF Told
  <2>. QED
    BY <1>9, <2>1, <2>2, <2>3, <2>4, RunMoves
<1>10. ASSUME NEW a \in Attempts, KubectlMissing(a) \/ Failed(a) PROVE RunInv'
  <2>1. session[a] \in Sessions /\ Local(session[a]) /\ RunFits(a, session[a]) /\ session[a].pc \in {"preparing", "failing"}
    BY <1>10 DEF TypeOK, ShellInv, RunInv, KubectlMissing, Failed
  <2>2. session' = [session EXCEPT ![a] = session'[a]] /\ session'[a] = [session[a] EXCEPT !.pc = "done"]
    BY <1>10 DEF KubectlMissing, Failed, TypeOK
  <2>3. UNCHANGED <<conn, current, crossed>> /\ Shows(session[a].key, "failed")
    BY <1>10 DEF KubectlMissing, Failed
  <2>4. session[a].pc # "idle" /\ session'[a].pc # "idle" /\ session'[a].key = session[a].key /\ session[a].key \in Keys
    BY <2>1, <2>2 DEF Sessions, Local
  <2>5. RunFits(a, session[a])'
    BY <2>1, <2>2, <2>3 DEF Sessions, RunFits, Local
  <2>. QED
    BY <1>9, <2>2, <2>3, <2>4, <2>5
<1>11. ASSUME NEW a \in Attempts, NEW state \in {"ended", "failed"}, ExitHeard(a, state) PROVE RunInv'
  <2>1. session[a] \in Sessions /\ Local(session[a]) /\ RunFits(a, session[a]) /\ session[a].attached
    BY <1>11 DEF TypeOK, ShellInv, RunInv, ExitHeard
  <2>2. session' = [session EXCEPT ![a] = session'[a]] /\ session'[a] = [session[a] EXCEPT !.bye = FALSE]
    BY <1>11 DEF ExitHeard, TypeOK
  <2>3. UNCHANGED <<conn, current, crossed>> /\ Shows(session[a].key, state)
    BY <1>11 DEF ExitHeard
  <2>4. session[a].pc # "idle" /\ session'[a].pc # "idle" /\ session'[a].key = session[a].key /\ session[a].key \in Keys
    BY <2>1, <2>2 DEF Sessions, Local
  <2>5. \A k \in Keys : view'[k].present = view[k].present
    BY <2>3, <2>4, ShowsIs
  <2>6. RunFits(a, session[a])'
    BY <2>1, <2>2, <2>3, <2>4, <2>5 DEF Sessions, RunFits, Local
  <2>. QED
    BY <1>9, <2>2, <2>3, <2>4, <2>6
<1>12. ASSUME NEW a \in Attempts, NEW data \in BOOLEAN, Attached(a, data) PROVE RunInv'
  <2>1. session[a] \in Sessions /\ Local(session[a]) /\ RunFits(a, session[a]) /\ Whose(a) /\ session[a].pc = "dialing"
        /\ session[a].link \in {"open", "closed"}
    BY <1>12 DEF TypeOK, ShellInv, RunInv, Attached
  <2>2. UNCHANGED <<conn, current, crossed>> /\ (Shows(session[a].key, "running") \/ UNCHANGED view)
        /\ session' = [session EXCEPT ![a] = session'[a]]
    BY <1>12 DEF Attached, TypeOK
  <2>3. session[a].key \in Keys
    BY <2>1 DEF Local
  <2>4. \A k \in Keys : view'[k].present = view[k].present
    BY <2>2, <2>3, ShowsIs
  <2>5. /\ session'[a].pc = "done" /\ session'[a].key = session[a].key /\ session'[a].disposed = session[a].disposed
        /\ session'[a].link = "closing" => session'[a].disposed
        /\ ~session[a].disposed => session'[a].attached /\ session'[a].early = session[a].bye /\ session'[a].link = session[a].link
    <3>1. CASE session[a].disposed
      <4> DEFINE link == IF session[a].link = "open" THEN "closing" ELSE session[a].link
      <4>1. session'[a] = [session[a] EXCEPT !.pc = "done", !.bye = FALSE, !.link = link]
        BY <1>12, <3>1 DEF Attached, TypeOK
      <4>. HIDE DEF link
      <4>. QED
        BY <2>1, <3>1, <4>1 DEF Sessions
    <3>2. CASE ~session[a].disposed
      BY <1>12, <2>1, <3>2 DEF Attached, TypeOK, Sessions
    <3>. QED
      BY <3>1, <3>2
  <2>6. RunFits(a, session[a])'
    BY <2>1, <2>2, <2>3, <2>4, <2>5 DEF RunFits
  <2>7. ASSUME NEW k \in Keys, k = session[a].key, conn = "open", ~crossed, view[k].present PROVE Shown(session[current[k]])'
    <3>1. current[k] = a /\ ~session[a].disposed
      BY <2>1, <2>7 DEF RunFits
    <3>. QED
      BY <2>1, <2>2, <2>5, <2>7, <3>1 DEF RunFits, Shown
  <2>8. \A k \in Keys : k = session[a].key => Told(k)'
    BY <2>2, <2>4, <2>7 DEF Told
  <2>9. \A k \in Keys : k # session[a].key => view'[k] = view[k]
    BY <2>2 DEF Shows, TypeOK
  <2>. QED
    BY <2>1, <2>2, <2>3, <2>4, <2>5, <2>6, <2>8, <2>9, RunMoves
<1>13. ASSUME NEW a \in Attempts, Fails(a) PROVE RunInv'
  <2> DEFINE h == Halted(session[a])
             pc == IF session[a].cleanup THEN "undoing" ELSE "failing"
  <2>1. /\ session[a] \in Sessions /\ Local(session[a]) /\ RunFits(a, session[a]) /\ session[a].pc \notin {"idle", "done"}
        /\ session[a].link = "open" => session[a].pc # "dialing"
    BY <1>13 DEF TypeOK, ShellInv, RunInv, Fails
  <2>2. h \in Sessions /\ h.key = session[a].key /\ h.disposed /\ ~h.attached
    BY <2>1, HaltedIs
  <2>3. /\ session' = [session EXCEPT ![a] = session'[a]] /\ UNCHANGED <<conn, view, current, crossed>>
        /\ session'[a] = [h EXCEPT !.pc = pc, !.pods = {}, !.link = IF h.link = "asked" THEN "closed" ELSE h.link]
    BY <1>13 DEF Fails, TypeOK
  <2>7. pc \in {"undoing", "failing"}
    OBVIOUS
  <2> HIDE DEF h, pc
  <2>4. session'[a].pc \in {"undoing", "failing"} /\ session'[a].key = session[a].key /\ session'[a].disposed /\ ~session'[a].attached
    BY <2>2, <2>3, <2>7 DEF Sessions
  <2>5. RunFits(a, session[a])'
    BY <2>1, <2>3, <2>4 DEF RunFits
  <2>6. ASSUME NEW k \in Keys, k = session[a].key, view'[k].state = "running" PROVE Told(k)'
    <3>1. Told(k) /\ (current[k] = a \/ ~view[k].present \/ crossed \/ conn # "open") /\ ~Shown(session[a])
      BY <2>1, <2>6 DEF RunInv, RunFits, Shown
    <3>2. ~(conn = "open" /\ ~crossed /\ view[k].present)
      BY <2>3, <2>6, <3>1 DEF Told
    <3>. QED
      BY <2>3, <3>2 DEF Told
  <2>. QED
    BY <2>1, <2>3, <2>4, <2>5, <2>6, RunMoves
<1>14. ASSUME UNCHANGED <<conn, view, current, session, crossed>> PROVE RunInv'
  BY <1>14 DEF RunInv, RunFits, Told, Shown
<1>15. ASSUME NEW a \in Attempts, NEW b \in Attempts, PodCreated(a) \/ Deleted(a, b) PROVE RunInv'
  BY <1>14, <1>15 DEF PodCreated, Deleted
<1>16. CASE UNCHANGED vars
  BY <1>14, <1>16 DEF vars
<1>17. ASSUME NEW S \in SUBSET Attempts, NEW b \in Attempts, session'[b] = Stopped(S)[b], UNCHANGED conn, crossed => crossed',
              session[b].pc # "idle" => LET k == session[b].key IN
                \/ current'[k] = current[k] /\ view'[k].present = view[k].present /\ b \notin S
                \/ ~view'[k].present /\ current'[k] # b
                \/ current'[k] # b /\ (session[b].pc # "done" => crossed')
       PROVE  RunFits(b, session[b])'
  <2>1. session[b] \in Sessions /\ RunFits(b, session[b])
    BY DEF TypeOK, RunInv
  <2>2. CASE b \in S
    <3>1. session'[b] = Halted(session[b])
      BY <1>17, <2>2 DEF Stopped
    <3>2. /\ session'[b].key = session[b].key /\ session'[b].pc = session[b].pc
          /\ session'[b].disposed /\ ~session'[b].attached
      BY <2>1, <3>1, HaltedIs
    <3>. QED
      BY <1>17, <2>1, <2>2, <3>2 DEF RunFits
  <2>3. CASE b \notin S
    <3>1. session'[b] = session[b]
      BY <1>17, <2>3 DEF Stopped
    <3>. QED
      BY <1>17, <2>1, <2>3, <3>1 DEF RunFits
  <2>. QED
    BY <2>2, <2>3
<1>18. ASSUME NEW S \in SUBSET Attempts, NEW k \in Keys, UNCHANGED conn, crossed => crossed', current'[k] = current[k], view'[k] = view[k],
              current[k] \notin S, current[k] # None => session'[current[k]] = Stopped(S)[current[k]]
       PROVE  Told(k)'
  <2>1. ASSUME conn = "open", ~crossed, view[k].present, view[k].state = "running"
        PROVE  Shown(session[current[k]])'
    <3>1. Shown(session[current[k]]) /\ current[k] # None /\ current[k] \in Attempts
      BY <2>1 DEF RunInv, Told, ShellInv, Owned, TypeOK
    <3>2. session'[current'[k]] = session[current[k]]
      BY <1>18, <3>1 DEF Stopped
    <3>. QED
      BY <3>1, <3>2 DEF Shown
  <2>. QED
    BY <1>18, <2>1 DEF Told
<1>19. ASSUME NEW a \in Attempts, NEW k \in Keys, NEW kind \in Kinds, begin(a, k, kind), UNCHANGED conn
       PROVE  RunInv'
  <2>1. \A b \in Held(k) : session[b].key = k
    BY DEF Held, ShellInv, Owned
  <2>2. (crossed => crossed') /\ \A b \in Attempts : session[b].key = k /\ Running(b) => crossed'
    BY <1>19 DEF begin
  <2>3. current'[k] = a /\ \A j \in Keys : j # k => current'[j] = current[j]
    BY <1>19, BeginsAs DEF TypeOK
  <2>4. RunFits(a, session[a])'
    BY <1>19, <2>3, BeginsAs DEF RunFits
  <2>5. ASSUME NEW b \in Attempts, b # a PROVE RunFits(b, session[b])'
    <3>1. session'[b] = Stopped(Held(k))[b] /\ Held(k) \in SUBSET Attempts /\ \A j \in Keys : j # k => view'[j] = view[j]
      BY <1>19, <2>5, BeginsAs
    <3>2. session[b].pc # "idle" => session[b].key \in Keys
      BY DEF ShellInv, Local
    <3>3. CASE session[b].key = k
      BY <1>17, <1>19, <2>2, <2>3, <2>5, <3>1, <3>3 DEF Running
    <3>4. CASE session[b].key # k
      <4>1. b \notin Held(k)
        BY <2>1, <3>4
      <4>. QED
        BY <1>17, <1>19, <2>2, <2>3, <3>1, <3>2, <3>4, <4>1
    <3>. QED
      BY <3>3, <3>4
  <2>6. ASSUME NEW j \in Keys, j # k PROVE Told(j)'
    <3>1. /\ current[j] # None => current[j] \in Attempts /\ session[current[j]].key = j /\ session[current[j]].pc # "idle"
          /\ current[j] \notin Held(k)
      BY <2>1, <2>6 DEF Held, ShellInv, Owned, TypeOK
    <3>2. /\ session[a].pc = "idle" /\ Held(k) \in SUBSET Attempts /\ view'[j] = view[j]
          /\ \A b \in Attempts : b # a => session'[b] = Stopped(Held(k))[b]
      BY <1>19, <2>6, BeginsAs
    <3>3. current[j] # None => session'[current[j]] = Stopped(Held(k))[current[j]]
      BY <3>1, <3>2
    <3>. QED
      BY <1>18, <1>19, <2>2, <2>3, <2>6, <3>1, <3>2, <3>3
  <2>7. Told(k)'
    BY <1>19, BeginsAs DEF Told
  <2>. QED
    BY <2>4, <2>5, <2>6, <2>7 DEF RunInv
<1>20. ASSUME NEW k \in Keys, Close(k) PROVE RunInv'
  <2>1. /\ Held(k) \in SUBSET Attempts /\ session' = Stopped(Held(k)) /\ UNCHANGED <<conn, crossed>>
        /\ view' = [view EXCEPT ![k] = [present |-> FALSE, state |-> "starting"]] /\ current' = [current EXCEPT ![k] = None]
    BY <1>20 DEF Close, Held, TypeOK
  <2>2. \A b \in Held(k) : session[b].key = k
    BY DEF Held, ShellInv, Owned
  <2>3. ASSUME NEW b \in Attempts PROVE RunFits(b, session[b])'
    <3>1. session[b].pc # "idle" => session[b].key \in Keys
      BY DEF ShellInv, Local
    <3>. QED
      BY <1>17, <2>1, <2>2, <3>1, NoneApart DEF TypeOK
  <2>4. ASSUME NEW j \in Keys, j # k PROVE Told(j)'
    <3>1. current[j] \notin Held(k)
      BY <2>2, <2>4 DEF Held, ShellInv, Owned
    <3>. QED
      BY <1>18, <2>1, <2>4, <3>1 DEF TypeOK
  <2>5. Told(k)'
    BY <2>1 DEF Told, TypeOK
  <2>. QED
    BY <2>3, <2>4, <2>5 DEF RunInv
<1>21. CASE Drains
  <2>1. /\ drained' \in SUBSET Attempts /\ session' = Stopped(drained') /\ conn = "open" /\ conn' = "draining"
    BY <1>21 DEF Drains
  <2>2. ASSUME NEW b \in Attempts PROVE RunFits(b, session[b])'
    <3>1. session[b] \in Sessions /\ RunFits(b, session[b])
      BY DEF TypeOK, RunInv
    <3>2. session'[b] = (IF b \in drained' THEN Halted(session[b]) ELSE session[b])
      BY <2>1 DEF Stopped
    <3>. QED
      BY <2>1, <3>1, <3>2, HaltedIs DEF RunFits
  <2>. QED
    BY <2>1, <2>2 DEF RunInv, Told
<1>22. CASE Disconnected
  <2> DEFINE S == UNION {Held(k) : k \in Keys}
             t == Stopped(S)
  <2>1. /\ session' = [a \in Attempts |-> IF t[a].kind # "local" /\ t[a].link = "open"
                                          THEN [t[a] EXCEPT !.link = "closed"] ELSE t[a]]
        /\ conn' = "closed"
    BY <1>22 DEF Disconnected
  <2> HIDE DEF S
  <2>2. ASSUME NEW b \in Attempts PROVE RunFits(b, session[b])'
    <3>1. session[b] \in Sessions /\ RunFits(b, session[b])
      BY DEF TypeOK, RunInv
    <3>2. /\ t[b] \in Sessions /\ (t[b].link = "closing" => t[b].disposed)
          /\ t[b].attached => t[b].pc = "done"
      BY <3>1, HaltedIs DEF Stopped, RunFits
    <3> HIDE DEF t
    <3>3. /\ session'[b].pc = t[b].pc /\ session'[b].disposed = t[b].disposed /\ session'[b].attached = t[b].attached
          /\ session'[b].link = "closing" => t[b].link = "closing"
      BY <2>1, <3>2 DEF Sessions
    <3>. QED
      BY <2>1, <3>2, <3>3 DEF RunFits
  <2>. QED
    BY <2>1, <2>2 DEF RunInv, Told
<1>23. ASSUME NEW a \in Attempts, NEW k \in Keys, NEW kind \in Kinds, Open(a, k, kind) PROVE RunInv'
  BY <1>19, <1>23 DEF Open
<1>24. ASSUME NEW a \in Attempts, NEW k \in Keys, Restart(a, k) PROVE RunInv'
  <2>1. view[k].present
    BY <1>24 DEF Restart
  <2>2. session[current[k]].kind \in Kinds
    BY <2>1 DEF ShellInv, Owned, Local, TypeOK
  <2>. QED
    BY <1>19, <1>24, <2>2 DEF Restart
<1>. QED
  BY <1>1, <1>2, <1>3, <1>4, <1>5, <1>6, <1>7, <1>8, <1>10, <1>11, <1>12, <1>13, <1>15, <1>16, <1>20,
     <1>21, <1>22, <1>23, <1>24 DEF Next

(* The inductive invariant with the pods and the tabs in it. *)
THEOREM PodsHold == Spec => [](TypeOK /\ ShellInv /\ PodInv /\ SweepInv /\ RunInv)
<1>1. Init => PodInv /\ SweepInv
  BY DEF Init, Unbegun, PodInv, PodFits, SweepInv, SweepFits
<1>2. Init => RunInv
  BY DEF Init, Unbegun, RunInv, RunFits, Told
<1>. QED
  BY <1>1, <1>2, ShellsHold, PodStep, SweepStep, RunStep, PTL DEF Spec

(* Between calls every pod in a connected cluster has a tab that will delete
   it, unless its delete failed or its creation was answered too late. *)
THEOREM NoPodIsLeft == Spec => []NoneLeft
<1>1. TypeOK /\ ShellInv /\ PodInv => NoneLeft
  <2> SUFFICES ASSUME TypeOK, ShellInv, PodInv, AtRest, conn = "open",
                      NEW a \in Attempts, pod[a] = "there", a \notin raced, session[a].undo # "failed"
               PROVE  current[session[a].key] = a /\ session[a].cleanup
      BY DEF NoneLeft
  <2>1. PodFits(a, session[a]) /\ Local(session[a]) /\ Whose(a) /\ ~Running(a) /\ ~Stopping(a)
    BY DEF AtRest, PodInv, ShellInv
  <2>. QED
    BY <2>1 DEF PodFits, Local, Whose, Running, Stopping
<1>. QED
  BY <1>1, PodsHold, PTL

(* No sweep deletes the pod of a shell that runs and that it could know of. *)
THEOREM ShellPodsHold == Spec => []ShellPods
<1>1. ShellInv /\ PodInv => ShellPods
  BY DEF ShellInv, Local, PodInv, PodFits, ShellPods
<1>. QED
  BY <1>1, PodsHold, PTL

(* A tab that reads as running has a shell, at any moment. *)
THEOREM RunningHolds == Spec => []RunningIsOpen
<1>1. TypeOK /\ ShellInv /\ RunInv => RunningIsOpen
  <2> SUFFICES ASSUME TypeOK, ShellInv, RunInv, conn = "open", ~crossed, NEW k \in Keys,
                      view[k].present, view[k].state = "running"
               PROVE  Runs(k) \/ session[current[k]].early
    BY DEF RunningIsOpen
  <2>1. Shown(session[current[k]]) /\ current[k] # None
    BY DEF RunInv, Told, ShellInv, Owned
  <2>. QED
    BY <2>1 DEF Shown, Runs
<1>. QED
  BY <1>1, PodsHold, PTL

-----------------------------------------------------------------------------
(* The Go service of the processes (Processes).                            *)

(* The parts of the types the argument needs. *)
WriterStates == [pc : {"idle", "found", "failed", "writing", "written"},
                 on : Procs \cup {NoProcess}]
KillerStates == [pc : {"idle", "found", "failed", "terminated", "answered", "timedOut"},
                 on : Procs \cup {NoProcess}]
ProcessShapes ==
  /\ processes \subseteq Procs
  /\ phase \in [Procs -> Phases]
  /\ procKind \in [Procs -> {"plain", "pty"}]
  /\ tree \in [Procs -> SUBSET Members]
  /\ written \in [Procs -> [Streams -> Nat]]
  /\ read \in [Procs -> [Streams -> Nat]]
  /\ pumping \in [Procs -> SUBSET Streams]
  /\ running \in [Procs -> BOOLEAN]
  /\ events \in [Procs -> Seq({"output", "exit"})]
  /\ writer \in [Writers -> WriterStates]
  /\ killer \in [Killers -> KillerStates]

(* The map holds a process from its publication until it was reaped, and   *)
(* the reaper goes its own way with each kind.                             *)
ProcessListed ==
  \A p \in Procs :
    /\ p \in processes <=>
         phase[p] \in {"listed", "waiting", "exited", "inputClosed", "swept",
                       "drained", "waited"}
    /\ phase[p] = "swept" => procKind[p] = "plain"
    /\ phase[p] = "drained" => procKind[p] = "pty"

(* A stream of a plain process is read until nobody is left to write to it, *)
(* and the reaper goes on only when every stream has ended.                *)
StreamsRead ==
  \A p \in Procs :
    /\ procKind[p] = "plain" => \A s \in Streams \ pumping[p] :
         tree[p] = {} /\ read[p][s] = written[p][s]
    /\ phase[p] \in {"drained", "waited", "unlisted", "reported", "reaped"} =>
         pumping[p] = {}

(* The exit has been told exactly when the reaper has come that far, and   *)
(* nothing after it.                                                       *)
ExitTold ==
  \A p \in Procs :
    /\ phase[p] \in {"reported", "reaped"} =>
         events[p] # <<>> /\ events[p][Len(events[p])] = "exit"
    /\ \A i \in 1..Len(events[p]) : events[p][i] = "exit" =>
         i = Len(events[p]) /\ phase[p] \in {"reported", "reaped"}

(* A Kill call that is on its way is about a process that was started; from *)
(* its signal on nothing is alive in the group, and nothing will be.       *)
KillersAim ==
  \A a \in Killers : killer[a].pc # "idle" =>
    /\ killer[a].on \in Procs /\ phase[killer[a].on] \notin {"idle", "refused", "launched"}
    /\ killer[a].pc \in {"terminated", "answered", "timedOut"} =>
         tree[killer[a].on] \subseteq {"escaped"}
    /\ killer[a].pc = "answered" => phase[killer[a].on] = "reaped"

(* The same of a Write, and its input is open while it writes. *)
WritersAim ==
  \A w \in Writers : writer[w].pc # "idle" =>
    /\ writer[w].on \in Procs /\ phase[writer[w].on] \notin {"idle", "refused", "launched"}
    /\ writer[w].pc = "writing" => running[writer[w].on]

ProcessesInv ==
  ProcessShapes /\ ProcessListed /\ StreamsRead /\ ExitTold /\ KillersAim /\ WritersAim

(* Nothing has been started. *)
LEMMA ProcessesStart == ProcessesInit => ProcessesInv
<1> SUFFICES ASSUME ProcessesInit PROVE ProcessesInv
    OBVIOUS
<1> USE ProcessNone DEF ProcessesInit
<1>1. ProcessShapes
  BY DEF ProcessShapes, WriterStates, KillerStates, Phases, Members, Streams
<1>2. ProcessListed /\ StreamsRead /\ ExitTold
  BY DEF ProcessListed, StreamsRead, ExitTold
<1>3. KillersAim /\ WritersAim
  BY DEF KillersAim, WritersAim
<1>. QED
  BY <1>1, <1>2, <1>3 DEF ProcessesInv

(* An event is added at the end. *)
LEMMA Reported ==
  ASSUME ProcessShapes, NEW p \in Procs, NEW e \in {"output", "exit"},
         events' = [events EXCEPT ![p] = Append(events[p], e)]
  PROVE  /\ events' \in [Procs -> Seq({"output", "exit"})]
         /\ \A q \in Procs \ {p} : events'[q] = events[q]
         /\ events'[p] # <<>> /\ events'[p][Len(events'[p])] = e
         /\ \A i \in 1..Len(events'[p]) :
              i = Len(events'[p]) \/ (i \in 1..Len(events[p]) /\ events'[p][i] = events[p][i])
<1>1. events[p] \in Seq({"output", "exit"}) /\ events \in [Procs -> Seq({"output", "exit"})]
  BY DEF ProcessShapes
<1>2. events'[p] = Append(events[p], e)
  BY <1>1
<1>3. Append(events[p], e) \in Seq({"output", "exit"})
  BY <1>1, AppendProperties
<1>4. Len(events'[p]) = Len(events[p]) + 1 /\ Len(events[p]) \in Nat
      /\ events'[p][Len(events[p]) + 1] = e
      /\ \A i \in 1..Len(events[p]) : events'[p][i] = events[p][i]
  BY <1>1, <1>2, AppendProperties, LenProperties
<1>. QED
  BY <1>1, <1>2, <1>3, <1>4


(* The shapes are kept. *)
LEMMA ProcessShapesStep ==
  ProcessShapes /\ [ProcessesNext]_processesVars => ProcessShapes'
<1> SUFFICES ASSUME ProcessShapes, [ProcessesNext]_processesVars PROVE ProcessShapes'
    OBVIOUS
<1> USE ProcessKinds DEF ProcessShapes, Phases, Reaping
<1>w. ASSUME NEW w \in Writers, NEW q \in {"writing", "failed", "written"}
      PROVE  [writer[w] EXCEPT !.pc = q] \in WriterStates
  BY DEF WriterStates
<1>k. ASSUME NEW a \in Killers, NEW q \in {"terminated", "failed", "answered", "timedOut"}
      PROVE  [killer[a] EXCEPT !.pc = q] \in KillerStates
  BY DEF KillerStates
<1>t. ASSUME NEW p PROVE Killed(p) \in [Procs -> SUBSET Members]
  <2>1. CASE p \in Procs
    <3>1. tree[p] \ {"root", "leftover"} \in SUBSET Members
      BY <2>1
    <3>. QED
      BY <2>1, <3>1 DEF Killed
  <2>2. CASE p \notin Procs
    <3>1. Killed(p) = tree
      BY <2>2 DEF Killed
    <3>. QED
      BY <3>1
  <2>. QED
    BY <2>1, <2>2
<1>1. ASSUME NEW p \in Procs, NEW k \in StartKinds, Start(p, k) PROVE ProcessShapes'
  <2>3. {"root"} \in SUBSET Members /\ {"stdout"} \in SUBSET Streams /\ Streams \in SUBSET Streams
    BY DEF Members, Streams
  <2>4. \/ UNCHANGED <<tree, pumping>>
        \/ /\ tree' = [tree EXCEPT ![p] = {"root"}]
           /\ \/ pumping' = [pumping EXCEPT ![p] = {"stdout"}]
              \/ pumping' = [pumping EXCEPT ![p] = Streams]
    BY <1>1 DEF Start
  <2>7. tree' \in [Procs -> SUBSET Members] /\ pumping' \in [Procs -> SUBSET Streams]
    <3>1. [tree EXCEPT ![p] = {"root"}] \in [Procs -> SUBSET Members]
      BY <2>3
    <3>2. [pumping EXCEPT ![p] = {"stdout"}] \in [Procs -> SUBSET Streams]
      BY <2>3
    <3>3. [pumping EXCEPT ![p] = Streams] \in [Procs -> SUBSET Streams]
      BY <2>3
    <3>. QED
      BY <2>4, <3>1, <3>2, <3>3
  <2>5. procKind' \in [Procs -> {"plain", "pty"}] /\ running' \in [Procs -> BOOLEAN]
    BY <1>1 DEF Start
  <2>6. phase' \in [Procs -> Phases]
    BY <1>1 DEF Start
  <2>. QED
    BY <1>1, <2>5, <2>6, <2>7 DEF Start
<1>2. ASSUME NEW p \in Procs, Publish(p) PROVE ProcessShapes'
  BY <1>2 DEF Publish
<1>3. ASSUME NEW p \in Procs, Reap(p) PROVE ProcessShapes'
  BY <1>3 DEF Reap
<1>4. ASSUME NEW p \in Procs, RootExit(p) PROVE ProcessShapes'
  BY <1>4 DEF RootExit, To
<1>5. ASSUME NEW p \in Procs, closeInput(p) PROVE ProcessShapes'
  BY <1>5 DEF closeInput, To
<1>6. ASSUME NEW p \in Procs, sweep(p) PROVE ProcessShapes'
  BY <1>6, <1>t DEF sweep, To
<1>7. ASSUME NEW p \in Procs, streamsWait(p) PROVE ProcessShapes'
  BY <1>7 DEF streamsWait, To
<1>8. ASSUME NEW p \in Procs, Unlist(p) PROVE ProcessShapes'
  BY <1>8 DEF Unlist, To
<1>9. ASSUME NEW p \in Procs, EmitExit(p) PROVE ProcessShapes'
  BY <1>9, Reported DEF EmitExit, To
<1>10. ASSUME NEW p \in Procs, Reaped(p) PROVE ProcessShapes'
  BY <1>10 DEF Reaped, To
<1>11. ASSUME NEW p \in Procs, Spawn(p) PROVE ProcessShapes'
  BY <1>11 DEF Spawn, Members
<1>12. ASSUME NEW p \in Procs, NEW m \in Members, MemberExits(p, m) PROVE ProcessShapes'
  BY <1>12 DEF MemberExits
<1>13. ASSUME NEW p \in Procs, NEW s \in Streams, Prints(p, s) PROVE ProcessShapes'
  <2>1. written[p] \in [Streams -> Nat] /\ written[p][s] + 1 \in Nat
    BY <1>13
  <2>2. [written[p] EXCEPT ![s] = written[p][s] + 1] \in [Streams -> Nat]
    BY <2>1
  <2>3. written' = [written EXCEPT ![p] = [written[p] EXCEPT ![s] = written[p][s] + 1]]
    BY <1>13 DEF Prints
  <2>. QED
    BY <1>13, <2>2, <2>3 DEF Prints
<1>14. ASSUME NEW p \in Procs, NEW s \in Streams, Pump(p, s) PROVE ProcessShapes'
  <2>1. read[p] \in [Streams -> Nat] /\ read[p][s] + 1 \in Nat
    BY <1>14
  <2>2. [read[p] EXCEPT ![s] = read[p][s] + 1] \in [Streams -> Nat]
    BY <2>1
  <2>3. read' = [read EXCEPT ![p] = [read[p] EXCEPT ![s] = read[p][s] + 1]]
    BY <1>14 DEF Pump
  <2>4. events' = [events EXCEPT ![p] = Append(events[p], "output")]
    BY <1>14 DEF Pump
  <2>5. events' \in [Procs -> Seq({"output", "exit"})]
    BY <2>4, Reported
  <2>. QED
    BY <1>14, <2>2, <2>3, <2>5 DEF Pump
<1>15. ASSUME NEW p \in Procs, NEW s \in Streams, PumpEnds(p, s) PROVE ProcessShapes'
  BY <1>15 DEF PumpEnds
<1>16. ASSUME NEW p \in Procs, NEW w \in Writers, Write(w, p) PROVE ProcessShapes'
  <2>1. writer' \in [Writers -> WriterStates]
    BY <1>16 DEF Write, WriterStates
  <2>. QED
    BY <1>16, <2>1 DEF Write, procVars
<1>17. ASSUME NEW p \in Procs, NEW a \in Killers, Kill(a, p) PROVE ProcessShapes'
  <2>1. killer' \in [Killers -> KillerStates]
    BY <1>17 DEF Kill, KillerStates
  <2>. QED
    BY <1>17, <2>1 DEF Kill, procVars
<1>18. ASSUME NEW p \in Procs, CloseAllTerminates(p) PROVE ProcessShapes'
  BY <1>18, <1>t DEF CloseAllTerminates
<1>19. ASSUME NEW w \in Writers, BeginWrite(w) PROVE ProcessShapes'
  <2>1. \E q \in {"writing", "failed"} : writer' = [writer EXCEPT ![w] = [writer[w] EXCEPT !.pc = q]]
    BY <1>19 DEF BeginWrite
  <2>. QED
    BY <1>19, <1>w, <2>1 DEF BeginWrite, procVars
<1>20. ASSUME NEW w \in Writers, Written(w) PROVE ProcessShapes'
  <2>1. writer' = [writer EXCEPT ![w] = [writer[w] EXCEPT !.pc = "written"]]
    BY <1>20 DEF Written
  <2>. QED
    BY <1>20, <1>w, <2>1 DEF Written, procVars
<1>21. ASSUME NEW a \in Killers, terminate(a) PROVE ProcessShapes'
  <2>1. PICK q \in {"terminated", "failed"} : killer' = [killer EXCEPT ![a] = [killer[a] EXCEPT !.pc = q]]
    BY <1>21 DEF terminate
  <2>2. tree' = tree \/ tree' = Killed(killer[a].on)
    BY <1>21 DEF terminate
  <2>3. tree' \in [Procs -> SUBSET Members]
    BY <1>t, <2>2
  <2>4. killer' \in [Killers -> KillerStates]
    BY <1>k, <2>1
  <2>. QED
    BY <1>21, <2>3, <2>4 DEF terminate
<1>22. ASSUME NEW a \in Killers, AwaitExit(a) PROVE ProcessShapes'
  <2>1. PICK q \in {"answered", "timedOut"} : killer' = [killer EXCEPT ![a] = [killer[a] EXCEPT !.pc = q]]
    BY <1>22 DEF AwaitExit
  <2>2. killer' \in [Killers -> KillerStates]
    BY <1>k, <2>1
  <2>. QED
    BY <1>22, <2>2 DEF AwaitExit, procVars
<1>23. CASE CloseAll
  BY <1>23 DEF CloseAll, procVars
<1>24. CASE CloseAllWaits
  BY <1>24 DEF CloseAllWaits, procVars
<1>25. CASE Exit
  BY <1>25 DEF Exit, processesVars, procVars
<1>26. CASE UNCHANGED processesVars
  BY <1>26 DEF processesVars, procVars
<1>. QED
  BY <1>1, <1>2, <1>3, <1>4, <1>5, <1>6, <1>7, <1>8, <1>9, <1>10, <1>11,
     <1>12, <1>13, <1>14, <1>15, <1>16, <1>17, <1>18, <1>19, <1>20, <1>21,
     <1>22, <1>23, <1>24, <1>25, <1>26
     DEF ProcessesNext, ReapStep

(* The map follows the phases. *)
LEMMA ProcessListedStep ==
  ProcessShapes /\ ProcessListed /\ [ProcessesNext]_processesVars => ProcessListed'
<1> SUFFICES ASSUME ProcessShapes, ProcessListed, [ProcessesNext]_processesVars
             PROVE  ProcessListed'
    OBVIOUS
<1> USE DEF ProcessShapes, ProcessListed, Phases, Reaping
<1>1. ASSUME NEW p \in Procs, NEW k \in StartKinds, Start(p, k) PROVE ProcessListed'
  BY <1>1 DEF Start
<1>2. ASSUME NEW p \in Procs, Publish(p) PROVE ProcessListed'
  BY <1>2 DEF Publish
<1>3. ASSUME NEW p \in Procs, Reap(p) PROVE ProcessListed'
  BY <1>3 DEF Reap
<1>4. ASSUME NEW p \in Procs, RootExit(p) PROVE ProcessListed'
  BY <1>4 DEF RootExit, To
<1>5. ASSUME NEW p \in Procs, closeInput(p) PROVE ProcessListed'
  BY <1>5 DEF closeInput, To
<1>6. ASSUME NEW p \in Procs, sweep(p) PROVE ProcessListed'
  BY <1>6 DEF sweep, To
<1>7. ASSUME NEW p \in Procs, streamsWait(p) PROVE ProcessListed'
  BY <1>7 DEF streamsWait, To
<1>8. ASSUME NEW p \in Procs, Unlist(p) PROVE ProcessListed'
  BY <1>8 DEF Unlist, To
<1>9. ASSUME NEW p \in Procs, EmitExit(p) PROVE ProcessListed'
  BY <1>9 DEF EmitExit, To
<1>10. ASSUME NEW p \in Procs, Reaped(p) PROVE ProcessListed'
  BY <1>10 DEF Reaped, To
<1>11. ASSUME NEW p \in Procs, Spawn(p) PROVE ProcessListed'
  BY <1>11 DEF Spawn
<1>12. ASSUME NEW p \in Procs, NEW m \in Members, MemberExits(p, m) PROVE ProcessListed'
  BY <1>12 DEF MemberExits
<1>13. ASSUME NEW p \in Procs, NEW s \in Streams, Prints(p, s) PROVE ProcessListed'
  BY <1>13 DEF Prints
<1>14. ASSUME NEW p \in Procs, NEW s \in Streams, Pump(p, s) PROVE ProcessListed'
  BY <1>14 DEF Pump
<1>15. ASSUME NEW p \in Procs, NEW s \in Streams, PumpEnds(p, s) PROVE ProcessListed'
  BY <1>15 DEF PumpEnds
<1>16. ASSUME NEW p \in Procs, NEW w \in Writers, Write(w, p) PROVE ProcessListed'
  BY <1>16 DEF Write, procVars
<1>17. ASSUME NEW p \in Procs, NEW a \in Killers, Kill(a, p) PROVE ProcessListed'
  BY <1>17 DEF Kill, procVars
<1>18. ASSUME NEW p \in Procs, CloseAllTerminates(p) PROVE ProcessListed'
  BY <1>18 DEF CloseAllTerminates
<1>19. ASSUME NEW w \in Writers, BeginWrite(w) PROVE ProcessListed'
  BY <1>19 DEF BeginWrite, procVars
<1>20. ASSUME NEW w \in Writers, Written(w) PROVE ProcessListed'
  BY <1>20 DEF Written, procVars
<1>21. ASSUME NEW a \in Killers, terminate(a) PROVE ProcessListed'
  BY <1>21 DEF terminate
<1>22. ASSUME NEW a \in Killers, AwaitExit(a) PROVE ProcessListed'
  BY <1>22 DEF AwaitExit, procVars
<1>23. CASE CloseAll
  BY <1>23 DEF CloseAll, procVars
<1>24. CASE CloseAllWaits
  BY <1>24 DEF CloseAllWaits, procVars
<1>25. CASE Exit
  BY <1>25 DEF Exit, processesVars, procVars
<1>26. CASE UNCHANGED processesVars
  BY <1>26 DEF processesVars, procVars
<1>. QED
  BY <1>1, <1>2, <1>3, <1>4, <1>5, <1>6, <1>7, <1>8, <1>9, <1>10, <1>11,
     <1>12, <1>13, <1>14, <1>15, <1>16, <1>17, <1>18, <1>19, <1>20, <1>21,
     <1>22, <1>23, <1>24, <1>25, <1>26
     DEF ProcessesNext, ReapStep

(* A stream ends when nobody is left to write to it, and nobody is born    *)
(* into an empty tree.                                                     *)
LEMMA StreamsReadStep ==
  ProcessShapes /\ ProcessListed /\ StreamsRead /\ [ProcessesNext]_processesVars => StreamsRead'
<1> SUFFICES ASSUME ProcessShapes, ProcessListed, StreamsRead, [ProcessesNext]_processesVars
             PROVE  StreamsRead'
    OBVIOUS
<1> USE DEF ProcessShapes, StreamsRead, Phases, Reaping
<1>t. ASSUME NEW p \in Procs, tree' = Killed(p), UNCHANGED <<procKind, read, written, pumping>>,
             \A q \in Procs :
               phase'[q] \in {"drained", "waited", "unlisted", "reported", "reaped"} =>
                 phase[q] \in {"drained", "waited", "unlisted", "reported", "reaped"}
      PROVE  StreamsRead'
  <2>1. \A q \in Procs : tree[q] = {} => tree'[q] = {}
    BY <1>t DEF Killed
  <2>. QED
    BY <1>t, <2>1
<1>1. ASSUME NEW p \in Procs, NEW k \in StartKinds, Start(p, k) PROVE StreamsRead'
  <2>1. CASE phase' = [phase EXCEPT ![p] = "refused"] /\ UNCHANGED <<procKind, tree, pumping>>
    BY <1>1, <2>1 DEF Start
  <2>2. CASE /\ phase' = [phase EXCEPT ![p] = "launched"]
             /\ procKind' = [procKind EXCEPT ![p] = k] /\ tree' = [tree EXCEPT ![p] = {"root"}]
             /\ pumping' = [pumping EXCEPT ![p] = IF k = "pty" THEN {"stdout"} ELSE Streams]
    <3>1. procKind'[p] = "plain" => pumping'[p] = Streams
      BY <2>2
    <3>2. \A q \in Procs : q # p => /\ phase'[q] = phase[q] /\ procKind'[q] = procKind[q]
                                   /\ tree'[q] = tree[q] /\ pumping'[q] = pumping[q]
      BY <2>2
    <3>3. phase'[p] = "launched"
      BY <2>2
    <3>. QED
      BY <1>1, <3>1, <3>2, <3>3 DEF Start
  <2>. QED
    BY <1>1, <2>1, <2>2 DEF Start
<1>2. ASSUME NEW p \in Procs, Publish(p) PROVE StreamsRead'
  BY <1>2 DEF Publish
<1>3. ASSUME NEW p \in Procs, Reap(p) PROVE StreamsRead'
  BY <1>3 DEF Reap
<1>4. ASSUME NEW p \in Procs, RootExit(p) PROVE StreamsRead'
  BY <1>4 DEF RootExit, To
<1>5. ASSUME NEW p \in Procs, closeInput(p) PROVE StreamsRead'
  BY <1>5 DEF closeInput, To
<1>6. ASSUME NEW p \in Procs, sweep(p) PROVE StreamsRead'
  BY <1>6, <1>t DEF sweep, To
<1>7. ASSUME NEW p \in Procs, streamsWait(p) PROVE StreamsRead'
  BY <1>7 DEF streamsWait, To, ProcessListed
<1>8. ASSUME NEW p \in Procs, Unlist(p) PROVE StreamsRead'
  BY <1>8 DEF Unlist, To
<1>9. ASSUME NEW p \in Procs, EmitExit(p) PROVE StreamsRead'
  BY <1>9 DEF EmitExit, To
<1>10. ASSUME NEW p \in Procs, Reaped(p) PROVE StreamsRead'
  BY <1>10 DEF Reaped, To
<1>11. ASSUME NEW p \in Procs, Spawn(p) PROVE StreamsRead'
  <2>1. tree[p] # {} /\ \A q \in Procs : q # p => tree'[q] = tree[q]
    BY <1>11 DEF Spawn, Group
  <2>. QED
    BY <1>11, <2>1 DEF Spawn
<1>12. ASSUME NEW p \in Procs, NEW m \in Members, MemberExits(p, m) PROVE StreamsRead'
  <2>1. \A q \in Procs : tree[q] = {} => tree'[q] = {}
    BY <1>12 DEF MemberExits
  <2>. QED
    BY <1>12, <2>1 DEF MemberExits
<1>13. ASSUME NEW p \in Procs, NEW s \in Streams, Prints(p, s) PROVE StreamsRead'
  <2>1. tree[p] # {} /\ \A q \in Procs : q # p => written'[q] = written[q]
    BY <1>13 DEF Prints
  <2>. QED
    BY <1>13, <2>1 DEF Prints
<1>14. ASSUME NEW p \in Procs, NEW s \in Streams, Pump(p, s) PROVE StreamsRead'
  <2>1. \A q \in Procs : q # p => read'[q] = read[q]
    BY <1>14 DEF Pump
  <2>2. \A r \in Streams : r # s => read'[p][r] = read[p][r]
    BY <1>14 DEF Pump
  <2>. QED
    BY <1>14, <2>1, <2>2 DEF Pump
<1>15. ASSUME NEW p \in Procs, NEW s \in Streams, PumpEnds(p, s) PROVE StreamsRead'
  <2>1. procKind[p] = "plain" => tree[p] = {} /\ read[p][s] = written[p][s]
    BY <1>15 DEF PumpEnds, SourceEnds
  <2>2. pumping' = [pumping EXCEPT ![p] = pumping[p] \ {s}]
    BY <1>15 DEF PumpEnds
  <2>. QED
    BY <1>15, <2>1, <2>2 DEF PumpEnds
<1>16. ASSUME NEW p \in Procs, NEW w \in Writers, Write(w, p) PROVE StreamsRead'
  BY <1>16 DEF Write, procVars
<1>17. ASSUME NEW p \in Procs, NEW a \in Killers, Kill(a, p) PROVE StreamsRead'
  BY <1>17 DEF Kill, procVars
<1>18. ASSUME NEW p \in Procs, CloseAllTerminates(p) PROVE StreamsRead'
  BY <1>18, <1>t DEF CloseAllTerminates
<1>19. ASSUME NEW w \in Writers, BeginWrite(w) PROVE StreamsRead'
  BY <1>19 DEF BeginWrite, procVars
<1>20. ASSUME NEW w \in Writers, Written(w) PROVE StreamsRead'
  BY <1>20 DEF Written, procVars
<1>21. ASSUME NEW a \in Killers, terminate(a) PROVE StreamsRead'
  <2>1. CASE tree' = tree
    BY <1>21, <2>1 DEF terminate
  <2>2. CASE tree' = Killed(killer[a].on)
    <3>1. \A q \in Procs : tree[q] = {} => tree'[q] = {}
      BY <2>2 DEF Killed
    <3>. QED
      BY <1>21, <3>1 DEF terminate
  <2>. QED
    BY <1>21, <2>1, <2>2 DEF terminate
<1>22. ASSUME NEW a \in Killers, AwaitExit(a) PROVE StreamsRead'
  BY <1>22 DEF AwaitExit, procVars
<1>23. CASE CloseAll
  BY <1>23 DEF CloseAll, procVars
<1>24. CASE CloseAllWaits
  BY <1>24 DEF CloseAllWaits, procVars
<1>25. CASE Exit
  BY <1>25 DEF Exit, processesVars, procVars
<1>26. CASE UNCHANGED processesVars
  BY <1>26 DEF processesVars, procVars
<1>. QED
  BY <1>1, <1>2, <1>3, <1>4, <1>5, <1>6, <1>7, <1>8, <1>9, <1>10, <1>11,
     <1>12, <1>13, <1>14, <1>15, <1>16, <1>17, <1>18, <1>19, <1>20, <1>21,
     <1>22, <1>23, <1>24, <1>25, <1>26
     DEF ProcessesNext, ReapStep

(* The pumps are over before the exit is told. *)
LEMMA ExitToldStep ==
  ProcessShapes /\ StreamsRead /\ ExitTold /\ [ProcessesNext]_processesVars => ExitTold'
<1> SUFFICES ASSUME ProcessShapes, StreamsRead, ExitTold, [ProcessesNext]_processesVars
             PROVE  ExitTold'
    OBVIOUS
<1>a. phase \in [Procs -> Phases]
  BY DEF ProcessShapes
<1> USE DEF ExitTold, Phases, Reaping
<1>1. ASSUME NEW p \in Procs, NEW k \in StartKinds, Start(p, k) PROVE ExitTold'
  BY <1>1, <1>a DEF Start
<1>2. ASSUME NEW p \in Procs, Publish(p) PROVE ExitTold'
  BY <1>2, <1>a DEF Publish
<1>3. ASSUME NEW p \in Procs, Reap(p) PROVE ExitTold'
  BY <1>3, <1>a DEF Reap
<1>4. ASSUME NEW p \in Procs, RootExit(p) PROVE ExitTold'
  BY <1>4, <1>a DEF RootExit, To
<1>5. ASSUME NEW p \in Procs, closeInput(p) PROVE ExitTold'
  BY <1>5, <1>a DEF closeInput, To
<1>6. ASSUME NEW p \in Procs, sweep(p) PROVE ExitTold'
  BY <1>6, <1>a DEF sweep, To
<1>7. ASSUME NEW p \in Procs, streamsWait(p) PROVE ExitTold'
  BY <1>7, <1>a DEF streamsWait, To
<1>8. ASSUME NEW p \in Procs, Unlist(p) PROVE ExitTold'
  BY <1>8, <1>a DEF Unlist, To
<1>9. ASSUME NEW p \in Procs, EmitExit(p) PROVE ExitTold'
  <2>1. phase[p] = "unlisted" /\ phase' = [phase EXCEPT ![p] = "reported"]
    BY <1>9 DEF EmitExit, To
  <2>2. events' = [events EXCEPT ![p] = Append(events[p], "exit")]
    BY <1>9 DEF EmitExit
  <2>3. phase'[p] = "reported" /\ \A q \in Procs \ {p} : phase'[q] = phase[q]
    BY <1>a, <2>1
  <2>4. /\ \A q \in Procs \ {p} : events'[q] = events[q]
        /\ events'[p] # <<>> /\ events'[p][Len(events'[p])] = "exit"
        /\ \A i \in 1..Len(events'[p]) :
             i = Len(events'[p]) \/ (i \in 1..Len(events[p]) /\ events'[p][i] = events[p][i])
    BY <2>2, Reported
  <2>. QED
    BY <2>1, <2>3, <2>4
<1>10. ASSUME NEW p \in Procs, Reaped(p) PROVE ExitTold'
  BY <1>10, <1>a DEF Reaped, To
<1>11. ASSUME NEW p \in Procs, Spawn(p) PROVE ExitTold'
  BY <1>11, <1>a DEF Spawn
<1>12. ASSUME NEW p \in Procs, NEW m \in Members, MemberExits(p, m) PROVE ExitTold'
  BY <1>12, <1>a DEF MemberExits
<1>13. ASSUME NEW p \in Procs, NEW s \in Streams, Prints(p, s) PROVE ExitTold'
  BY <1>13, <1>a DEF Prints
<1>14. ASSUME NEW p \in Procs, NEW s \in Streams, Pump(p, s) PROVE ExitTold'
  <2>1. phase[p] \notin {"reported", "reaped"} /\ phase' = phase
    BY <1>14 DEF Pump, StreamsRead
  <2>2. events' = [events EXCEPT ![p] = Append(events[p], "output")]
    BY <1>14 DEF Pump
  <2>. QED
    BY <2>1, <2>2, Reported
<1>15. ASSUME NEW p \in Procs, NEW s \in Streams, PumpEnds(p, s) PROVE ExitTold'
  BY <1>15, <1>a DEF PumpEnds
<1>16. ASSUME NEW p \in Procs, NEW w \in Writers, Write(w, p) PROVE ExitTold'
  BY <1>16, <1>a DEF Write, procVars
<1>17. ASSUME NEW p \in Procs, NEW a \in Killers, Kill(a, p) PROVE ExitTold'
  BY <1>17, <1>a DEF Kill, procVars
<1>18. ASSUME NEW p \in Procs, CloseAllTerminates(p) PROVE ExitTold'
  BY <1>18, <1>a DEF CloseAllTerminates
<1>19. ASSUME NEW w \in Writers, BeginWrite(w) PROVE ExitTold'
  BY <1>19, <1>a DEF BeginWrite, procVars
<1>20. ASSUME NEW w \in Writers, Written(w) PROVE ExitTold'
  BY <1>20, <1>a DEF Written, procVars
<1>21. ASSUME NEW a \in Killers, terminate(a) PROVE ExitTold'
  BY <1>21, <1>a DEF terminate
<1>22. ASSUME NEW a \in Killers, AwaitExit(a) PROVE ExitTold'
  BY <1>22, <1>a DEF AwaitExit, procVars
<1>23. CASE CloseAll
  BY <1>23, <1>a DEF CloseAll, procVars
<1>24. CASE CloseAllWaits
  BY <1>24, <1>a DEF CloseAllWaits, procVars
<1>25. CASE Exit
  BY <1>25, <1>a DEF Exit, processesVars, procVars
<1>26. CASE UNCHANGED processesVars
  BY <1>26, <1>a DEF processesVars, procVars
<1>. QED
  BY <1>1, <1>2, <1>3, <1>4, <1>5, <1>6, <1>7, <1>8, <1>9, <1>10, <1>11,
     <1>12, <1>13, <1>14, <1>15, <1>16, <1>17, <1>18, <1>19, <1>20, <1>21,
     <1>22, <1>23, <1>24, <1>25, <1>26
     DEF ProcessesNext, ReapStep

(* A group that is dead stays so, and a call is about a process that was   *)
(* started.                                                                *)
LEMMA KillersAimStep ==
  ProcessShapes /\ ProcessListed /\ KillersAim /\ [ProcessesNext]_processesVars => KillersAim'
<1> SUFFICES ASSUME ProcessShapes, ProcessListed, KillersAim, [ProcessesNext]_processesVars
             PROVE  KillersAim'
    OBVIOUS
<1> USE DEF ProcessShapes, KillersAim, Phases, Reaping
<1>a. ASSUME killer' = killer,
             \A p \in Procs : phase[p] \notin {"idle", "refused", "launched"} =>
               /\ phase'[p] \notin {"idle", "refused", "launched"}
               /\ phase[p] = "reaped" => phase'[p] = "reaped"
               /\ tree[p] \subseteq {"escaped"} => tree'[p] \subseteq {"escaped"}
      PROVE  KillersAim'
  BY <1>a
<1>t. ASSUME NEW p \in Procs, tree' = Killed(p)
      PROVE  /\ tree'[p] \subseteq {"escaped"}
             /\ \A q \in Procs : tree[q] \subseteq {"escaped"} => tree'[q] \subseteq {"escaped"}
  BY <1>t DEF Killed, Members
<1>k. ASSUME NEW a \in Killers, killer[a].pc # "idle", NEW q, UNCHANGED phase,
             killer' = [killer EXCEPT ![a] = [killer[a] EXCEPT !.pc = q]],
             \A r \in Procs : tree[r] \subseteq {"escaped"} => tree'[r] \subseteq {"escaped"},
             q \in {"terminated", "answered", "timedOut"} => tree'[killer[a].on] \subseteq {"escaped"},
             q = "answered" => phase[killer[a].on] = "reaped"
      PROVE  KillersAim'
  <2>1. killer'[a].pc = q /\ killer'[a].on = killer[a].on
    BY <1>k DEF KillerStates
  <2>2. \A b \in Killers : b # a => killer'[b] = killer[b]
    BY <1>k
  <2>. QED
    BY <1>k, <2>1, <2>2
<1>1. ASSUME NEW p \in Procs, NEW k \in StartKinds, Start(p, k) PROVE KillersAim'
  <2>1. \A q \in Procs : q # p => phase'[q] = phase[q] /\ tree'[q] = tree[q]
    BY <1>1 DEF Start
  <2>2. phase[p] = "idle" /\ killer' = killer
    BY <1>1 DEF Start
  <2>. QED
    BY <1>a, <2>1, <2>2
<1>2. ASSUME NEW p \in Procs, Publish(p) PROVE KillersAim'
  BY <1>2 DEF Publish
<1>3. ASSUME NEW p \in Procs, Reap(p) PROVE KillersAim'
  BY <1>3 DEF Reap
<1>4. ASSUME NEW p \in Procs, RootExit(p) PROVE KillersAim'
  BY <1>4 DEF RootExit, To
<1>5. ASSUME NEW p \in Procs, closeInput(p) PROVE KillersAim'
  BY <1>5 DEF closeInput, To
<1>6. ASSUME NEW p \in Procs, sweep(p) PROVE KillersAim'
  <2>1. \/ phase[p] = "inputClosed" /\ phase' = [phase EXCEPT ![p] = "swept"]
        \/ phase[p] = "drained" /\ phase' = [phase EXCEPT ![p] = "waited"]
    BY <1>6 DEF sweep, To
  <2>2. killer' = killer /\ tree' = Killed(p)
    BY <1>6 DEF sweep
  <2>. QED
    BY <1>t, <1>a, <2>1, <2>2
<1>7. ASSUME NEW p \in Procs, streamsWait(p) PROVE KillersAim'
  BY <1>7 DEF streamsWait, To
<1>8. ASSUME NEW p \in Procs, Unlist(p) PROVE KillersAim'
  BY <1>8 DEF Unlist, To
<1>9. ASSUME NEW p \in Procs, EmitExit(p) PROVE KillersAim'
  BY <1>9 DEF EmitExit, To
<1>10. ASSUME NEW p \in Procs, Reaped(p) PROVE KillersAim'
  BY <1>10 DEF Reaped, To
<1>11. ASSUME NEW p \in Procs, Spawn(p) PROVE KillersAim'
  <2>1. \A q \in Procs : tree[q] \subseteq {"escaped"} => tree'[q] \subseteq {"escaped"}
    BY <1>11 DEF Spawn, Group
  <2>. QED
    BY <1>11, <1>a, <2>1 DEF Spawn
<1>12. ASSUME NEW p \in Procs, NEW m \in Members, MemberExits(p, m) PROVE KillersAim'
  <2>1. \A q \in Procs : tree[q] \subseteq {"escaped"} => tree'[q] \subseteq {"escaped"}
    BY <1>12 DEF MemberExits
  <2>. QED
    BY <1>12, <1>a, <2>1 DEF MemberExits
<1>13. ASSUME NEW p \in Procs, NEW s \in Streams, Prints(p, s) PROVE KillersAim'
  BY <1>13 DEF Prints
<1>14. ASSUME NEW p \in Procs, NEW s \in Streams, Pump(p, s) PROVE KillersAim'
  BY <1>14 DEF Pump
<1>15. ASSUME NEW p \in Procs, NEW s \in Streams, PumpEnds(p, s) PROVE KillersAim'
  BY <1>15 DEF PumpEnds
<1>16. ASSUME NEW p \in Procs, NEW w \in Writers, Write(w, p) PROVE KillersAim'
  BY <1>16 DEF Write, procVars
<1>17. ASSUME NEW p \in Procs, NEW a \in Killers, Kill(a, p) PROVE KillersAim'
  <2>1. phase' = phase /\ tree' = tree /\ \A b \in Killers : b # a => killer'[b] = killer[b]
    BY <1>17 DEF Kill, procVars
  <2>2. /\ killer'[a].pc \in {"found", "failed"} /\ killer'[a].on = p
        /\ phase[p] \notin {"idle", "refused", "launched"}
    BY <1>17 DEF Kill, Knowable
  <2>. QED
    BY <2>1, <2>2
<1>18. ASSUME NEW p \in Procs, CloseAllTerminates(p) PROVE KillersAim'
  BY <1>18, <1>t, <1>a DEF CloseAllTerminates
<1>19. ASSUME NEW w \in Writers, BeginWrite(w) PROVE KillersAim'
  BY <1>19 DEF BeginWrite, procVars
<1>20. ASSUME NEW w \in Writers, Written(w) PROVE KillersAim'
  BY <1>20 DEF Written, procVars
<1>21. ASSUME NEW a \in Killers, terminate(a) PROVE KillersAim'
  <2>1. killer[a].on \in Procs /\ killer[a].pc = "found" /\ phase' = phase
    BY <1>21 DEF terminate
  <2>2. CASE GroupExists(killer[a].on)
    <3>1. /\ tree' = Killed(killer[a].on)
          /\ killer' = [killer EXCEPT ![a] = [killer[a] EXCEPT !.pc = "terminated"]]
      BY <1>21, <2>2 DEF terminate
    <3>. QED
      BY <1>k, <1>t, <2>1, <3>1
  <2>3. CASE ~GroupExists(killer[a].on)
    <3>1. /\ tree' = tree
          /\ killer' = [killer EXCEPT ![a] = [killer[a] EXCEPT !.pc = "failed"]]
      BY <1>21, <2>3 DEF terminate
    <3>. QED
      BY <1>k, <2>1, <3>1
  <2>. QED
    BY <2>2, <2>3
<1>22. ASSUME NEW a \in Killers, AwaitExit(a) PROVE KillersAim'
  <2>1. killer[a].on \in Procs /\ killer[a].pc = "terminated" /\ tree[killer[a].on] \subseteq {"escaped"}
    BY <1>22 DEF AwaitExit
  <2>2. phase' = phase /\ tree' = tree
    BY <1>22 DEF AwaitExit, procVars
  <2>3. PICK q \in {"answered", "timedOut"} :
          /\ killer' = [killer EXCEPT ![a] = [killer[a] EXCEPT !.pc = q]]
          /\ q = "answered" => phase[killer[a].on] = "reaped"
    BY <1>22 DEF AwaitExit
  <2>. QED
    BY <1>k, <2>1, <2>2, <2>3
<1>23. CASE CloseAll
  BY <1>23 DEF CloseAll, procVars
<1>24. CASE CloseAllWaits
  BY <1>24 DEF CloseAllWaits, procVars
<1>25. CASE Exit
  BY <1>25 DEF Exit, processesVars, procVars
<1>26. CASE UNCHANGED processesVars
  BY <1>26 DEF processesVars, procVars
<1>. QED
  BY <1>1, <1>2, <1>3, <1>4, <1>5, <1>6, <1>7, <1>8, <1>9, <1>10, <1>11,
     <1>12, <1>13, <1>14, <1>15, <1>16, <1>17, <1>18, <1>19, <1>20, <1>21,
     <1>22, <1>23, <1>24, <1>25, <1>26
     DEF ProcessesNext, ReapStep

(* A write goes on only while the input is open: closing it waits for the  *)
(* writer.                                                                 *)
LEMMA WritersAimStep ==
  ProcessShapes /\ WritersAim /\ [ProcessesNext]_processesVars => WritersAim'
<1> SUFFICES ASSUME ProcessShapes, WritersAim, [ProcessesNext]_processesVars
             PROVE  WritersAim'
    OBVIOUS
<1> USE DEF ProcessShapes, WritersAim, Phases, Reaping
<1>1. ASSUME NEW p \in Procs, NEW k \in StartKinds, Start(p, k) PROVE WritersAim'
  <2>1. phase[p] = "idle" /\ writer' = writer
        /\ \A q \in Procs : q # p => phase'[q] = phase[q] /\ running'[q] = running[q]
    BY <1>1 DEF Start
  <2>. QED
    BY <2>1
<1>2. ASSUME NEW p \in Procs, Publish(p) PROVE WritersAim'
  BY <1>2 DEF Publish
<1>3. ASSUME NEW p \in Procs, Reap(p) PROVE WritersAim'
  BY <1>3 DEF Reap
<1>4. ASSUME NEW p \in Procs, RootExit(p) PROVE WritersAim'
  BY <1>4 DEF RootExit, To
<1>5. ASSUME NEW p \in Procs, closeInput(p) PROVE WritersAim'
  BY <1>5 DEF closeInput, To, Writing
<1>6. ASSUME NEW p \in Procs, sweep(p) PROVE WritersAim'
  BY <1>6 DEF sweep, To
<1>7. ASSUME NEW p \in Procs, streamsWait(p) PROVE WritersAim'
  BY <1>7 DEF streamsWait, To
<1>8. ASSUME NEW p \in Procs, Unlist(p) PROVE WritersAim'
  BY <1>8 DEF Unlist, To
<1>9. ASSUME NEW p \in Procs, EmitExit(p) PROVE WritersAim'
  BY <1>9 DEF EmitExit, To
<1>10. ASSUME NEW p \in Procs, Reaped(p) PROVE WritersAim'
  BY <1>10 DEF Reaped, To
<1>11. ASSUME NEW p \in Procs, Spawn(p) PROVE WritersAim'
  BY <1>11 DEF Spawn
<1>12. ASSUME NEW p \in Procs, NEW m \in Members, MemberExits(p, m) PROVE WritersAim'
  BY <1>12 DEF MemberExits
<1>13. ASSUME NEW p \in Procs, NEW s \in Streams, Prints(p, s) PROVE WritersAim'
  BY <1>13 DEF Prints
<1>14. ASSUME NEW p \in Procs, NEW s \in Streams, Pump(p, s) PROVE WritersAim'
  BY <1>14 DEF Pump
<1>15. ASSUME NEW p \in Procs, NEW s \in Streams, PumpEnds(p, s) PROVE WritersAim'
  BY <1>15 DEF PumpEnds
<1>16. ASSUME NEW p \in Procs, NEW w \in Writers, Write(w, p) PROVE WritersAim'
  <2>1. phase' = phase /\ running' = running /\ \A v \in Writers : v # w => writer'[v] = writer[v]
    BY <1>16 DEF Write, procVars
  <2>2. /\ writer'[w].pc \in {"found", "failed"} /\ writer'[w].on = p
        /\ phase[p] \notin {"idle", "refused", "launched"}
    BY <1>16 DEF Write, Knowable
  <2>. QED
    BY <2>1, <2>2
<1>17. ASSUME NEW p \in Procs, NEW a \in Killers, Kill(a, p) PROVE WritersAim'
  BY <1>17 DEF Kill, procVars
<1>18. ASSUME NEW p \in Procs, CloseAllTerminates(p) PROVE WritersAim'
  BY <1>18 DEF CloseAllTerminates
<1>19. ASSUME NEW w \in Writers, BeginWrite(w) PROVE WritersAim'
  <2>1. phase' = phase /\ running' = running /\ \A v \in Writers : v # w => writer'[v] = writer[v]
    BY <1>19 DEF BeginWrite, procVars
  <2>2. /\ writer'[w].on = writer[w].on /\ writer[w].pc = "found"
        /\ writer'[w].pc = "writing" => running[writer[w].on]
    BY <1>19 DEF BeginWrite, WriterStates
  <2>. QED
    BY <2>1, <2>2
<1>20. ASSUME NEW w \in Writers, Written(w) PROVE WritersAim'
  <2>1. phase' = phase /\ running' = running /\ \A v \in Writers : v # w => writer'[v] = writer[v]
    BY <1>20 DEF Written, procVars
  <2>2. /\ writer'[w].on = writer[w].on /\ writer[w].pc = "writing"
        /\ writer'[w].pc = "written"
    BY <1>20 DEF Written, WriterStates
  <2>. QED
    BY <2>1, <2>2
<1>21. ASSUME NEW a \in Killers, terminate(a) PROVE WritersAim'
  BY <1>21 DEF terminate
<1>22. ASSUME NEW a \in Killers, AwaitExit(a) PROVE WritersAim'
  BY <1>22 DEF AwaitExit, procVars
<1>23. CASE CloseAll
  BY <1>23 DEF CloseAll, procVars
<1>24. CASE CloseAllWaits
  BY <1>24 DEF CloseAllWaits, procVars
<1>25. CASE Exit
  BY <1>25 DEF Exit, processesVars, procVars
<1>26. CASE UNCHANGED processesVars
  BY <1>26 DEF processesVars, procVars
<1>. QED
  BY <1>1, <1>2, <1>3, <1>4, <1>5, <1>6, <1>7, <1>8, <1>9, <1>10, <1>11,
     <1>12, <1>13, <1>14, <1>15, <1>16, <1>17, <1>18, <1>19, <1>20, <1>21,
     <1>22, <1>23, <1>24, <1>25, <1>26
     DEF ProcessesNext, ReapStep

(* The invariant holds of every behaviour. *)
THEOREM ProcessesHold == ProcessesSpec => []ProcessesInv
<1>1. ProcessesInv /\ [ProcessesNext]_processesVars => ProcessesInv'
  BY ProcessShapesStep, ProcessListedStep, StreamsReadStep, ExitToldStep, KillersAimStep,
     WritersAimStep DEF ProcessesInv
<1>. QED
  BY ProcessesStart, <1>1, PTL DEF ProcessesSpec

(* The exit is the last event of a process, and of a plain one everything  *)
(* it printed came before.                                                 *)
THEOREM SaysAll == ProcessesSpec => []ExitSaysAll
<1>1. ProcessesInv => ExitSaysAll
  <2> SUFFICES ASSUME ProcessesInv, NEW p \in Procs, NEW i \in 1..Len(events[p]),
                      events[p][i] = "exit"
               PROVE  i = Len(events[p]) /\ (procKind[p] = "plain" => read[p] = written[p])
      BY DEF ExitSaysAll
  <2>1. i = Len(events[p]) /\ pumping[p] = {}
    BY DEF ProcessesInv, ExitTold, StreamsRead
  <2>2. read[p] \in [Streams -> Nat] /\ written[p] \in [Streams -> Nat]
    BY DEF ProcessesInv, ProcessShapes
  <2>3. procKind[p] = "plain" => \A s \in Streams : read[p][s] = written[p][s]
    BY <2>1 DEF ProcessesInv, StreamsRead
  <2>. QED
    BY <2>1, <2>2, <2>3
<1>. QED
  BY ProcessesHold, <1>1, PTL

(* Nobody writes to an input that is closed. *)
THEOREM WritesHold == ProcessesSpec => []WritesToOpenInput
<1>1. ProcessesInv => WritesToOpenInput
  BY DEF ProcessesInv, WritersAim, WritesToOpenInput
<1>. QED
  BY ProcessesHold, <1>1, PTL

(* A Kill answered with success has stopped the group for good, its exit   *)
(* has been told and it is not listed.                                     *)
THEOREM KillsHold == ProcessesSpec => []KilledMeansGone
<1>1. ProcessesInv => KilledMeansGone
  <2> SUFFICES ASSUME ProcessesInv, NEW a \in Killers
               PROVE  LET p == killer[a].on IN
                        /\ killer[a].pc \in {"terminated", "answered", "timedOut"} => Group(p) = {}
                        /\ killer[a].pc = "answered" =>
                             p \notin processes /\ "exit" \in ToSet(events[p])
      BY DEF KilledMeansGone
  <2>1. ASSUME killer[a].pc = "answered"
        PROVE  /\ killer[a].on \notin processes
               /\ "exit" \in ToSet(events[killer[a].on])
    <3> DEFINE p == killer[a].on
    <3>1. p \in Procs /\ phase[p] = "reaped"
      BY <2>1 DEF ProcessesInv, KillersAim
    <3>2. p \notin processes
      BY <3>1 DEF ProcessesInv, ProcessListed
    <3>3. /\ events[p] \in Seq({"output", "exit"}) /\ events[p] # <<>>
          /\ events[p][Len(events[p])] = "exit"
      BY <3>1 DEF ProcessesInv, ExitTold, ProcessShapes
    <3>4. Len(events[p]) \in DOMAIN events[p]
      BY <3>3, EmptySeq, LenProperties
    <3>. QED
      BY <3>2, <3>3, <3>4 DEF ToSet
  <2>2. killer[a].pc \in {"terminated", "answered", "timedOut"} => Group(killer[a].on) = {}
    BY DEF ProcessesInv, KillersAim, Group
  <2>. QED
    BY <2>1, <2>2
<1>. QED
  BY ProcessesHold, <1>1, PTL
=============================================================================
