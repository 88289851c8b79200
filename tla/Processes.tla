----------------------------- MODULE Processes -----------------------------
(***************************************************************************)
(* The Go ProcessService: child processes the webview starts, writes to    *)
(* and kills, with a goroutine per output stream and one that reaps.       *)
(*                                                                         *)
(* A member of Procs is one Start call and the process it may start, of    *)
(* Writers one Write call, of Killers one Kill call.  What runs on the     *)
(* other side of the pipes is the tree of the process: its root, a         *)
(* leftover the root spawned into its process group, and an escaped one    *)
(* that took a group of its own, as the jobs of an interactive shell do.   *)
(* The process group is that of process_unix.go.                           *)
(***************************************************************************)
EXTENDS Naturals, Sequences, SequencesExt

CONSTANTS
  Procs, Writers, Killers,
  StartKinds, \* how a process may be started: "plain", "pty"
  Escapes,    \* whether a child may leave the process group of the root
  MaxChunks,  \* bound: chunks written to one stream
  NoProcess   \* no process

ASSUME ProcessKinds  == StartKinds \subseteq {"plain", "pty"}
ASSUME ProcessBounds == Escapes \in BOOLEAN /\ MaxChunks \in Nat
ASSUME ProcessNone   == NoProcess \notin Procs

VARIABLES
  processes,  \* ProcessService.processes
  phase,      \* how far Start and then reap have come
  procKind,   \* plain or pty
  tree,       \* what is alive of the process
  written,    \* chunks written to each output stream
  read,       \* chunks the pump has read from it and emitted
  pumping,    \* streams whose pump has not returned
  running,    \* managedProcess.running
  events,     \* what the webview is told
  writer,     \* the Write calls
  killer,     \* the Kill calls
  shut,       \* how far CloseAll has come
  snapshot,   \* the processes CloseAll found in the map
  pending     \* those of them it still has to terminate

procVars == <<processes, phase, procKind, tree, written, read, pumping, running, events>>
shutVars == <<shut, snapshot, pending>>
processesVars == <<procVars, writer, killer, shutVars>>

Streams == {"stdout", "stderr"}
Members == {"root", "leftover", "escaped"}

(* Phases between reapers.Add and reapers.Done, in order. *)
Reaping == {"waiting", "exited", "inputClosed", "swept", "drained", "waited",
            "unlisted", "reported"}
Phases  == {"idle", "refused", "launched", "listed", "reaped"} \cup Reaping

(* What SIGKILL to the group reaches. *)
Group(p) == tree[p] \ {"escaped"}
Killed(p) == [tree EXCEPT ![p] = @ \ {"root", "leftover"}]

ProcessesInit ==
  /\ processes = {}
  /\ phase = [p \in Procs |-> "idle"]
  /\ procKind = [p \in Procs |-> "plain"]
  /\ tree = [p \in Procs |-> {}]
  /\ written = [p \in Procs |-> [s \in Streams |-> 0]]
  /\ read = [p \in Procs |-> [s \in Streams |-> 0]]
  /\ pumping = [p \in Procs |-> {}]
  /\ running = [p \in Procs |-> FALSE]
  /\ events = [p \in Procs |-> <<>>]
  /\ writer = [w \in Writers |-> [pc |-> "idle", on |-> NoProcess]]
  /\ killer = [a \in Killers |-> [pc |-> "idle", on |-> NoProcess]]
  /\ shut = "up" /\ snapshot = {} /\ pending = {}

-----------------------------------------------------------------------------
(* Start.                                                                  *)

(* An empty command and a failed spawn are refused. *)
Start(p, k) ==
  /\ shut = "up"
  /\ phase[p] = "idle"
  /\ \/ /\ phase' = [phase EXCEPT ![p] = "refused"]
        /\ UNCHANGED <<procKind, tree, pumping, running>>
     \/ /\ phase' = [phase EXCEPT ![p] = "launched"]
        /\ procKind' = [procKind EXCEPT ![p] = k]
        /\ tree' = [tree EXCEPT ![p] = {"root"}]
        /\ pumping' = [pumping EXCEPT ![p] = IF k = "pty" THEN {"stdout"} ELSE Streams]
        /\ running' = [running EXCEPT ![p] = TRUE]
  /\ UNCHANGED <<processes, written, read, events, writer, killer, shutVars>>

(* The handle is published. *)
Publish(p) ==
  /\ phase[p] = "launched"
  /\ phase' = [phase EXCEPT ![p] = "listed"]
  /\ processes' = processes \cup {p}
  /\ UNCHANGED <<procKind, tree, written, read, pumping, running, events, writer,
                 killer, shutVars>>

(* reapers.Add, and the reaper runs. *)
Reap(p) ==
  /\ phase[p] = "listed"
  /\ phase' = [phase EXCEPT ![p] = "waiting"]
  /\ UNCHANGED <<processes, procKind, tree, written, read, pumping, running, events,
                 writer, killer, shutVars>>

-----------------------------------------------------------------------------
(* The tree of the process.                                                *)

(* The root or a leftover of it starts another one. *)
Spawn(p) ==
  /\ Group(p) # {}
  /\ \E m \in {"leftover"} \cup (IF Escapes THEN {"escaped"} ELSE {}) :
       tree' = [tree EXCEPT ![p] = @ \cup {m}]
  /\ UNCHANGED <<processes, phase, procKind, written, read, pumping, running, events,
                 writer, killer, shutVars>>

MemberExits(p, m) ==
  /\ m \in tree[p]
  /\ tree' = [tree EXCEPT ![p] = @ \ {m}]
  /\ UNCHANGED <<processes, phase, procKind, written, read, pumping, running, events,
                 writer, killer, shutVars>>

(* Anybody alive holds the write ends; on a terminal there is one stream.  *)
Prints(p, s) ==
  /\ tree[p] # {}
  /\ procKind[p] = "pty" => s = "stdout" /\ running[p]
  /\ written[p][s] < MaxChunks
  /\ written' = [written EXCEPT ![p][s] = @ + 1]
  /\ UNCHANGED <<processes, phase, procKind, tree, read, pumping, running, events,
                 writer, killer, shutVars>>

-----------------------------------------------------------------------------
(* The pumps and the reaper.                                               *)

Pump(p, s) ==
  /\ s \in pumping[p] /\ phase[p] # "launched"
  /\ read[p][s] < written[p][s]
  /\ read' = [read EXCEPT ![p][s] = @ + 1]
  /\ events' = [events EXCEPT ![p] = Append(@, "output")]
  /\ UNCHANGED <<processes, phase, procKind, tree, written, pumping, running, writer,
                 killer, shutVars>>

(* A pipe ends when it is empty and nobody holds its write end; a terminal *)
(* ends also when it is closed here, with whatever it still held.          *)
SourceEnds(p, s) ==
  \/ tree[p] = {} /\ read[p][s] = written[p][s]
  \/ procKind[p] = "pty" /\ ~running[p]

PumpEnds(p, s) ==
  /\ s \in pumping[p] /\ phase[p] # "launched"
  /\ SourceEnds(p, s)
  /\ pumping' = [pumping EXCEPT ![p] = @ \ {s}]
  /\ UNCHANGED <<processes, phase, procKind, tree, written, read, running, events,
                 writer, killer, shutVars>>

To(p, from, to) == phase[p] = from /\ phase' = [phase EXCEPT ![p] = to]

(* Wait returns with the exit of the root. *)
RootExit(p) ==
  /\ To(p, "waiting", "exited")
  /\ "root" \notin tree[p]
  /\ UNCHANGED <<processes, procKind, tree, written, read, pumping, running, events,
                 writer, killer, shutVars>>

Writing(p) == {w \in Writers : writer[w].pc = "writing" /\ writer[w].on = p}

(* Mutant: the input is closed under the feet of a writer. *)
closeInputUnlocked(p) ==
  /\ To(p, "exited", "inputClosed")
  /\ running' = [running EXCEPT ![p] = FALSE]
  /\ UNCHANGED <<processes, procKind, tree, written, read, pumping, events, writer,
                 killer, shutVars>>

(* The input mutex is taken first. *)
closeInput(p) ==
  /\ To(p, "exited", "inputClosed")
  /\ Writing(p) = {}
  /\ running' = [running EXCEPT ![p] = FALSE]
  /\ UNCHANGED <<processes, procKind, tree, written, read, pumping, events, writer,
                 killer, shutVars>>

(* Mutant: the readers of a plain process are awaited before the sweep. *)
sweepLast(p) ==
  /\ \/ To(p, "inputClosed", "swept") /\ pumping[p] = {} /\ procKind[p] = "plain"
     \/ procKind[p] = "pty" /\ To(p, "drained", "waited")
  /\ tree' = Killed(p)
  /\ UNCHANGED <<processes, procKind, written, read, pumping, running, events, writer,
                 killer, shutVars>>

(* group.close, before the readers are awaited or after, by kind. *)
sweep(p) ==
  /\ \/ procKind[p] = "plain" /\ To(p, "inputClosed", "swept")
     \/ procKind[p] = "pty" /\ To(p, "drained", "waited")
  /\ tree' = Killed(p)
  /\ UNCHANGED <<processes, procKind, written, read, pumping, running, events, writer,
                 killer, shutVars>>

(* Mutant: the streams are not awaited. *)
streamsUnawaited(p) ==
  /\ \/ procKind[p] = "plain" /\ To(p, "swept", "waited")
     \/ procKind[p] = "pty" /\ To(p, "inputClosed", "drained")
  /\ UNCHANGED <<processes, procKind, tree, written, read, pumping, running, events,
                 writer, killer, shutVars>>

(* streams.Wait. *)
streamsWait(p) ==
  /\ \/ procKind[p] = "plain" /\ To(p, "swept", "waited")
     \/ procKind[p] = "pty" /\ To(p, "inputClosed", "drained")
  /\ pumping[p] = {}
  /\ UNCHANGED <<processes, procKind, tree, written, read, pumping, running, events,
                 writer, killer, shutVars>>

Unlist(p) ==
  /\ To(p, "waited", "unlisted")
  /\ processes' = processes \ {p}
  /\ UNCHANGED <<procKind, tree, written, read, pumping, running, events, writer,
                 killer, shutVars>>

EmitExit(p) ==
  /\ To(p, "unlisted", "reported")
  /\ events' = [events EXCEPT ![p] = Append(@, "exit")]
  /\ UNCHANGED <<processes, procKind, tree, written, read, pumping, running, writer,
                 killer, shutVars>>

(* close(done), then the reaper's wait group is told. *)
Reaped(p) ==
  /\ To(p, "reported", "reaped")
  /\ UNCHANGED <<processes, procKind, tree, written, read, pumping, running, events,
                 writer, killer, shutVars>>

-----------------------------------------------------------------------------
(* Write and Kill.                                                         *)

(* The id is out once Start has answered, or from the list. *)
Knowable(p) == phase[p] \in {"listed", "reaped"} \cup Reaping

Write(w, p) ==
  /\ shut = "up"
  /\ writer[w].pc = "idle" /\ Knowable(p)
  /\ writer' = [writer EXCEPT ![w] =
       [pc |-> IF p \in processes THEN "found" ELSE "failed", on |-> p]]
  /\ UNCHANGED <<procVars, killer, shutVars>>

(* The input mutex is free: the flag is looked at under it. *)
BeginWrite(w) ==
  /\ writer[w].pc = "found"
  /\ Writing(writer[w].on) = {}
  /\ writer' = [writer EXCEPT ![w].pc = IF running[writer[w].on] THEN "writing" ELSE "failed"]
  /\ UNCHANGED <<procVars, killer, shutVars>>

(* Somebody reads what was written, or nobody is left to. *)
Written(w) ==
  /\ writer[w].pc = "writing"
  /\ writer' = [writer EXCEPT ![w].pc = "written"]
  /\ UNCHANGED <<procVars, killer, shutVars>>

Kill(a, p) ==
  /\ shut = "up"
  /\ killer[a].pc = "idle" /\ Knowable(p)
  /\ killer' = [killer EXCEPT ![a] =
       [pc |-> IF p \in processes THEN "found" ELSE "failed", on |-> p]]
  /\ UNCHANGED <<procVars, writer, shutVars>>

(* kill(2) finds the group: a member alive, or the root not waited for.    *)
GroupExists(p) == Group(p) # {} \/ phase[p] \in {"launched", "listed", "waiting"}

terminate(a) ==
  /\ killer[a].pc = "found"
  /\ LET p == killer[a].on IN
       IF GroupExists(p)
       THEN /\ tree' = Killed(p)
            /\ killer' = [killer EXCEPT ![a].pc = "terminated"]
       ELSE /\ killer' = [killer EXCEPT ![a].pc = "failed"]
            /\ UNCHANGED tree
  /\ UNCHANGED <<processes, phase, procKind, written, read, pumping, running, events,
                 writer, shutVars>>

(* Mutant: the answer is given as soon as the handle has left the map. *)
AwaitUnlisted(a) ==
  /\ killer[a].pc = "terminated"
  /\ \/ killer[a].on \notin processes /\ killer' = [killer EXCEPT ![a].pc = "answered"]
     \/ killer' = [killer EXCEPT ![a].pc = "timedOut"]
  /\ UNCHANGED <<procVars, writer, shutVars>>

(* done, or the five seconds are over. *)
AwaitExit(a) ==
  /\ killer[a].pc = "terminated"
  /\ \/ phase[killer[a].on] = "reaped" /\ killer' = [killer EXCEPT ![a].pc = "answered"]
     \/ killer' = [killer EXCEPT ![a].pc = "timedOut"]
  /\ UNCHANGED <<procVars, writer, shutVars>>

-----------------------------------------------------------------------------
(* CloseAll, the shutdown.                                                 *)

CloseAll ==
  /\ shut = "up"
  /\ shut' = "terminating"
  /\ snapshot' = processes /\ pending' = processes
  /\ UNCHANGED <<procVars, writer, killer>>

CloseAllTerminates(p) ==
  /\ shut = "terminating" /\ p \in pending
  /\ tree' = Killed(p)
  /\ pending' = pending \ {p}
  /\ UNCHANGED <<processes, phase, procKind, written, read, pumping, running, events,
                 writer, killer, shut, snapshot>>

(* reapers.Wait. *)
CloseAllWaits ==
  /\ shut = "terminating" /\ pending = {}
  /\ \A p \in Procs : phase[p] \notin Reaping
  /\ shut' = "down"
  /\ UNCHANGED <<procVars, writer, killer, snapshot, pending>>

-----------------------------------------------------------------------------
ReapStep(p) ==
  \/ RootExit(p) \/ closeInput(p) \/ sweep(p) \/ streamsWait(p)
  \/ Unlist(p) \/ EmitExit(p) \/ Reaped(p)

(* The application may go as soon as the shutdown is over. *)
Exit == shut = "down" /\ UNCHANGED processesVars

ProcessesNext ==
  \/ \E p \in Procs, k \in StartKinds : Start(p, k)
  \/ \E p \in Procs :
       \/ Publish(p) \/ Reap(p) \/ ReapStep(p)
       \/ Spawn(p) \/ (\E m \in Members : MemberExits(p, m))
       \/ \E s \in Streams : Prints(p, s) \/ Pump(p, s) \/ PumpEnds(p, s)
       \/ \E w \in Writers : Write(w, p)
       \/ \E a \in Killers : Kill(a, p)
       \/ CloseAllTerminates(p)
  \/ \E w \in Writers : BeginWrite(w) \/ Written(w)
  \/ \E a \in Killers : terminate(a) \/ AwaitExit(a)
  \/ CloseAll \/ CloseAllWaits \/ Exit

(* Goroutines that can run do.  Nobody is bound to exit, to print or to    *)
(* read its input: a write ends for certain only when the read end of a    *)
(* plain process has no holder left.                                       *)
ProcessesFairness ==
  /\ \A p \in Procs :
       /\ WF_processesVars(Publish(p)) /\ WF_processesVars(Reap(p))
       /\ WF_processesVars(ReapStep(p))
       /\ WF_processesVars(CloseAllTerminates(p))
       /\ \A s \in Streams :
            WF_processesVars(Pump(p, s)) /\ WF_processesVars(PumpEnds(p, s))
  /\ \A w \in Writers :
       /\ WF_processesVars(BeginWrite(w))
       /\ WF_processesVars(writer[w].pc = "writing" /\ procKind[writer[w].on] = "plain"
                           /\ tree[writer[w].on] = {} /\ Written(w))
  /\ \A a \in Killers : WF_processesVars(terminate(a)) /\ WF_processesVars(AwaitExit(a))
  /\ WF_processesVars(CloseAllWaits)

ProcessesSpec     == ProcessesInit /\ [][ProcessesNext]_processesVars
ProcessesFairSpec == ProcessesSpec /\ ProcessesFairness

-----------------------------------------------------------------------------
(* Properties.                                                             *)

(* Every variable keeps its type. *)
ProcessesTypeOK ==
  /\ processes \subseteq Procs
  /\ phase \in [Procs -> Phases]
  /\ procKind \in [Procs -> {"plain", "pty"}]
  /\ tree \in [Procs -> SUBSET Members]
  /\ written \in [Procs -> [Streams -> 0..MaxChunks]]
  /\ read \in [Procs -> [Streams -> 0..MaxChunks]]
  /\ pumping \in [Procs -> SUBSET Streams]
  /\ running \in [Procs -> BOOLEAN]
  /\ events \in [Procs -> Seq({"output", "exit"})]
  /\ writer \in [Writers -> [pc : {"idle", "found", "failed", "writing", "written"},
                             on : Procs \cup {NoProcess}]]
  /\ killer \in [Killers -> [pc : {"idle", "found", "failed", "terminated", "answered",
                                   "timedOut"}, on : Procs \cup {NoProcess}]]
  /\ shut \in {"up", "terminating", "down"}
  /\ snapshot \subseteq Procs /\ pending \subseteq snapshot

(* The exit is the last the webview hears of a process, and for a plain    *)
(* one everything that was printed, by whatever the root left behind too,  *)
(* has been said before it.                                                *)
ExitSaysAll ==
  \A p \in Procs : \A i \in 1..Len(events[p]) : events[p][i] = "exit" =>
    /\ i = Len(events[p])
    /\ procKind[p] = "plain" => read[p] = written[p]

(* Nobody writes to an input that is closed, or to one about to be: the    *)
(* descriptor could be another file's by then.                             *)
WritesToOpenInput ==
  \A w \in Writers : writer[w].pc = "writing" => running[writer[w].on]

(* A Kill that is answered with success has stopped the whole group, the   *)
(* exit has been told and the process is not listed any more.              *)
KilledMeansGone ==
  \A a \in Killers : LET p == killer[a].on IN
    /\ killer[a].pc \in {"terminated", "answered", "timedOut"} => Group(p) = {}
    /\ killer[a].pc = "answered" => p \notin processes /\ "exit" \in ToSet(events[p])

(* What the root left behind in its group does not keep its exit from      *)
(* being reported; only a child that left the group can, by holding the    *)
(* pipes, and a write that never ends.                                     *)
Holdup(p) == "escaped" \in tree[p] \/ Writing(p) # {}
ExitIsReported ==
  \A p \in Procs :
    (phase[p] = "waiting" /\ "root" \notin tree[p])
      ~> (phase[p] = "reaped" \/ []Holdup(p))

(* Kill ends a plain process also when a writer hangs in its input, unless *)
(* a child that left the group holds its pipes for good.                   *)
KillEndsProcess ==
  \A a \in Killers, p \in Procs :
    (killer[a].pc = "terminated" /\ killer[a].on = p /\ procKind[p] = "plain")
      ~> ([](p \notin processes) \/ []("escaped" \in tree[p]))

(* CloseAll returns, unless a process is held up for good or one that it   *)
(* could not see when it made its list goes on.                            *)
CloseAllReturns ==
  (shut = "terminating") ~>
    (shut = "down" \/ [](\E p \in Procs : Holdup(p) \/ (p \notin snapshot /\ "root" \in tree[p])))

(* A process ends for its listeners and for whoever waits for it, by itself, *)
(* by Kill and by the shutdown, but for what the three parts except.         *)
ProcessesEnd == ExitIsReported /\ KillEndsProcess /\ CloseAllReturns
=============================================================================
