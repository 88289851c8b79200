--------------------------- MODULE JsonCollection ---------------------------
(***************************************************************************)
(* A file of records, the saved port forwards: JsonCollectionQueryBase     *)
(* reads it whole, changes a record and writes it whole; the calls of      *)
(* PortForwardService do so with an await before each step, and Go         *)
(* truncates the file before it writes.                                    *)
(*                                                                         *)
(* A member of Calls is one call; pc says which await it stands at.        *)
(***************************************************************************)
EXTENDS Naturals, FiniteSets

CONSTANTS
  Ids,       \* the ids of the records
  Ports,     \* the local ports a forward had last, None among them
  MaxCalls,  \* bound: calls made
  None

Calls   == 1..MaxCalls
Records == [port : Ports, stopped : BOOLEAN, restores : BOOLEAN]
Files   == UNION {[S -> Records] : S \in SUBSET Ids}
Empty   == [i \in {} |-> None]

VARIABLES
  file,   \* [whole, recs]: not whole when a shorter text was written over a longer one
  shown,  \* PortForwardStore.forwards, the part that is saved
  call    \* [op, id, to, rec, pc, text, over]; over: another call wrote since this one truncated

vars == <<file, shown, call>>

Unmade == [op |-> "none", id |-> None, to |-> None, rec |-> None, pc |-> "idle", text |-> Empty, over |-> FALSE]

Init ==
  /\ \E recs \in Files : file = [whole |-> TRUE, recs |-> recs] /\ shown = recs
  /\ call = [c \in Calls |-> Unmade]

Fresh(c) == call[c].pc = "idle" /\ \A d \in Calls : d < c => call[d].pc # "idle"

With(recs, id, r)  == [i \in DOMAIN recs \cup {id} |-> IF i = id THEN r ELSE recs[i]]
Without(recs, id)  == [i \in DOMAIN recs \ {id} |-> recs[i]]
Over(recs, id, r)  == IF id \in DOMAIN recs THEN With(recs, id, r) ELSE recs

-----------------------------------------------------------------------------
(* The calls. *)

(* create and remove read the list at once, the others look for the record
   first.  rememberStopped shows what it is going to save. *)
Begins(c, op, id, to) ==
  /\ Fresh(c)
  /\ call' = [call EXCEPT ![c] = [Unmade EXCEPT !.op = op, !.id = id, !.to = to, !.rec = to,
                                    !.pc = IF op \in {"create", "remove"} THEN "reading" ELSE "finding"]]
  /\ UNCHANGED file

create(c, id) ==
  /\ id \notin DOMAIN shown /\ \A d \in Calls : call[d].id # id
  /\ Begins(c, "create", id, [port |-> None, stopped |-> FALSE, restores |-> TRUE])
  /\ UNCHANGED shown

remove(c, id)       == id \in DOMAIN shown /\ Begins(c, "remove", id, None) /\ UNCHANGED shown
update(c, id, mode) == id \in DOMAIN shown /\ Begins(c, "update", id, mode) /\ UNCHANGED shown

rememberPort(c, id, port) ==
  /\ id \in DOMAIN shown /\ port \notin {None, shown[id].port}
  /\ Begins(c, "port", id, port)
  /\ UNCHANGED shown

rememberStopped(c, id) ==
  /\ id \in DOMAIN shown
  /\ shown' = [shown EXCEPT ![id].stopped = ~@]
  /\ Begins(c, "stopped", id, ~shown[id].stopped)

Changed(r, op, to) ==
  CASE op = "port" -> [r EXCEPT !.port = to]
    [] op = "stopped" -> [r EXCEPT !.stopped = to]
    [] op = "update" -> [r EXCEPT !.restores = to]

(* getById: a record that is not there is not saved, which only update calls an
   error; one that is will be saved with everything it holds now. *)
getById(c) ==
  /\ call[c].pc = "finding"
  /\ LET k == call[c]  found == file.whole /\ k.id \in DOMAIN file.recs IN
       call' = IF ~file.whole \/ (~found /\ k.op = "update") THEN [call EXCEPT ![c].pc = "failed"]
               ELSE IF ~found \/ (k.op = "port" /\ file.recs[k.id].port = k.to) THEN [call EXCEPT ![c].pc = "returned"]
               ELSE [call EXCEPT ![c].pc = "reading", ![c].rec = Changed(file.recs[k.id], k.op, k.to)]
  /\ UNCHANGED <<file, shown>>

(* getAll: an empty file is an empty list, one that does not parse an error. *)
getAll(c) ==
  /\ call[c].pc = "reading"
  /\ LET k == call[c] IN
       call' = IF ~file.whole THEN [call EXCEPT ![c].pc = "failed"]
               ELSE [call EXCEPT ![c].pc = "writing",
                       ![c].text = CASE k.op = "create" -> With(file.recs, k.id, k.rec)
                                     [] k.op = "remove" -> Without(file.recs, k.id)
                                     [] OTHER -> Over(file.recs, k.id, k.rec)]
  /\ UNCHANGED <<file, shown>>

(* WriteFile: Truncate(0), then WriteAt. *)
Truncates(c) ==
  /\ call[c].pc = "writing"
  /\ file' = [whole |-> TRUE, recs |-> Empty]
  /\ call' = [call EXCEPT ![c].pc = "truncated", ![c].over = FALSE]
  /\ UNCHANGED shown

(* Over a text another call wrote meanwhile a shorter one leaves its tail. *)
Writes(c) ==
  /\ call[c].pc = "truncated"
  /\ file' \in {[whole |-> whole, recs |-> call[c].text] : whole \in IF call[c].over THEN BOOLEAN ELSE {TRUE}}
  /\ call' = [d \in Calls |-> IF d = c THEN [call[d] EXCEPT !.pc = "returned"]
                              ELSE IF call[d].pc = "truncated" THEN [call[d] EXCEPT !.over = TRUE] ELSE call[d]]
  /\ UNCHANGED shown

(* The answer: what the store shows of it. *)
Answered(c) ==
  /\ call[c].pc \in {"returned", "failed"}
  /\ call' = [call EXCEPT ![c] = [Unmade EXCEPT !.pc = "done", !.id = call[c].id]]
  /\ LET k == call[c]  there == k.id \in DOMAIN shown IN
       shown' = IF k.pc = "failed" THEN shown
                ELSE CASE k.op = "create"  -> With(shown, k.id, k.rec)
                       [] k.op = "remove"  -> Without(shown, k.id)
                       [] k.op = "port"    -> IF there THEN [shown EXCEPT ![k.id].port = k.to] ELSE shown
                       [] k.op = "update"  -> IF there THEN Over(shown, k.id, [k.rec EXCEPT !.stopped = shown[k.id].stopped]) ELSE shown
                       [] k.op = "stopped" -> shown
  /\ UNCHANGED file

Next ==
  \E c \in Calls :
    \/ getById(c) \/ getAll(c) \/ Truncates(c) \/ Writes(c) \/ Answered(c)
    \/ \E id \in Ids :
         \/ create(c, id) \/ remove(c, id) \/ rememberStopped(c, id)
         \/ \E port \in Ports : rememberPort(c, id, port)
         \/ \E mode \in BOOLEAN : update(c, id, mode)

Spec == Init /\ [][Next]_vars

-----------------------------------------------------------------------------
(* Properties. *)

AtRest == \A c \in Calls : call[c].pc \in {"idle", "done"}

(* "Flipped before the write, so a stop pressed while a start is still saving
   is not undone by it" (PortForwardStore rememberStopped): between calls the
   file says of every forward the user stopped that it was stopped, so that the
   next start of the application leaves it alone. *)
StopIsSaved ==
  AtRest => \A id \in DOMAIN shown :
    shown[id].stopped => file.whole /\ id \in DOMAIN file.recs /\ file.recs[id].stopped
=============================================================================
