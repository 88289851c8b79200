-------------------------- MODULE ManifestEditProofs --------------------------
(***************************************************************************)
(* Proofs about what the frontend shows of the cluster: ManifestEdit, for  *)
(* any leaves, fields and values of an object, any schema of its kind, any *)
(* number of loads and of versions; and ResourceWatch, for any namespaces, *)
(* any number of refreshes, streams and changes, and any limits.           *)
(***************************************************************************)
EXTENDS ManifestEdit, ResourceWatch, SequenceTheorems, TLAPS

(* A manifest is a version and the values of the leaves; one the cluster serves
   has a version. *)
Manifest(m) == m = [rv |-> m.rv, val |-> m.val]
Versioned(m) == Manifest(m) /\ m.rv \in Nat

(* The draft is over the version of the object it is drawn from, whatever is
   loaded, typed into its leaves or taken over meanwhile, unless its version line
   was typed over; the tab is there only over an object; and a request that is
   sent names the version the operator had before them, or the one they typed. *)
DraftOverObject ==
  /\ draft.rv = object.rv \/ retyped
  /\ open.yaml => Versioned(object) /\ Manifest(draft)
Manifests ==
  /\ Versioned(cluster)
  /\ (object # None => Versioned(object)) /\ (Manifest(object) => Manifest(draft))
  /\ conflict # None => Versioned(conflict)
  /\ \A i \in Loads : load[i].step = "read" => Versioned(load[i].got)
  /\ call # None /\ call.step \in {"read", "differs"} => Versioned(call.got)
SendsShown ==
  At("sent") => /\ VersionSent(call) = call.edited.rv
                /\ call.edited.rv = call.shown \/ call.typed
                /\ call.shown \in Nat
EditInv == DraftOverObject /\ Manifests /\ SendsShown

(* The shapes of the panel's state and of a call of load. *)
Slot(c) == c = [step |-> c.step, got |-> c.got]
Shapes ==
  /\ open = [panel |-> open.panel, yaml |-> open.yaml]
  /\ DOMAIN load = Loads /\ \A i \in Loads : Slot(load[i])

(* Every action keeps the shapes. *)
LEMMA ShapesStep == Shapes /\ [Next]_vars => Shapes'
<1> SUFFICES ASSUME Shapes, [Next]_vars PROVE Shapes'
    OBVIOUS
<1>1. ASSUME NEW i \in Loads, NEW c, Slot(c), load' = [load EXCEPT ![i] = c]
      PROVE  DOMAIN load' = Loads /\ \A j \in Loads : Slot(load'[j])
  BY <1>1 DEF Shapes
<1>2. ASSUME NEW i \in Loads, loadBegins(i) PROVE DOMAIN load' = Loads /\ \A j \in Loads : Slot(load'[j])
  <2> DEFINE c == [step |-> "asked", got |-> load[i].got]
  <2>1. load[i] = [step |-> load[i].step, got |-> load[i].got]
    BY DEF Shapes, Slot
  <2>2. [load[i] EXCEPT !.step = "asked"] = c
    BY <2>1
  <2>3. load' = [load EXCEPT ![i] = c] /\ Slot(c)
    BY <1>2, <2>2 DEF loadBegins, Slot
  <2>. QED
    BY <1>1, <2>3
<1>3. DOMAIN load' = Loads /\ \A j \in Loads : Slot(load'[j])
  <2>1. CASE UNCHANGED load
    BY <2>1 DEF Shapes, Slot
  <2>2. ASSUME NEW i \in Loads, Opens(i) \/ Retries(i) PROVE DOMAIN load' = Loads /\ \A j \in Loads : Slot(load'[j])
    BY <1>2, <2>2 DEF Opens, Retries
  <2>3. ASSUME NEW i \in Loads, LoadServed(i) \/ Loaded(i) \/ LoadFails(i)
        PROVE  DOMAIN load' = Loads /\ \A j \in Loads : Slot(load'[j])
    <3>1. PICK x, g : load' = [load EXCEPT ![i] = [step |-> x, got |-> g]]
      BY <2>3 DEF LoadServed, Loaded, LoadFails
    <3>2. Slot([step |-> x, got |-> g])
      BY DEF Slot
    <3>. QED
      BY <1>1, <3>1, <3>2
  <2>4. UNCHANGED load \/ \E i \in Loads : Opens(i) \/ Retries(i) \/ LoadServed(i) \/ Loaded(i) \/ LoadFails(i)
    BY DEF Next, vars, Types, Retypes, OthersWrite, openTab, Closes, cancelYamlEdit, startEditing, revert, apply, reapply, applies,
           takeConflict, dismissConflict, Accepted, Conflicts, ReadBack, Applied, ConflictShown, ApplyFails
  <2>. QED
    BY <2>1, <2>2, <2>3, <2>4
<1>4. open' = [panel |-> open'.panel, yaml |-> open'.yaml]
  <2>1. open' \in {open, [open EXCEPT !.panel = TRUE], [open EXCEPT !.yaml = TRUE], [panel |-> FALSE, yaml |-> FALSE]}
    BY DEF Shapes, Next, vars, tab, Opens, Retries, LoadServed, Loaded, LoadFails, Types, Retypes, OthersWrite, openTab, Closes,
           cancelYamlEdit, startEditing, revert, apply, reapply, applies, takeConflict, dismissConflict, Accepted,
           Conflicts, ReadBack, Applied, ConflictShown, ApplyFails
  <2>. QED
    BY <2>1 DEF Shapes
<1>. QED
  BY <1>3, <1>4 DEF Shapes

(* A plan that neither replaces the object nor sends its metadata is one for a
   document of the same version: whatever a plan sends, it names the document's. *)
LEMMA PlanNamesItsVersion ==
  ASSUME NEW current, NEW edited, NEW c,
         c.mode = plan(current, edited).mode, c.fields = plan(current, edited).fields,
         c.current = current, c.edited = edited, plan(current, edited).mode # "noop"
  PROVE  VersionSent(c) = edited.rv
<1>1. CASE plan(current, edited).mode = "replace"
  BY <1>1 DEF VersionSent
<1>2. CASE plan(current, edited).mode # "replace"
  <2>1. plan(current, edited).fields = changedFields(current, edited) \ ClusterOwned
    BY <1>2 DEF plan
  <2>2. current.rv = edited.rv \/ Metadata \in plan(current, edited).fields
    BY <2>1, Schema DEF changedFields
  <2>. QED
    BY <2>2 DEF VersionSent
<1>. QED
  BY <1>1, <1>2

(* What is sent names the version that is shown, or the one that was typed. *)
LEMMA SentIsShown ==
  ASSUME NEW edited, NEW shown, NEW typed, edited.rv = shown \/ typed, shown \in Nat,
         Sends(edited, shown, typed)
  PROVE  SendsShown'
<1>1. /\ call' = [step |-> "sent", mode |-> plan(object, edited).mode, fields |-> plan(object, edited).fields,
                  current |-> object, edited |-> edited, shown |-> shown, typed |-> typed]
      /\ plan(object, edited).mode # "noop"
  BY DEF Sends
<1> DEFINE c == call'
<1>2. /\ c.mode = plan(object, edited).mode /\ c.fields = plan(object, edited).fields
      /\ c.current = object /\ c.edited = edited /\ c.shown = shown /\ c.typed = typed
  BY <1>1
<1>3. VersionSent(c) = edited.rv
  BY <1>1, <1>2, PlanNamesItsVersion
<1>. QED
  BY <1>2, <1>3 DEF SendsShown, VersionSent

(* What leaves the request alone leaves alone what it names. *)
LEMMA SentKept ==
  ASSUME EditInv, UNCHANGED call
  PROVE  SendsShown'
BY DEF EditInv, SendsShown, At, VersionSent

(* Every action keeps the draft over its object and the request over what is shown. *)
LEMMA EditStep == Shapes /\ EditInv /\ [Next]_vars => EditInv'
<1> SUFFICES ASSUME Shapes, EditInv, [Next]_vars PROVE EditInv'
    OBVIOUS
<1> USE DEF EditInv
<1>1. CASE UNCHANGED vars
  BY <1>1 DEF vars, stored, tab, text, DraftOverObject, Manifests, SendsShown, At, VersionSent
<1>2. ASSUME NEW i \in Loads, Opens(i) \/ Retries(i) PROVE EditInv'
  <2>1. UNCHANGED <<cluster, object, conflict, call, text>> /\ open'.yaml = open.yaml
    BY <1>2 DEF Opens, Retries, tab, Shapes
  <2>2. \A j \in Loads : load'[j].step = "read" => load[j].step = "read" /\ load'[j].got = load[j].got
    <3>1. load[i] = [step |-> load[i].step, got |-> load[i].got] /\ DOMAIN load = Loads
      BY DEF Shapes, Slot
    <3>. QED
      BY <1>2, <3>1 DEF Opens, Retries, loadBegins
  <2>. QED
    BY <2>1, <2>2, SentKept DEF DraftOverObject, Manifests, text, Draws
<1>3. ASSUME NEW i \in Loads, LoadServed(i) PROVE EditInv'
  <2>1. UNCHANGED <<cluster, object, conflict, call, text, open>>
    BY <1>3 DEF LoadServed, stored, tab
  <2>2. \A j \in Loads : load'[j].step = "read" =>
          \/ load[j].step = "read" /\ load'[j].got = load[j].got
          \/ load'[j].got = cluster
    BY <1>3 DEF LoadServed
  <2>. QED
    BY <2>1, <2>2, SentKept DEF DraftOverObject, Manifests, text, Draws
<1>4. ASSUME NEW manifest, Versioned(manifest), Redraws(manifest), UNCHANGED open
      PROVE  DraftOverObject' /\ Versioned(object') /\ Manifest(draft')
  <2>1. CASE manifest = object
    <3>1. object' = object /\ UNCHANGED <<text, open>> /\ Versioned(object)
      BY <1>4, <2>1 DEF Redraws
    <3>. QED
      BY <3>1 DEF DraftOverObject, Manifests, text, Versioned
  <2>2. CASE manifest # object
    BY <1>4, <2>2 DEF Redraws, Draws, DraftOverObject, Versioned
  <2>. QED
    BY <2>1, <2>2
<1>5. ASSUME NEW i \in Loads, Loaded(i) PROVE EditInv'
  <2>1. Versioned(load[i].got) /\ Redraws(load[i].got) /\ conflict' = None /\ UNCHANGED <<cluster, call, open>>
    BY <1>5 DEF Loaded, Manifests
  <2>2. \A j \in Loads : load'[j].step = "read" => load[j].step = "read" /\ load'[j].got = load[j].got
    BY <1>5 DEF Loaded
  <2>. QED
    BY <1>4, <2>1, <2>2, SentKept DEF Manifests, Versioned
<1>6. ASSUME NEW i \in Loads, LoadFails(i) PROVE EditInv'
  <2>1. UNCHANGED <<cluster, object, conflict, call, open>> /\ (UNCHANGED text \/ Draws(object))
    BY <1>6 DEF LoadFails, Stops
  <2>2. \A j \in Loads : load'[j].step = "read" => load[j].step = "read" /\ load'[j].got = load[j].got
    BY <1>6 DEF LoadFails
  <2>. QED
    BY <2>1, <2>2, SentKept DEF DraftOverObject, Manifests, text, Draws, Versioned
<1>7. CASE openTab
  BY <1>7, SentKept DEF openTab, stored, text, DraftOverObject, Manifests, Versioned
<1>8. CASE Closes \/ cancelYamlEdit \/ startEditing \/ revert
  <2>1. /\ UNCHANGED <<cluster, object, conflict, call, load>> /\ (UNCHANGED text \/ Draws(object))
        /\ open'.yaml => open.yaml
    BY <1>8 DEF Closes, cancelYamlEdit, startEditing, revert, stored, Stops, Draws, text
  <2>. QED
    BY <2>1, SentKept DEF DraftOverObject, Manifests, text, Draws, Versioned
<1>9. ASSUME NEW l \in Leaves, NEW v, Types(l, v) PROVE EditInv'
  <2>1. Manifest(draft) /\ draft' = [draft EXCEPT !.val[l] = v] /\ UNCHANGED <<cluster, stored, load, call, open, retyped>>
    BY <1>9 DEF Types, Mounted, DraftOverObject
  <2>2. draft' = [rv |-> draft.rv, val |-> [draft.val EXCEPT ![l] = v]]
    BY <2>1 DEF Manifest
  <2>3. Manifest(draft') /\ draft'.rv = draft.rv
    BY <2>2 DEF Manifest
  <2>. QED
    BY <2>1, <2>3, SentKept DEF stored, DraftOverObject, Manifests
<1>23. ASSUME NEW v, Retypes(v) PROVE EditInv'
  <2>1. /\ Manifest(draft) /\ draft' = [draft EXCEPT !.rv = v] /\ retyped'
        /\ UNCHANGED <<cluster, stored, load, call, open>>
    BY <1>23 DEF Retypes, Mounted, DraftOverObject
  <2>2. draft' = [rv |-> v, val |-> draft.val]
    BY <2>1 DEF Manifest
  <2>3. Manifest(draft')
    BY <2>2 DEF Manifest
  <2>. QED
    BY <2>1, <2>3, SentKept DEF stored, DraftOverObject, Manifests
<1>10. ASSUME NEW edited, NEW shown, NEW typed, edited.rv = shown \/ typed, shown \in Nat,
             applies(edited, shown, typed)
      PROVE  EditInv'
  <2>1. UNCHANGED <<cluster, object, load, open>> /\ (UNCHANGED text \/ Draws(object)) /\ conflict' = None
    BY <1>10 DEF applies, Unsupported, MeansTheSame, Sends, Stops
  <2>2. SendsShown' /\ (call' = call \/ call'.step = "sent")
    <3>1. CASE Sends(edited, shown, typed)
      BY <1>10, <3>1, SentIsShown DEF Sends
    <3>2. CASE UNCHANGED call
      BY <3>2, SentKept
    <3>. QED
      BY <1>10, <3>1, <3>2 DEF applies, Unsupported, MeansTheSame
  <2>. QED
    BY <2>1, <2>2 DEF DraftOverObject, Manifests, text, Draws, Versioned
<1>11. CASE apply
  BY <1>10, <1>11 DEF apply, Mounted, DraftOverObject, Versioned
<1>12. CASE reapply
  <2>1. /\ Manifest(draft) /\ rebase(draft) = [draft EXCEPT !.rv = conflict.rv] /\ conflict.rv \in Nat
        /\ applies(rebase(draft), conflict.rv, FALSE)
    BY <1>12 DEF reapply, rebase, Mounted, DraftOverObject, Manifests, Versioned
  <2>2. rebase(draft).rv = conflict.rv
    BY <2>1 DEF Manifest
  <2>. QED
    BY <1>10, <2>1, <2>2
<1>13. CASE takeConflict
  <2>1. Versioned(conflict) /\ Redraws(conflict) /\ conflict' = None /\ UNCHANGED <<cluster, load, call, open>>
    BY <1>13 DEF takeConflict, Manifests
  <2>. QED
    BY <1>4, <2>1, SentKept DEF Manifests, Versioned
<1>14. CASE dismissConflict
  BY <1>14, SentKept DEF dismissConflict, tab, text, DraftOverObject, Manifests
<1>15. ASSUME NEW val, Saved(val) PROVE Versioned(cluster')
  BY <1>15 DEF Saved, Versioned, Manifest, Manifests
<1>16. CASE Accepted
  <2>1. /\ Versioned(cluster') /\ UNCHANGED <<object, conflict, load, text, open>>
        /\ call' = [step |-> "written", got |-> None]
    BY <1>15, <1>16 DEF Accepted, Awaits, stored, tab
  <2>. QED
    BY <2>1 DEF DraftOverObject, Manifests, text, Draws, SendsShown, At
<1>17. CASE Conflicts
  <2>1. UNCHANGED <<cluster, object, conflict, load, text, open>> /\ call' = [step |-> "refused", got |-> None]
    BY <1>17 DEF Conflicts, Awaits, stored, tab
  <2>. QED
    BY <2>1 DEF DraftOverObject, Manifests, text, Draws, SendsShown, At
<1>18. CASE ReadBack
  <2>1. /\ UNCHANGED <<cluster, object, conflict, load, text, open>>
        /\ call'.step # "sent" /\ call'.got = cluster
    BY <1>18 DEF ReadBack, Awaits, stored, tab
  <2>. QED
    BY <2>1 DEF DraftOverObject, Manifests, text, Draws, SendsShown, At
<1>19. CASE Applied
  <2>1. /\ Versioned(call.got) /\ Manifest(call.got) /\ object' = call.got /\ Draws(call.got) /\ call' = None
        /\ UNCHANGED <<cluster, conflict, load, open>>
    BY <1>19 DEF Applied, At, Manifests, Versioned
  <2>. QED
    BY <2>1 DEF DraftOverObject, Manifests, text, Draws, SendsShown, At
<1>20. CASE ConflictShown
  <2>1. /\ Versioned(call.got) /\ conflict' = call.got /\ call' = None
        /\ UNCHANGED <<cluster, object, load, text, open>>
    BY <1>20 DEF ConflictShown, At, Manifests, tab
  <2>. QED
    BY <2>1 DEF DraftOverObject, Manifests, text, Draws, SendsShown, At
<1>21. CASE ApplyFails
  BY <1>21 DEF ApplyFails, stored, tab, text, DraftOverObject, Manifests, SendsShown, At
<1>22. ASSUME NEW l \in Leaves, NEW v, OthersWrite(l, v) PROVE EditInv'
  <2>1. Versioned(cluster') /\ UNCHANGED <<object, conflict, load, call, text, open>>
    BY <1>15, <1>22 DEF OthersWrite, stored, tab
  <2>. QED
    BY <2>1, SentKept DEF DraftOverObject, Manifests, text, Draws
<1>. QED
  BY <1>1, <1>2, <1>3, <1>5, <1>6, <1>7, <1>8, <1>9, <1>11, <1>12, <1>13, <1>14, <1>16, <1>17, <1>18, <1>19, <1>20,
     <1>21, <1>22, <1>23 DEF Next

(* The inductive invariant: the draft is over the object's version and a
   request names the version the operator had before them when it was sent,
   save where the version line was typed over. *)
THEOREM DraftsHold == Spec => []EditInv
<1>1. Init => EditInv
  BY DEF Init, EditInv, DraftOverObject, Manifests, SendsShown, At, Versioned, Manifest
<1>2. Init => Shapes
  BY DEF Init, Shapes, Slot
<1>. QED
  BY <1>1, <1>2, ShapesStep, EditStep, PTL DEF Spec

(* Only the API server that takes the write makes it written. *)
LEMMA WritesIsAccepted ==
  ASSUME [Next]_vars, Writes
  PROVE  Accepted
<1>1. At("sent") /\ call' # None /\ call'.step = "written"
  BY DEF Writes
<1>2. ~UNCHANGED call
  BY <1>1 DEF At
<1>9. ASSUME NEW edited, NEW shown, NEW typed, applies(edited, shown, typed) PROVE FALSE
  BY <1>1, <1>2, <1>9 DEF applies, Unsupported, MeansTheSame, Sends
<1>3. ~apply /\ ~reapply
  BY <1>9 DEF apply, reapply
<1>4. ~UNCHANGED vars
  BY <1>2 DEF vars
<1>5. ~ReadBack /\ ~Conflicts /\ ~Applied /\ ~ConflictShown /\ ~ApplyFails
  BY <1>1 DEF ReadBack, Conflicts, Applied, ConflictShown, ApplyFails, Awaits, At
<1>6. \A i \in Loads : ~Opens(i) /\ ~Retries(i) /\ ~LoadServed(i) /\ ~Loaded(i) /\ ~LoadFails(i)
  BY <1>2 DEF Opens, Retries, LoadServed, Loaded, LoadFails
<1>7. /\ \A l \in Leaves : \A v \in Choices[l] : ~Types(l, v) /\ ~OthersWrite(l, v)
      /\ \A v \in Typed : ~Retypes(v)
  BY <1>2 DEF Types, Retypes, OthersWrite
<1>8. ~openTab /\ ~Closes /\ ~cancelYamlEdit /\ ~startEditing /\ ~revert /\ ~takeConflict /\ ~dismissConflict
  BY <1>2 DEF openTab, Closes, cancelYamlEdit, startEditing, revert, takeConflict, dismissConflict
<1>. QED
  BY <1>3, <1>4, <1>5, <1>6, <1>7, <1>8 DEF Next

(* No write is accepted over a version the operator did not see, unless they
   typed over the version line of the document: neither one of a draft, nor one
   reapplied over a conflict, whichever verb the planner chose and whatever was
   loaded, typed or written by others meanwhile. *)
THEOREM OverwritesNothing == Spec => NothingOverwritten
<1>1. EditInv /\ [Next]_vars =>
        [Writes => \/ call.shown = cluster.rv
                   \/ call.typed /\ Unopposed(call.edited.rv)]_vars
  <2> SUFFICES ASSUME EditInv, [Next]_vars, Writes
               PROVE  call.shown = cluster.rv \/ (call.typed /\ Unopposed(call.edited.rv))
      OBVIOUS
  <2>1. At("sent") /\ Accepted
    BY WritesIsAccepted DEF Writes
  <2>2. Unopposed(call.edited.rv)
    BY <2>1 DEF Accepted, EditInv, SendsShown
  <2>3. (call.edited.rv = call.shown \/ call.typed) /\ call.shown \in Nat
    BY <2>1 DEF EditInv, SendsShown
  <2>. QED
    BY <2>2, <2>3, NoVersions DEF Unopposed
<1>. QED
  BY <1>1, DraftsHold, PTL DEF Spec, NothingOverwritten

-----------------------------------------------------------------------------
(* What is written. *)

(* A request that is sent is what the planner made of the two documents. *)
Planned(c) ==
  LET p == plan(c.current, c.edited) IN
    c.mode = p.mode /\ c.fields = p.fields /\ p.mode # "noop" /\ p.unsupported = {}
SendsPlanned == At("sent") => Planned(call)

(* A plan that may be sent sets every leaf the document changed and makes up
   none: what a patch cannot take out and what the entity would drop is refused. *)
LEMMA WrittenIs ==
  ASSUME NEW c, Planned(c), NEW l \in Leaves, FieldOf[l] \notin ClusterOwned
  PROVE  /\ Written(c)[l] \in {c.edited.val[l], cluster.val[l]}
         /\ c.current.val[l] # c.edited.val[l] => Written(c)[l] = c.edited.val[l]
<1> DEFINE p == plan(c.current, c.edited)
           fields == changedFields(c.current, c.edited) \ ClusterOwned
           dropped == droppedFields(c.current, c.edited)
<1>1. FieldOf[l] \in Fields
  BY DEF Fields
<1>2. CASE c.mode = "replace"
  <2>1. unknown({FieldOf[k] : k \in {j \in Leaves : Holds(c.edited, j)}}) = {}
    BY <1>2 DEF Planned, plan
  <2>2. FieldOf[l] \notin Declared => c.edited.val[l] = Absent
    BY <2>1 DEF unknown, Holds
  <2>3. Written(c)[l] = IF FieldOf[l] \in Declared THEN c.edited.val[l] ELSE Absent
    BY <1>2 DEF Written
  <2>. QED
    BY <2>2, <2>3
<1>3. CASE c.mode # "replace"
  <2>1. c.fields = fields /\ unknown(fields) = {} /\ dropped = {}
    BY <1>3 DEF Planned, plan
  <2>2. Written(c)[l] = IF FieldOf[l] \in c.fields \cap Declared /\ Holds(c.edited, l) THEN c.edited.val[l]
                        ELSE cluster.val[l]
    BY <1>3 DEF Written
  <2>3. ASSUME c.current.val[l] # c.edited.val[l] PROVE FieldOf[l] \in c.fields \cap Declared /\ Holds(c.edited, l)
    <3>1. FieldOf[l] \in fields
      BY <2>3 DEF changedFields
    <3>2. FieldOf[l] \in Declared
      BY <2>1, <3>1 DEF unknown
    <3>3. ~hasRemoval(c.current, c.edited, FieldOf[l])
      BY <1>1, <2>1 DEF droppedFields
    <3>. QED
      BY <2>1, <2>3, <3>1, <3>2, <3>3 DEF hasRemoval, Holds
  <2>. QED
    BY <2>2, <2>3
<1>. QED
  BY <1>2, <1>3

(* Every action sends what was planned, with the verbs the operator has. *)
LEMMA PlannedStep == SendsPlanned /\ [Next]_vars => SendsPlanned'
<1> SUFFICES ASSUME SendsPlanned, [Next]_vars PROVE SendsPlanned'
    OBVIOUS
<1>1. UNCHANGED verbs
  BY DEF Next, vars, Opens, Retries, LoadServed, Loaded, LoadFails, Types, Retypes, OthersWrite, openTab, Closes, cancelYamlEdit,
         startEditing, revert, apply, reapply, applies, takeConflict, dismissConflict, Accepted, Conflicts, ReadBack,
         Applied, ConflictShown, ApplyFails
<1>2. CASE UNCHANGED call
  BY <1>1, <1>2 DEF SendsPlanned, Planned, At, plan
<1>3. ASSUME NEW edited, NEW shown, NEW typed, Sends(edited, shown, typed) PROVE SendsPlanned'
  <2>1. Planned(call')
    BY <1>3 DEF Sends, Planned
  <2>. QED
    BY <1>1, <2>1 DEF SendsPlanned, Planned, plan
<1>4. CASE call' = None \/ call'.step # "sent"
  BY <1>4 DEF SendsPlanned, At
<1>5. ASSUME NEW edited, NEW shown, NEW typed, applies(edited, shown, typed) PROVE SendsPlanned'
  BY <1>2, <1>3, <1>5 DEF applies, Unsupported, MeansTheSame
<1>6. CASE apply \/ reapply
  BY <1>5, <1>6 DEF apply, reapply
<1>7. CASE Accepted \/ Conflicts \/ ReadBack \/ Applied \/ ConflictShown \/ ApplyFails
  BY <1>4, <1>7 DEF Accepted, Conflicts, ReadBack, Applied, ConflictShown, ApplyFails, Awaits
<1>8. ASSUME NEW i \in Loads, Opens(i) \/ Retries(i) \/ LoadServed(i) \/ Loaded(i) \/ LoadFails(i)
      PROVE  SendsPlanned'
  BY <1>2, <1>8 DEF Opens, Retries, LoadServed, Loaded, LoadFails
<1>9. ASSUME NEW l \in Leaves, NEW v, Types(l, v) \/ OthersWrite(l, v) PROVE SendsPlanned'
  BY <1>2, <1>9 DEF Types, OthersWrite
<1>11. ASSUME NEW v, Retypes(v) PROVE SendsPlanned'
  BY <1>2, <1>11 DEF Retypes
<1>10. CASE openTab \/ Closes \/ cancelYamlEdit \/ startEditing \/ revert \/ takeConflict \/ dismissConflict \/ UNCHANGED vars
  BY <1>2, <1>10 DEF openTab, Closes, cancelYamlEdit, startEditing, revert, takeConflict, dismissConflict, vars
<1>. QED
  BY <1>6, <1>7, <1>8, <1>9, <1>10, <1>11 DEF Next

(* An accepted write sets what the document changed and leaves or sets the
   rest, whatever the schema of the kind and the verbs the operator has; over
   the version of the draft the object then is the document, status apart. *)
THEOREM DocumentApplied == Spec => AppliesTheDocument
<1>1. Init => SendsPlanned
  BY DEF Init, SendsPlanned, At
<1>2. SendsPlanned /\ EditInv /\ [Next]_vars =>
        [Writes =>
           \A l \in {k \in Leaves : FieldOf[k] \notin ClusterOwned} :
             /\ cluster'.val[l] \in {call.edited.val[l], cluster.val[l]}
             /\ call.current.val[l] # call.edited.val[l] => cluster'.val[l] = call.edited.val[l]
             /\ call.current = cluster => cluster'.val[l] = call.edited.val[l]]_vars
  <2> SUFFICES ASSUME SendsPlanned, EditInv, [Next]_vars, Writes,
                      NEW l \in Leaves, FieldOf[l] \notin ClusterOwned
               PROVE  /\ cluster'.val[l] \in {call.edited.val[l], cluster.val[l]}
                      /\ call.current.val[l] # call.edited.val[l] => cluster'.val[l] = call.edited.val[l]
                      /\ call.current = cluster => cluster'.val[l] = call.edited.val[l]
      OBVIOUS
  <2>1. Planned(call) /\ Accepted
    BY WritesIsAccepted DEF Writes, SendsPlanned
  <2>2. cluster'.val = Written(call)
    BY <2>1 DEF Accepted, Saved
  <2>3. /\ Written(call)[l] \in {call.edited.val[l], cluster.val[l]}
        /\ call.current.val[l] # call.edited.val[l] => Written(call)[l] = call.edited.val[l]
    BY <2>1, WrittenIs
  <2>. QED
    BY <2>2, <2>3
<1>. QED
  BY <1>1, <1>2, PlannedStep, DraftsHold, PTL DEF Spec, AppliesTheDocument

-----------------------------------------------------------------------------
(* A list and its watch (ResourceWatch).                                   *)

(* The types the argument needs. *)
Versions == UNION {[N -> Nat] : N \in SUBSET Namespaces}
Lists ==
  [loaded : BOOLEAN, loading : BOOLEAN, failed : BOOLEAN, watching : BOOLEAN,
   stale : BOOLEAN, items : Versions, cursors : Versions]
OpRecords ==
  [pc : {"idle", "unwatching", "loading", "served", "replacing", "starting", "failing", "done"},
   kind : {"reload", "resync", "leave"}, sel : SUBSET Namespaces,
   waits : Ops \cup {NoWatch}, page : Versions]
WatchSessions ==
  [stopped : BOOLEAN, resyncing : BOOLEAN, staled : BOOLEAN, early : BOOLEAN,
   pending : Seq(Namespaces \X Nat)]
Scopes ==
  [link : {"none", "asked", "refused", "open", "reasked", "stopping", "closed"},
   rv : Nat, flaps : Nat, retry : BOOLEAN, stopped : BOOLEAN]
WatchShapes ==
  /\ truth \in [Namespaces -> Nat]
  /\ view \in [open : BOOLEAN, watched : BOOLEAN]
  /\ list \in Lists
  /\ op \in [Ops -> OpRecords]
  /\ holder \in Ops \cup {NoWatch}
  /\ session \in [Ops -> WatchSessions]
  /\ scope \in [Ops -> [Namespaces -> Scopes]]
  /\ crossed \in BOOLEAN

(* A session has nothing before its coroutine starts it. *)
Unborn == {"idle", "unwatching", "loading", "served", "replacing"}
WatchBorn ==
  \A o \in Ops : op[o].pc \in Unborn =>
    /\ holder # o /\ ~session[o].stopped /\ ~session[o].staled
    /\ session[o].pending = <<>>
    /\ \A n \in Namespaces : scope[o][n] = Unopened

(* The scopes of a session are stopped with it; what is stopped retries    *)
(* nothing and keeps nothing, and has left the map unless its start is     *)
(* about to be given up.                                                   *)
WatchDead ==
  \A o \in Ops :
    /\ \A n \in Namespaces :
         /\ scope[o][n].stopped <=> session[o].stopped
         /\ scope[o][n].retry => scope[o][n].link = "closed" /\ ~session[o].stopped
    /\ session[o].stopped => session[o].pending = <<>>
    /\ holder = o /\ session[o].stopped => op[o].pc = "failing"
    /\ op[o].pc = "failing" => session[o].stopped

(* What the view remembers, and what each coroutine may take from it. *)
WatchView ==
  /\ view.watched => view.open
  /\ \A o \in Ops : op[o].kind = "leave" => op[o].pc \in {"unwatching", "done"}

(* As long as no two coroutines have overlapped: one runs at a time, the   *)
(* map is empty until it starts a session, and whatever is not stopped is  *)
(* in the map.                                                             *)
WatchAlone ==
  ~crossed =>
    /\ \A o, p \in Ops : Running(o) /\ Running(p) => o = p
    /\ \A o \in Ops :
         /\ Running(o) /\ op[o].pc \in Unborn => holder = NoWatch
         /\ op[o].pc \in {"starting", "failing"} =>
              holder \in {o, NoWatch} /\ (conn = "open" => holder = o)
         /\ Running(o) /\ op[o].kind = "resync" => view.watched
         /\ Running(o) /\ op[o].kind = "reload" => view.open
         /\ session[o].resyncing => session[o].stopped
         /\ session[o].pending # <<>> => holder = o
         /\ \A n \in Namespaces :
              scope[o][n].link # "none" /\ ~session[o].stopped => holder = o
    /\ AllAtRest /\ holder # NoWatch => view.watched

(* The list was loaded before it is watched, at the versions the watch     *)
(* starts from, and no claim to be live outlasts the session that upholds  *)
(* it.                                                                     *)
WatchClaims ==
  ~crossed /\ conn = "open" =>
    /\ \A o \in Ops :
         /\ op[o].pc \in {"loading", "served", "replacing", "starting", "failing"} => ~list.watching
         /\ op[o].pc = "replacing" => list.loaded /\ op[o].page = list.cursors
         /\ op[o].pc = "starting" /\ session[o].staled => session[o].early
    /\ AllAtRest /\ list.watching => holder # NoWatch
    /\ \A o \in Ops : holder = o =>
         /\ list.loaded
         /\ \A n \in Namespaces : scope[o][n].link \in {"asked", "refused"} => op[o].pc \in {"starting", "failing"}
         /\ AllAtRest /\ list.watching /\ session[o].staled => session[o].early
         /\ ~session[o].stopped => \A n \in DOMAIN list.cursors :
              \/ scope[o][n].link \in {"asked", "refused", "open", "reasked"}
              \/ scope[o][n].retry \/ session[o].staled

(* The last pending change of n. *)
IsLast(p, n, i) ==
  i \in DOMAIN p /\ p[i][1] = n /\ \A j \in DOMAIN p : p[j][1] = n => j <= i
WatchLasts ==
  \A o \in Ops : \A i \in DOMAIN session[o].pending :
    \E j \in DOMAIN session[o].pending : IsLast(session[o].pending, session[o].pending[i][1], j)

(* A list holds each object at the version its watch would start from or a *)
(* later one, and so do the changes that wait and the scopes: what a scope *)
(* remembers is the last that waits, or in the list.                       *)
WatchKeeps ==
  ~crossed /\ conn = "open" =>
    /\ \A n \in DOMAIN list.cursors : n \in DOMAIN list.items /\ list.cursors[n] <= list.items[n]
    /\ \A o \in Ops : holder = o /\ ~session[o].stopped =>
         /\ \A n \in Namespaces : scope[o][n].link # "none" =>
              /\ n \in DOMAIN list.cursors /\ list.cursors[n] <= scope[o][n].rv
              /\ \A i \in DOMAIN session[o].pending :
                   IsLast(session[o].pending, n, i) => scope[o][n].rv <= session[o].pending[i][2]
              /\ (\A i \in DOMAIN session[o].pending : session[o].pending[i][1] # n) =>
                   scope[o][n].rv <= list.items[n]
         /\ \A i \in DOMAIN session[o].pending :
              LET n == session[o].pending[i][1] IN
                scope[o][n].link # "none" /\ list.cursors[n] <= session[o].pending[i][2]

WatchInv ==
  /\ WatchShapes /\ WatchBorn /\ WatchDead /\ WatchView /\ WatchAlone /\ WatchClaims
  /\ WatchLasts /\ WatchKeeps

(* Versions by namespace. *)
LEMMA VersionsAre ==
  /\ <<>> \in Versions
  /\ \A f \in Versions : DOMAIN f \subseteq Namespaces /\ \A n \in DOMAIN f : f[n] \in Nat
  /\ \A N \in SUBSET Namespaces : \A f \in [N -> Nat] : f \in Versions
<1>1. <<>> \in [{} -> Nat]
  <2>1. <<>> \in Seq(Nat) /\ Len(<<>>) = 0
    BY EmptySeq
  <2>2. <<>> \in [1..0 -> Nat]
    BY <2>1, LenProperties
  <2>3. 1..0 = {}
    OBVIOUS
  <2>. QED
    BY <2>2, <2>3
<1>. QED
  BY <1>1 DEF Versions

(* Nothing has been loaded. *)
LEMMA WatchStart == WatchInit => WatchInv
<1> SUFFICES ASSUME WatchInit PROVE WatchInv
    OBVIOUS
<1>1. WatchShapes
  <2>1. list \in Lists
    BY VersionsAre DEF WatchInit, EmptyList, Lists
  <2>2. op \in [Ops -> OpRecords]
    BY VersionsAre DEF WatchInit, OpRecords
  <2>3. session \in [Ops -> WatchSessions]
    BY EmptySeq DEF WatchInit, WatchSessions
  <2>4. scope \in [Ops -> [Namespaces -> Scopes]]
    BY DEF WatchInit, Unopened, Scopes
  <2>. QED
    BY <2>1, <2>2, <2>3, <2>4 DEF WatchInit, WatchShapes
<1>2. WatchBorn /\ WatchDead /\ WatchView
  BY WatchNoneApart DEF WatchInit, WatchBorn, WatchDead, WatchView, Unopened, Unborn
<1>3. WatchAlone
  BY DEF WatchInit, WatchAlone, Running, AllAtRest, Unopened
<1>4. WatchClaims
  BY WatchNoneApart DEF WatchInit, WatchClaims, EmptyList
<1>5. WatchLasts
  <2>1. DOMAIN <<>> = {}
    BY EmptySeq, LenProperties
  <2>. QED
    BY <2>1 DEF WatchInit, WatchLasts
<1>6. WatchKeeps
  <2>1. DOMAIN <<>> = {}
    BY VersionsAre, EmptySeq, LenProperties
  <2>. QED
    BY <2>1, WatchNoneApart DEF WatchInit, WatchKeeps, EmptyList
<1>. QED
  BY <1>1, <1>2, <1>3, <1>4, <1>5, <1>6 DEF WatchInv

-----------------------------------------------------------------------------
(* What a step changes, field by field.                                    *)

(* One coroutine moves, or begins. *)
OneOp(o) == op' \in [Ops -> OpRecords] /\ \A p \in Ops \ {o} : op'[p] = op[p]
Moves(o, from, to) ==
  OneOp(o) /\ op[o].pc = from /\ op'[o].pc = to /\ op'[o].kind = op[o].kind
Begun(o, kind, pc) ==
  /\ OneOp(o) /\ op[o].pc = "idle" /\ op'[o].pc = pc /\ op'[o].kind = kind
  /\ crossed' = (crossed \/ ~AllAtRest)

(* A session is stopped, with its scopes unless they were spliced before. *)
ScopesEnd(s) ==
  \A n \in Namespaces :
    /\ scope'[s][n].stopped /\ ~scope'[s][n].retry
    /\ scope'[s][n].link = Halts(scope[s][n].link)
SessionStops(s) ==
  /\ session' \in [Ops -> WatchSessions] /\ scope' \in [Ops -> [Namespaces -> Scopes]]
  /\ \A q \in Ops \ {s} : session'[q] = session[q] /\ scope'[q] = scope[q]
  /\ s \in Ops =>
       /\ session'[s].stopped /\ session'[s].pending = <<>>
       /\ session'[s].staled = session[s].staled /\ session'[s].early = session[s].early
       /\ session'[s].resyncing = session[s].resyncing
       /\ session[s].stopped => scope'[s] = scope[s]
       /\ ~session[s].stopped => ScopesEnd(s)

(* The list is said to be stale, once for a session. *)
Stales(o) ==
  /\ Tells(o)
  /\ session' \in [Ops -> WatchSessions]
  /\ \A q \in Ops \ {o} : session'[q] = session[q]
  /\ session'[o].staled /\ session'[o].early = (op[o].pc = "starting")
  /\ session'[o].stopped = session[o].stopped /\ session'[o].pending = session[o].pending
  /\ session'[o].resyncing = session[o].resyncing
  /\ list' \in Lists /\ ~list'.watching /\ list'.loaded = list.loaded
  /\ list'.items = list.items /\ list'.cursors = list.cursors

(* A stream answers, ends or is asked for again. *)
Backed(sc) == sc.link \in {"asked", "refused", "open", "reasked"} \/ sc.retry
StreamMoves(o, n) ==
  /\ UNCHANGED <<truth, conn, view, op, holder, crossed>>
  /\ scope' \in [Ops -> [Namespaces -> Scopes]]
  /\ \A p \in Ops, m \in Namespaces : p # o \/ m # n => scope'[p][m] = scope[p][m]
  /\ scope'[o][n].rv = scope[o][n].rv /\ scope'[o][n].stopped = scope[o][n].stopped
  /\ scope[o][n].link # "none" /\ scope'[o][n].link \notin {"none", "asked"}
  /\ scope'[o][n].link = "refused" => scope[o][n].link = "asked"
  /\ scope'[o][n].retry => scope'[o][n].link = "closed" /\ (~scope[o][n].stopped \/ scope[o][n].retry)
  /\ \/ UNCHANGED <<session, list>>
        /\ \/ scope[o][n].stopped \/ session[o].stopped \/ session[o].staled
           \/ conn # "open" \/ Backed(scope'[o][n]) \/ ~Backed(scope[o][n])
     \/ Stales(o)

(* A resync of session o begins at coroutine r. *)
ResyncMoves(o, r) ==
  /\ Begun(r, "resync", "unwatching")
  /\ holder' = NoWatch
  /\ session' \in [Ops -> WatchSessions] /\ scope' \in [Ops -> [Namespaces -> Scopes]]
  /\ \A q \in Ops :
       /\ session'[q].stopped = (session[q].stopped \/ q = holder)
       /\ (q = o \/ (q = holder /\ ~session[q].stopped)) => session'[q].pending = <<>>
       /\ (q # o /\ (q # holder \/ session[q].stopped)) => session'[q].pending = session[q].pending
       /\ session'[q].staled = session[q].staled /\ session'[q].early = session[q].early
       /\ session'[q].resyncing = (session[q].resyncing \/ q = o)
       /\ q = holder /\ ~session[q].stopped => ScopesEnd(q)
       /\ ~(q = holder /\ ~session[q].stopped) => \A m \in Namespaces :
            /\ scope'[q][m].link = scope[q][m].link /\ scope'[q][m].retry = scope[q][m].retry
            /\ scope'[q][m].stopped = scope[q][m].stopped
       /\ q # holder /\ q # o => scope'[q] = scope[q]
  /\ UNCHANGED <<truth, conn, view, list>>

LEMMA StopsIs ==
  ASSUME WatchShapes, NEW s \in Ops \cup {NoWatch},
         session' = IF s = NoWatch THEN session ELSE Silenced(s),
         scope' = IF s = NoWatch THEN scope ELSE Halted(s)
  PROVE  SessionStops(s)
<1>1. CASE s = NoWatch
  BY <1>1, WatchNoneApart DEF SessionStops, WatchShapes
<1>2. CASE s \in Ops
  <2>1. s # NoWatch /\ session[s] \in WatchSessions /\ scope[s] \in [Namespaces -> Scopes]
    BY <1>2, WatchNoneApart DEF WatchShapes
  <2>2. [session[s] EXCEPT !.stopped = TRUE, !.pending = <<>>] \in WatchSessions
    BY <2>1, EmptySeq DEF WatchSessions
  <2>3. session' = [session EXCEPT ![s] = [session[s] EXCEPT !.stopped = TRUE, !.pending = <<>>]]
    BY <2>1 DEF Silenced
  <2>4. session'[s] = [session[s] EXCEPT !.stopped = TRUE, !.pending = <<>>]
    BY <1>2, <2>3 DEF WatchShapes
  <2>5. session' \in [Ops -> WatchSessions] /\ \A q \in Ops \ {s} : session'[q] = session[q]
    BY <1>2, <2>2, <2>3 DEF WatchShapes
  <2>6. /\ session'[s].stopped /\ session'[s].pending = <<>>
        /\ session'[s].staled = session[s].staled /\ session'[s].early = session[s].early
        /\ session'[s].resyncing = session[s].resyncing
    BY <2>1, <2>4 DEF WatchSessions
  <2>7. CASE session[s].stopped
    <3>1. scope' = scope
      BY <2>1, <2>7 DEF Halted
    <3>. QED
      BY <1>2, <2>5, <2>6, <2>7, <3>1 DEF SessionStops, WatchShapes
  <2>8. CASE ~session[s].stopped
    <3>1. scope' = [scope EXCEPT ![s] = Ended(scope[s])]
      BY <2>1, <2>8 DEF Halted
    <3>2. ASSUME NEW n \in Namespaces
          PROVE  /\ Ended(scope[s])[n] \in Scopes
                 /\ Ended(scope[s])[n].stopped /\ ~Ended(scope[s])[n].retry
                 /\ Ended(scope[s])[n].link = Halts(scope[s][n].link)
      <4>1. scope[s][n] \in Scopes
        BY <2>1
      <4>2. Ended(scope[s])[n] = [Unopened EXCEPT !.stopped = TRUE, !.link = Halts(scope[s][n].link)]
        BY DEF Ended
      <4>3. Ended(scope[s])[n] = [link |-> Halts(scope[s][n].link), rv |-> 0, flaps |-> 0,
                                  retry |-> FALSE, stopped |-> TRUE]
        BY <4>2 DEF Unopened
      <4>4. Halts(scope[s][n].link) \in {"none", "asked", "refused", "open", "reasked", "stopping", "closed"}
        BY <4>1 DEF Scopes, Halts
      <4>. QED
        BY <4>3, <4>4 DEF Scopes
    <3>3. Ended(scope[s]) \in [Namespaces -> Scopes]
      BY <3>2 DEF Ended
    <3>4. scope' \in [Ops -> [Namespaces -> Scopes]] /\ scope'[s] = Ended(scope[s])
          /\ \A q \in Ops \ {s} : scope'[q] = scope[q]
      BY <1>2, <3>1, <3>3 DEF WatchShapes
    <3>. QED
      BY <1>2, <2>5, <2>6, <2>8, <3>2, <3>4 DEF SessionStops, ScopesEnd
  <2>. QED
    BY <2>7, <2>8
<1>. QED
  BY <1>1, <1>2

LEMMA StopAtIs ==
  ASSUME WatchShapes, stopAt
  PROVE  holder' = NoWatch /\ SessionStops(holder)
<1>1. holder \in Ops \cup {NoWatch}
  BY DEF WatchShapes
<1>. QED
  BY <1>1, StopsIs DEF stopAt

LEMMA StalesIs ==
  ASSUME WatchShapes, NEW o \in Ops, StaleSession(o), StaleList(o)
  PROVE  Stales(o) \/ (~Tells(o) /\ UNCHANGED <<session, list>>)
<1>1. CASE ~Tells(o)
  BY <1>1 DEF StaleSession, StaleList
<1>2. CASE Tells(o)
  <2>1. session[o] \in WatchSessions /\ list \in Lists
    BY DEF WatchShapes
  <2>2. session' = [session EXCEPT ![o] = [session[o] EXCEPT !.staled = TRUE, !.early = (op[o].pc = "starting")]]
    BY <1>2 DEF StaleSession
  <2>3. [session[o] EXCEPT !.staled = TRUE, !.early = (op[o].pc = "starting")] \in WatchSessions
    BY <2>1 DEF WatchSessions
  <2>4. session' \in [Ops -> WatchSessions] /\ \A q \in Ops \ {o} : session'[q] = session[q]
    BY <2>2, <2>3 DEF WatchShapes
  <2>5. session'[o] = [session[o] EXCEPT !.staled = TRUE, !.early = (op[o].pc = "starting")]
    BY <2>2 DEF WatchShapes
  <2>6. /\ session'[o].staled /\ session'[o].early = (op[o].pc = "starting")
        /\ session'[o].stopped = session[o].stopped /\ session'[o].pending = session[o].pending
        /\ session'[o].resyncing = session[o].resyncing
    BY <2>1, <2>5 DEF WatchSessions
  <2>7. list' = [list EXCEPT !.watching = FALSE, !.stale = TRUE]
    BY <1>2 DEF StaleList
  <2>8. /\ list' \in Lists /\ ~list'.watching /\ list'.loaded = list.loaded
        /\ list'.items = list.items /\ list'.cursors = list.cursors
    BY <2>1, <2>7 DEF Lists
  <2>. QED
    BY <1>2, <2>4, <2>6, <2>8 DEF Stales
<1>. QED
  BY <1>1, <1>2

(* One scope of one session takes another record. *)
Puts(o, n, r) == scope' = [scope EXCEPT ![o] = [scope[o] EXCEPT ![n] = r]]

LEMMA OneScope ==
  ASSUME WatchShapes, NEW o \in Ops, NEW n \in Namespaces, NEW r \in Scopes, Puts(o, n, r)
  PROVE  /\ scope' \in [Ops -> [Namespaces -> Scopes]] /\ scope'[o][n] = r
         /\ \A p \in Ops, m \in Namespaces : p # o \/ m # n => scope'[p][m] = scope[p][m]
         /\ \A p \in Ops : p # o => scope'[p] = scope[p]
<1>1. scope[o] \in [Namespaces -> Scopes]
  BY DEF WatchShapes
<1>2. [scope[o] EXCEPT ![n] = r] \in [Namespaces -> Scopes]
  BY <1>1
<1>3. scope'[o] = [scope[o] EXCEPT ![n] = r] /\ \A p \in Ops : p # o => scope'[p] = scope[p]
  BY DEF WatchShapes, Puts
<1>4. scope' \in [Ops -> [Namespaces -> Scopes]]
  BY <1>2 DEF WatchShapes, Puts
<1>5. scope'[o][n] = r /\ \A m \in Namespaces : m # n => scope'[o][m] = scope[o][m]
  BY <1>1, <1>3
<1>. QED
  BY <1>3, <1>4, <1>5

(* The streams of a session. *)

LEMMA OpenedIs ==
  ASSUME WatchShapes, WatchDead, NEW o \in Ops, NEW n \in Namespaces, Opened(o, n)
  PROVE  StreamMoves(o, n)
<1> DEFINE r == [scope[o][n] EXCEPT !.link = "open"]
<1>1. scope[o][n] \in Scopes
  BY DEF WatchShapes
<1>2. /\ r \in Scopes /\ r.link = "open" /\ r.retry = scope[o][n].retry
      /\ r.rv = scope[o][n].rv /\ r.stopped = scope[o][n].stopped
  BY <1>1 DEF Scopes
<1>3. Puts(o, n, r)
  BY DEF Opened, Puts
<1>4. /\ scope[o][n].link \in {"asked", "reasked"} /\ UNCHANGED <<session, list>>
      /\ UNCHANGED <<truth, conn, view, op, holder, crossed>>
  BY DEF Opened
<1> HIDE DEF r
<1>5. /\ scope' \in [Ops -> [Namespaces -> Scopes]] /\ scope'[o][n] = r
      /\ \A p \in Ops, m \in Namespaces : p # o \/ m # n => scope'[p][m] = scope[p][m]
  BY <1>2, <1>3, OneScope
<1>6. scope[o][n].retry => scope[o][n].link = "closed"
  BY DEF WatchDead
<1>. QED
  BY <1>2, <1>4, <1>5, <1>6 DEF StreamMoves, Backed

LEMMA ScopeRetriesIs ==
  ASSUME WatchShapes, WatchDead, NEW o \in Ops, NEW n \in Namespaces, ScopeRetries(o, n)
  PROVE  StreamMoves(o, n)
<1> DEFINE r == [scope[o][n] EXCEPT !.retry = FALSE, !.link = "reasked"]
<1>1. scope[o][n] \in Scopes
  BY DEF WatchShapes
<1>2. /\ r \in Scopes /\ r.link = "reasked" /\ ~r.retry
      /\ r.rv = scope[o][n].rv /\ r.stopped = scope[o][n].stopped
  BY <1>1 DEF Scopes
<1>3. Puts(o, n, r)
  BY DEF ScopeRetries, Puts
<1>4. /\ scope[o][n].retry /\ UNCHANGED <<session, list>>
      /\ UNCHANGED <<truth, conn, view, op, holder, crossed>>
  BY DEF ScopeRetries
<1> HIDE DEF r
<1>5. /\ scope' \in [Ops -> [Namespaces -> Scopes]] /\ scope'[o][n] = r
      /\ \A p \in Ops, m \in Namespaces : p # o \/ m # n => scope'[p][m] = scope[p][m]
  BY <1>2, <1>3, OneScope
<1>6. scope[o][n].retry => scope[o][n].link = "closed"
  BY DEF WatchDead
<1>. QED
  BY <1>2, <1>4, <1>5, <1>6 DEF StreamMoves, Backed

LEMMA StoppedIs ==
  ASSUME WatchShapes, WatchDead, NEW o \in Ops, NEW n \in Namespaces, Stopped(o, n)
  PROVE  StreamMoves(o, n)
<1> DEFINE r == [scope[o][n] EXCEPT !.link = "closed"]
<1>1. scope[o][n] \in Scopes
  BY DEF WatchShapes
<1>2. /\ r \in Scopes /\ r.link = "closed" /\ r.retry = scope[o][n].retry
      /\ r.rv = scope[o][n].rv /\ r.stopped = scope[o][n].stopped
  BY <1>1 DEF Scopes
<1>3. Puts(o, n, r)
  BY DEF Stopped, Puts
<1>4. /\ scope[o][n].link = "stopping" /\ UNCHANGED <<session, list>>
      /\ UNCHANGED <<truth, conn, view, op, holder, crossed>>
  BY DEF Stopped
<1> HIDE DEF r
<1>5. /\ scope' \in [Ops -> [Namespaces -> Scopes]] /\ scope'[o][n] = r
      /\ \A p \in Ops, m \in Namespaces : p # o \/ m # n => scope'[p][m] = scope[p][m]
  BY <1>2, <1>3, OneScope
<1>6. scope[o][n].retry => scope[o][n].link = "closed"
  BY DEF WatchDead
<1>. QED
  BY <1>2, <1>4, <1>5, <1>6 DEF StreamMoves, Backed

LEMMA CutOffIs ==
  ASSUME WatchShapes, WatchDead, NEW o \in Ops, NEW n \in Namespaces, CutOff(o, n)
  PROVE  StreamMoves(o, n)
<1> DEFINE r == [scope[o][n] EXCEPT !.link = "closed"]
<1>1. scope[o][n] \in Scopes
  BY DEF WatchShapes
<1>2. /\ r \in Scopes /\ r.link = "closed" /\ r.retry = scope[o][n].retry
      /\ r.rv = scope[o][n].rv /\ r.stopped = scope[o][n].stopped
  BY <1>1 DEF Scopes
<1>3. Puts(o, n, r)
  BY DEF CutOff, Puts
<1>4. /\ scope[o][n].link = "open" /\ conn = "closed"
      /\ UNCHANGED <<truth, conn, view, op, holder, crossed>>
  BY DEF CutOff
<1> HIDE DEF r
<1>5. /\ scope' \in [Ops -> [Namespaces -> Scopes]] /\ scope'[o][n] = r
      /\ \A p \in Ops, m \in Namespaces : p # o \/ m # n => scope'[p][m] = scope[p][m]
  BY <1>2, <1>3, OneScope
<1>6. scope[o][n].retry => scope[o][n].link = "closed"
  BY DEF WatchDead
<1>7. UNCHANGED <<session, list>> \/ Stales(o)
  BY StalesIs DEF CutOff
<1>. QED
  BY <1>2, <1>4, <1>5, <1>6, <1>7 DEF StreamMoves, Backed

LEMMA RefusedIs ==
  ASSUME WatchShapes, WatchDead, NEW o \in Ops, NEW n \in Namespaces, Refused(o, n)
  PROVE  StreamMoves(o, n)
<1> DEFINE to == IF scope[o][n].link = "asked" THEN "refused" ELSE "closed"
           r  == [scope[o][n] EXCEPT !.link = to]
<1>1. scope[o][n] \in Scopes
  BY DEF WatchShapes
<1>2. /\ r \in Scopes /\ r.link = to /\ r.retry = scope[o][n].retry
      /\ r.rv = scope[o][n].rv /\ r.stopped = scope[o][n].stopped
  BY <1>1 DEF Scopes
<1>3. Puts(o, n, r)
  BY DEF Refused, Puts
<1>4. /\ scope[o][n].link \in {"asked", "reasked"}
      /\ UNCHANGED <<truth, conn, view, op, holder, crossed>>
  BY DEF Refused
<1> HIDE DEF r
<1>5. /\ scope' \in [Ops -> [Namespaces -> Scopes]] /\ scope'[o][n] = r
      /\ \A p \in Ops, m \in Namespaces : p # o \/ m # n => scope'[p][m] = scope[p][m]
  BY <1>2, <1>3, OneScope
<1>6. scope[o][n].retry => scope[o][n].link = "closed"
  BY DEF WatchDead
<1>7. IF scope[o][n].link = "reasked" THEN Stales(o) \/ (~Tells(o) /\ UNCHANGED <<session, list>>)
      ELSE UNCHANGED <<session, list>>
  BY StalesIs DEF Refused
<1>. QED
  BY <1>2, <1>4, <1>5, <1>6, <1>7 DEF StreamMoves, Backed, Tells

LEMMA StreamClosesIs ==
  ASSUME WatchShapes, WatchDead, NEW o \in Ops, NEW n \in Namespaces,
         NEW how \in {"eof", "flap", "error"}, StreamCloses(o, n, how)
  PROVE  StreamMoves(o, n)
<1> DEFINE again == ~scope[o][n].stopped /\ canRetry(how, scope[o][n].flaps)
           many  == IF scope[o][n].stopped THEN scope[o][n].flaps ELSE FlapsAfter(how, scope[o][n].flaps)
           r     == [scope[o][n] EXCEPT !.link = "closed", !.retry = again, !.flaps = many]
<1>1. scope[o][n] \in Scopes
  BY DEF WatchShapes
<1>a. again \in BOOLEAN /\ many \in Nat
  <2>1. scope[o][n].flaps \in Nat /\ scope[o][n].stopped \in BOOLEAN
    BY <1>1 DEF Scopes
  <2>. QED
    BY <2>1 DEF FlapsAfter, canRetry
<1>3. Puts(o, n, r)
  BY DEF StreamCloses, Puts
<1>4. /\ scope[o][n].link \in {"asked", "reasked", "open"}
      /\ UNCHANGED <<truth, conn, view, op, holder, crossed>>
  BY DEF StreamCloses
<1>7. IF scope[o][n].stopped \/ again THEN UNCHANGED <<session, list>>
      ELSE Stales(o) \/ (~Tells(o) /\ UNCHANGED <<session, list>>)
  BY StalesIs DEF StreamCloses
<1>8. again => ~scope[o][n].stopped
  OBVIOUS
<1> HIDE DEF again, many
<1>2. /\ r \in Scopes /\ r.link = "closed" /\ r.retry = again
      /\ r.rv = scope[o][n].rv /\ r.stopped = scope[o][n].stopped
  BY <1>1, <1>a DEF Scopes
<1> HIDE DEF r
<1>5. /\ scope' \in [Ops -> [Namespaces -> Scopes]] /\ scope'[o][n] = r
      /\ \A p \in Ops, m \in Namespaces : p # o \/ m # n => scope'[p][m] = scope[p][m]
  BY <1>2, <1>3, OneScope
<1>. QED
  BY <1>a, <1>2, <1>4, <1>5, <1>7, <1>8 DEF StreamMoves, Backed, Tells

(* The coroutines. *)
OpPuts(o, r) == op' = [op EXCEPT ![o] = r]

LEMMA OneOpIs ==
  ASSUME WatchShapes, NEW o \in Ops, NEW r \in OpRecords, OpPuts(o, r)
  PROVE  OneOp(o) /\ op'[o] = r
BY DEF WatchShapes, OpPuts, OneOp

LEMMA RestsIs ==
  ASSUME WatchShapes, NEW o \in Ops, op' = [op EXCEPT ![o] = Rests(op[o])]
  PROVE  OneOp(o) /\ op'[o].pc = "done" /\ op'[o].kind = op[o].kind
<1> DEFINE r == Rests(op[o])
<1>1. op[o] \in OpRecords
  BY DEF WatchShapes
<1>2. r = [op[o] EXCEPT !.pc = "done", !.waits = NoWatch, !.page = <<>>]
  BY DEF Rests
<1>3. r \in OpRecords /\ r.pc = "done" /\ r.kind = op[o].kind
  BY <1>1, <1>2, VersionsAre DEF OpRecords
<1>4. OpPuts(o, r)
  BY DEF OpPuts
<1> HIDE DEF r
<1>5. OneOp(o) /\ op'[o] = r
  BY <1>3, <1>4, OneOpIs
<1>. QED
  BY <1>3, <1>5

LEMMA BeginsIs ==
  ASSUME WatchShapes, NEW o \in Ops, NEW kind \in {"reload", "resync", "leave"},
         NEW sel \in SUBSET Namespaces, NEW pc \in {"unwatching", "loading", "done"},
         NEW waits \in Ops \cup {NoWatch}, Idle(o), Begins(o, kind, sel, pc, waits)
  PROVE  Begun(o, kind, pc)
<1> DEFINE r == [op[o] EXCEPT !.pc = pc, !.kind = kind, !.sel = sel, !.waits = waits]
<1>1. op[o] \in OpRecords
  BY DEF WatchShapes
<1>2. r \in OpRecords /\ r.pc = pc /\ r.kind = kind
  BY <1>1 DEF OpRecords
<1>3. OpPuts(o, r)
  BY DEF Begins, OpPuts
<1> HIDE DEF r
<1>4. OneOp(o) /\ op'[o] = r
  BY <1>2, <1>3, OneOpIs
<1>. QED
  BY <1>2, <1>4 DEF Begun, Begins, Idle

LEMMA AwaitedIs ==
  ASSUME WatchShapes
  PROVE  StopAwaited \in Ops \cup {NoWatch}
BY DEF WatchShapes, StopAwaited

LEMMA LoadingIs ==
  ASSUME NEW l \in Lists
  PROVE  /\ Loading(l) \in Lists /\ Loading(l).watching = l.watching /\ Loading(l).loaded = l.loaded
         /\ Loading(l).items = l.items /\ Loading(l).cursors = l.cursors
BY DEF Loading, Lists

(* The list as before, but for what is said of it. *)
SameList == /\ list' \in Lists /\ list'.loaded = list.loaded
            /\ list'.items = list.items /\ list'.cursors = list.cursors
Quits == holder' = NoWatch /\ SessionStops(holder)
ViewMoves(o) ==
  /\ view' \in [open : BOOLEAN, watched : BOOLEAN] /\ view'.open = view.open
  /\ view'.watched = (view.watched \/ (op[o].kind = "reload" /\ view.open))

LEMMA RemembersIs ==
  ASSUME WatchShapes, NEW o \in Ops, Remembers(o)
  PROVE  ViewMoves(o)
<1>1. view \in [open : BOOLEAN, watched : BOOLEAN]
  BY DEF WatchShapes
<1>2. view' = [view EXCEPT !.watched = (view.watched \/ (op[o].kind = "reload" /\ view.open))]
  BY DEF Remembers
<1>. QED
  BY <1>1, <1>2 DEF ViewMoves

(* A refresh begins. *)
ReloadMoves(o) ==
  /\ view.open /\ Fresh(o) /\ UNCHANGED <<truth, conn, closes>>
  /\ \/ /\ view.watched /\ Begun(o, "reload", "unwatching") /\ Quits /\ UNCHANGED list
        /\ view' \in [open : BOOLEAN, watched : BOOLEAN] /\ view'.open /\ ~view'.watched
     \/ /\ ~view.watched /\ Begun(o, "reload", "loading") /\ UNCHANGED <<view, watchVars>>
        /\ SameList /\ list'.watching = list.watching

LEMMA ReloadIs ==
  ASSUME WatchShapes, NEW o \in Ops, NEW sel \in Selections, Reload(o, sel)
  PROVE  ReloadMoves(o)
<1> USE DEF ReloadMoves
<1>1. sel \in SUBSET Namespaces /\ Idle(o)
  BY Selected DEF Reload, Fresh
<1>2. CASE view.watched
  <2>1. stopAt /\ Begins(o, "reload", sel, "unwatching", StopAwaited)
    BY <1>2 DEF Reload
  <2>2. Begun(o, "reload", "unwatching")
    BY <1>1, <2>1, BeginsIs, AwaitedIs
  <2>3. Quits
    BY <2>1, StopAtIs DEF Quits
  <2>4. view' = [view EXCEPT !.watched = FALSE] /\ UNCHANGED list /\ view.open
    BY <1>2 DEF Reload
  <2>5. view' \in [open : BOOLEAN, watched : BOOLEAN] /\ view'.open /\ ~view'.watched
    BY <2>4 DEF WatchShapes
  <2>. QED
    BY <1>2, <2>2, <2>3, <2>4, <2>5 DEF Reload
<1>3. CASE ~view.watched
  <2>1. Begins(o, "reload", sel, "loading", NoWatch) /\ list' = Loading(list) /\ UNCHANGED <<view, watchVars>>
    BY <1>3 DEF Reload
  <2>2. Begun(o, "reload", "loading")
    BY <1>1, <2>1, BeginsIs
  <2>3. SameList /\ list'.watching = list.watching
    BY <2>1, LoadingIs DEF SameList, WatchShapes
  <2>. QED
    BY <1>3, <2>1, <2>2, <2>3 DEF Reload
<1>. QED
  BY <1>2, <1>3

(* The view goes away. *)
LeaveMoves(o) ==
  /\ Fresh(o) /\ UNCHANGED <<truth, conn, list, closes>>
  /\ view' \in [open : BOOLEAN, watched : BOOLEAN] /\ ~view'.open /\ ~view'.watched
  /\ \/ view.watched /\ Begun(o, "leave", "unwatching") /\ Quits
     \/ ~view.watched /\ Begun(o, "leave", "done") /\ UNCHANGED watchVars

LEMMA LeaveIs ==
  ASSUME WatchShapes, NEW o \in Ops, Leave(o)
  PROVE  LeaveMoves(o)
<1> USE DEF LeaveMoves
<1>1. Idle(o)
  BY DEF Leave, Fresh
<1>2. CASE view.watched
  <2>1. stopAt /\ Begins(o, "leave", {}, "unwatching", StopAwaited)
    BY <1>2 DEF Leave
  <2>2. Begun(o, "leave", "unwatching")
    BY <1>1, <2>1, BeginsIs, AwaitedIs
  <2>3. Quits
    BY <2>1, StopAtIs DEF Quits
  <2>. QED
    BY <1>2, <2>2, <2>3 DEF Leave
<1>3. CASE ~view.watched
  <2>1. Begins(o, "leave", {}, "done", NoWatch) /\ UNCHANGED watchVars
    BY <1>3 DEF Leave
  <2>2. Begun(o, "leave", "done")
    BY <1>1, <2>1, BeginsIs
  <2>. QED
    BY <1>3, <2>1, <2>2 DEF Leave
<1>. QED
  BY <1>2, <1>3

(* What was watched has ended. *)
UnwatchMoves(o) ==
  /\ Moves(o, "unwatching", IF op[o].kind = "leave" THEN "done" ELSE "loading")
  /\ SameList /\ ~list'.watching
  /\ UNCHANGED <<truth, conn, view, watchVars, crossed>>

LEMMA UnwatchedIs ==
  ASSUME WatchShapes, NEW o \in Ops, Unwatched(o)
  PROVE  UnwatchMoves(o)
<1> USE DEF UnwatchMoves
<1> DEFINE quiet == [list EXCEPT !.watching = FALSE, !.stale = FALSE]
<1>1. /\ quiet \in Lists /\ ~quiet.watching /\ quiet.loaded = list.loaded
      /\ quiet.items = list.items /\ quiet.cursors = list.cursors
  BY DEF WatchShapes, Lists
<1>2. op[o].pc = "unwatching" /\ UNCHANGED <<truth, conn, view, watchVars, crossed>>
  BY DEF Unwatched
<1>3. CASE op[o].kind = "leave"
  <2>1. list' = quiet /\ op' = [op EXCEPT ![o] = Rests(op[o])]
    BY <1>3 DEF Unwatched
  <2> HIDE DEF quiet
  <2>2. OneOp(o) /\ op'[o].pc = "done" /\ op'[o].kind = op[o].kind
    BY <2>1, RestsIs
  <2>. QED
    BY <1>1, <1>2, <1>3, <2>1, <2>2 DEF Moves, SameList
<1>4. CASE op[o].kind # "leave"
  <2> DEFINE r == [op[o] EXCEPT !.pc = "loading"]
  <2>1. list' = Loading(quiet) /\ OpPuts(o, r)
    BY <1>4 DEF Unwatched, OpPuts
  <2> HIDE DEF quiet
  <2>2. r \in OpRecords /\ r.pc = "loading" /\ r.kind = op[o].kind
    BY DEF WatchShapes, OpRecords
  <2> HIDE DEF r
  <2>3. OneOp(o) /\ op'[o] = r
    BY <2>1, <2>2, OneOpIs
  <2>4. SameList /\ ~list'.watching
    BY <1>1, <2>1, LoadingIs DEF SameList
  <2>. QED
    BY <1>2, <1>4, <2>2, <2>3, <2>4 DEF Moves
<1>. QED
  BY <1>3, <1>4

(* The pages are read. *)
ServeMoves(o) ==
  Moves(o, "loading", "served") /\ UNCHANGED <<truth, conn, view, list, watchVars, crossed>>

LEMMA ServedIs ==
  ASSUME WatchShapes, NEW o \in Ops, Served(o)
  PROVE  ServeMoves(o)
<1> USE DEF ServeMoves
<1> DEFINE got == [n \in op[o].sel |-> truth[n]]
           r   == [op[o] EXCEPT !.pc = "served", !.page = got]
<1>1. op[o] \in OpRecords /\ op[o].sel \in SUBSET Namespaces
  BY DEF WatchShapes, OpRecords
<1>2. got \in [op[o].sel -> Nat]
  BY <1>1 DEF WatchShapes
<1>3. OpPuts(o, r) /\ op[o].pc = "loading" /\ UNCHANGED <<truth, conn, view, list, watchVars, crossed>>
  BY DEF Served, OpPuts
<1> HIDE DEF got
<1>4. got \in Versions
  BY <1>1, <1>2, VersionsAre
<1>5. r \in OpRecords /\ r.pc = "served" /\ r.kind = op[o].kind
  BY <1>1, <1>4 DEF OpRecords
<1> HIDE DEF r
<1>6. OneOp(o) /\ op'[o] = r
  BY <1>3, <1>5, OneOpIs
<1>. QED
  BY <1>3, <1>5, <1>6 DEF Moves

(* A load is over, and the list is to be watched. *)
WatchMoves(o, from) ==
  /\ list' \in Lists /\ list'.watching = list.watching
  /\ \/ /\ list'.loaded /\ Moves(o, from, "replacing") /\ op'[o].page = list'.cursors
        /\ Quits /\ UNCHANGED view
     \/ ~list'.loaded /\ Moves(o, from, "done") /\ ViewMoves(o) /\ UNCHANGED watchVars
  /\ UNCHANGED <<truth, conn, crossed>>

LEMMA WatchesIs ==
  ASSUME WatchShapes, NEW o \in Ops, NEW l \in Lists, Watches(o, l), l.watching = list.watching,
         UNCHANGED <<truth, conn, crossed>>
  PROVE  list' = l /\ WatchMoves(o, op[o].pc)
<1>1. op[o] \in OpRecords /\ list' = l
  BY DEF WatchShapes, Watches
<1>2. CASE l.loaded
  <2> DEFINE r == [op[o] EXCEPT !.pc = "replacing", !.waits = StopAwaited, !.page = l.cursors]
  <2>1. stopAt /\ OpPuts(o, r) /\ UNCHANGED view
    BY <1>2 DEF Watches, OpPuts
  <2>2. l.cursors \in Versions
    BY DEF Lists
  <2>3. r \in OpRecords /\ r.pc = "replacing" /\ r.kind = op[o].kind /\ r.page = l.cursors
    BY <1>1, <2>2, AwaitedIs DEF OpRecords
  <2> HIDE DEF r
  <2>4. OneOp(o) /\ op'[o] = r
    BY <2>1, <2>3, OneOpIs
  <2>5. Quits
    BY <2>1, StopAtIs DEF Quits
  <2>. QED
    BY <1>1, <1>2, <2>1, <2>3, <2>4, <2>5 DEF WatchMoves, Moves
<1>3. CASE ~l.loaded
  <2>1. op' = [op EXCEPT ![o] = Rests(op[o])] /\ Remembers(o) /\ UNCHANGED watchVars
    BY <1>3 DEF Watches
  <2>2. OneOp(o) /\ op'[o].pc = "done" /\ op'[o].kind = op[o].kind
    BY <2>1, RestsIs
  <2>3. ViewMoves(o)
    BY <2>1, RemembersIs
  <2>. QED
    BY <1>1, <1>3, <2>1, <2>2, <2>3 DEF WatchMoves, Moves
<1>. QED
  BY <1>2, <1>3

(* The list is loaded. *)
LoadMoves(o) ==
  WatchMoves(o, "served") /\ list'.loaded /\ list'.items = list'.cursors

LEMMA ListLoadedIs ==
  ASSUME WatchShapes, NEW o \in Ops, ListLoaded(o)
  PROVE  LoadMoves(o)
<1> USE DEF LoadMoves
<1> DEFINE l == [list EXCEPT !.loaded = TRUE, !.loading = FALSE, !.items = op[o].page, !.cursors = op[o].page]
<1>1. op[o].page \in Versions
  BY DEF WatchShapes, OpRecords
<1>2. l \in Lists /\ l.watching = list.watching /\ l.loaded /\ l.items = l.cursors
  BY <1>1 DEF WatchShapes, Lists
<1>3. op[o].pc = "served" /\ Watches(o, l) /\ UNCHANGED <<truth, conn, crossed>>
  BY DEF ListLoaded
<1> HIDE DEF l
<1>. QED
  BY <1>2, <1>3, WatchesIs

(* It cannot be. *)
NoLoadMoves(o) ==
  WatchMoves(o, "loading") /\ SameList

LEMMA LoadFailedIs ==
  ASSUME WatchShapes, NEW o \in Ops, LoadFailed(o)
  PROVE  NoLoadMoves(o)
<1> USE DEF NoLoadMoves
<1> DEFINE l == [list EXCEPT !.loading = FALSE, !.failed = TRUE]
<1>1. /\ l \in Lists /\ l.watching = list.watching /\ l.loaded = list.loaded
      /\ l.items = list.items /\ l.cursors = list.cursors
  BY DEF WatchShapes, Lists
<1>2. op[o].pc = "loading" /\ Watches(o, l) /\ UNCHANGED <<truth, conn, crossed>>
  BY DEF LoadFailed
<1> HIDE DEF l
<1>. QED
  BY <1>1, <1>2, WatchesIs DEF SameList

(* A session starts: a scope for each version the list was loaded at. *)
ScopesBegin(o) ==
  /\ holder' = o
  /\ scope' \in [Ops -> [Namespaces -> Scopes]] /\ \A q \in Ops \ {o} : scope'[q] = scope[q]
  /\ \A n \in Namespaces :
       /\ ~scope'[o][n].stopped /\ ~scope'[o][n].retry
       /\ n \in DOMAIN op[o].page => scope'[o][n].link = "asked" /\ scope'[o][n].rv = op[o].page[n]
       /\ n \notin DOMAIN op[o].page => scope'[o][n].link = "none"

(* The new session is in the map, its streams are asked for. *)
StartMoves(o) ==
  Moves(o, "replacing", "starting") /\ ScopesBegin(o) /\ UNCHANGED <<truth, conn, view, list, session, crossed>>

LEMMA StartsIs ==
  ASSUME WatchShapes, NEW o \in Ops, Starts(o)
  PROVE  StartMoves(o)
<1> USE DEF StartMoves
<1> DEFINE r == [op[o] EXCEPT !.pc = "starting"]
           f == [n \in Namespaces |->
                  IF n \in DOMAIN op[o].page THEN [Unopened EXCEPT !.link = "asked", !.rv = op[o].page[n]] ELSE Unopened]
<1>1. op[o] \in OpRecords
  BY DEF WatchShapes
<1>2. /\ op[o].pc = "replacing" /\ holder' = o /\ OpPuts(o, r) /\ scope' = [scope EXCEPT ![o] = f]
      /\ UNCHANGED <<truth, conn, view, list, session, crossed>>
  BY DEF Starts, OpPuts
<1>3. r \in OpRecords /\ r.pc = "starting" /\ r.kind = op[o].kind
  BY <1>1 DEF OpRecords
<1>4. ASSUME NEW n \in Namespaces
      PROVE  /\ f[n] \in Scopes /\ ~f[n].stopped /\ ~f[n].retry
             /\ n \in DOMAIN op[o].page => f[n].link = "asked" /\ f[n].rv = op[o].page[n]
             /\ n \notin DOMAIN op[o].page => f[n].link = "none"
  <2>1. op[o].page \in Versions
    BY <1>1 DEF OpRecords
  <2>2. n \in DOMAIN op[o].page => op[o].page[n] \in Nat
    BY <2>1, VersionsAre
  <2>. QED
    BY <2>2 DEF Unopened, Scopes
<1>5. f \in [Namespaces -> Scopes]
  BY <1>4
<1> HIDE DEF r, f
<1>6. OneOp(o) /\ op'[o] = r
  BY <1>2, <1>3, OneOpIs
<1>7. /\ scope' \in [Ops -> [Namespaces -> Scopes]] /\ scope'[o] = f
      /\ \A q \in Ops \ {o} : scope'[q] = scope[q]
  BY <1>2, <1>5 DEF WatchShapes
<1>. QED
  BY <1>2, <1>3, <1>4, <1>6, <1>7 DEF Moves, ScopesBegin

(* All of them are there. *)
LiveMoves(o) ==
  /\ Moves(o, "starting", "done") /\ ViewMoves(o) /\ SameList /\ list'.watching
  /\ FirstAnswered(o) /\ ~AnyRefused(o) /\ UNCHANGED <<truth, conn, watchVars, crossed>>

LEMMA StartedIs ==
  ASSUME WatchShapes, NEW o \in Ops, Started(o)
  PROVE  LiveMoves(o)
<1> USE DEF LiveMoves
<1>1. /\ op[o].pc = "starting" /\ op' = [op EXCEPT ![o] = Rests(op[o])] /\ Remembers(o)
      /\ list' = [list EXCEPT !.watching = TRUE, !.stale = FALSE]
      /\ FirstAnswered(o) /\ ~AnyRefused(o) /\ UNCHANGED <<truth, conn, watchVars, crossed>>
  BY DEF Started
<1>2. OneOp(o) /\ op'[o].pc = "done" /\ op'[o].kind = op[o].kind
  BY <1>1, RestsIs
<1>3. SameList /\ list'.watching
  BY <1>1 DEF SameList, WatchShapes, Lists
<1>4. ViewMoves(o)
  BY <1>1, RemembersIs
<1>. QED
  BY <1>1, <1>2, <1>3, <1>4 DEF Moves

(* One of them is not. *)
FailMoves(o) ==
  /\ Moves(o, "starting", "failing") /\ SessionStops(o)
  /\ UNCHANGED <<truth, conn, view, list, holder, crossed>>

LEMMA StartFailsIs ==
  ASSUME WatchShapes, NEW o \in Ops, StartFails(o)
  PROVE  FailMoves(o)
<1> USE DEF FailMoves
<1> DEFINE w == IF session[o].stopped THEN NoWatch ELSE o
           r == [op[o] EXCEPT !.pc = "failing", !.waits = w]
<1>1. op[o] \in OpRecords
  BY DEF WatchShapes
<1>2. /\ op[o].pc = "starting" /\ session' = Silenced(o) /\ scope' = Halted(o)
      /\ UNCHANGED <<truth, conn, view, list, holder, crossed>>
  BY DEF StartFails
<1>3. OpPuts(o, r)
  BY DEF StartFails, OpPuts
<1>4. w \in Ops \cup {NoWatch}
  OBVIOUS
<1> HIDE DEF w
<1>5. r \in OpRecords /\ r.pc = "failing" /\ r.kind = op[o].kind
  BY <1>1, <1>4 DEF OpRecords
<1> HIDE DEF r
<1>6. OneOp(o) /\ op'[o] = r
  BY <1>3, <1>5, OneOpIs
<1>7. o # NoWatch
  BY WatchNoneApart
<1>8. SessionStops(o)
  BY <1>2, <1>7, StopsIs
<1>. QED
  BY <1>2, <1>5, <1>6, <1>8 DEF Moves

(* The session that could not start is forgotten. *)
EndMoves(o) ==
  /\ Moves(o, "failing", "done") /\ ViewMoves(o) /\ SameList /\ ~list'.watching
  /\ holder' = NoWatch /\ UNCHANGED <<truth, conn, session, scope, crossed>>

LEMMA FailedIs ==
  ASSUME WatchShapes, NEW o \in Ops, Failed(o)
  PROVE  EndMoves(o)
<1> USE DEF EndMoves
<1>1. /\ op[o].pc = "failing" /\ op' = [op EXCEPT ![o] = Rests(op[o])] /\ Remembers(o)
      /\ list' = [list EXCEPT !.watching = FALSE, !.stale = TRUE]
      /\ holder' = NoWatch /\ UNCHANGED <<truth, conn, session, scope, crossed>>
  BY DEF Failed
<1>2. OneOp(o) /\ op'[o].pc = "done" /\ op'[o].kind = op[o].kind
  BY <1>1, RestsIs
<1>3. SameList /\ ~list'.watching
  BY <1>1 DEF SameList, WatchShapes, Lists
<1>4. ViewMoves(o)
  BY <1>1, RemembersIs
<1>. QED
  BY <1>1, <1>2, <1>3, <1>4 DEF Moves

(* The changes that wait. *)
LEMMA LastIsOne ==
  ASSUME NEW p \in Seq(Namespaces \X Nat), NEW n, NEW i \in DOMAIN p, NEW j \in DOMAIN p,
         IsLast(p, n, i), IsLast(p, n, j)
  PROVE  i = j
<1>1. DOMAIN p \subseteq Nat
  BY LenProperties
<1>2. i <= j /\ j <= i
  BY DEF IsLast
<1>. QED
  BY <1>1, <1>2

LEMMA PendingIs ==
  ASSUME NEW p \in Seq(Namespaces \X Nat), NEW i \in DOMAIN p
  PROVE  p[i][1] \in Namespaces /\ p[i][2] \in Nat
<1>1. p[i] \in Namespaces \X Nat
  BY ElementOfSeq, LenProperties
<1>. QED
  BY <1>1

LEMMA AppliesIs ==
  ASSUME NEW items \in Versions, NEW p \in Seq(Namespaces \X Nat),
         \A i \in DOMAIN p : \E j \in DOMAIN p : IsLast(p, p[i][1], j)
  PROVE  /\ applyChanges(items, p) \in Versions
         /\ \A n \in DOMAIN items : n \in DOMAIN applyChanges(items, p)
         /\ \A j \in DOMAIN p : IsLast(p, p[j][1], j) => applyChanges(items, p)[p[j][1]] = p[j][2]
         /\ \A n \in DOMAIN items : (\A i \in DOMAIN p : p[i][1] # n) => applyChanges(items, p)[n] = items[n]
<1> DEFINE touched == {p[i][1] : i \in DOMAIN p}
           at(n)   == CHOOSE i \in DOMAIN p : p[i][1] = n /\ \A j \in DOMAIN p : p[j][1] = n => j <= i
           last    == [n \in touched |-> p[at(n)][2]]
           to      == [n \in touched \cup DOMAIN items |-> IF n \in touched THEN last[n] ELSE items[n]]
<1>1. applyChanges(items, p) = [n \in DOMAIN last \cup DOMAIN items |-> IF n \in DOMAIN last THEN last[n] ELSE items[n]]
  BY DEF applyChanges
<1>2. applyChanges(items, p) = to
  BY <1>1
<1>3. ASSUME NEW j \in DOMAIN p, IsLast(p, p[j][1], j)
      PROVE  at(p[j][1]) = j
  <2>1. \E i \in DOMAIN p : p[i][1] = p[j][1] /\ \A k \in DOMAIN p : p[k][1] = p[j][1] => k <= i
    BY <1>3 DEF IsLast
  <2>2. at(p[j][1]) \in DOMAIN p /\ IsLast(p, p[j][1], at(p[j][1]))
    BY <2>1 DEF IsLast
  <2> HIDE DEF at
  <2>. QED
    BY <1>3, <2>2, LastIsOne
<1> HIDE DEF at
<1>4. ASSUME NEW n \in touched
      PROVE  n \in Namespaces /\ last[n] \in Nat
  <2>1. PICK i \in DOMAIN p : n = p[i][1]
    OBVIOUS
  <2>2. PICK j \in DOMAIN p : IsLast(p, n, j)
    BY <2>1
  <2>3. p[j][1] = n
    BY <2>2 DEF IsLast
  <2>4. at(n) = j
    BY <1>3, <2>2, <2>3
  <2>. QED
    BY <2>3, <2>4, PendingIs
<1>5. \A j \in DOMAIN p : IsLast(p, p[j][1], j) => p[j][1] \in touched /\ last[p[j][1]] = p[j][2]
  BY <1>3
<1> HIDE DEF last
<1>6. DOMAIN items \subseteq Namespaces /\ \A n \in DOMAIN items : items[n] \in Nat
  BY VersionsAre
<1>7. \A n \in touched \cup DOMAIN items : to[n] \in Nat
  BY <1>4, <1>6
<1>8. touched \cup DOMAIN items \in SUBSET Namespaces /\ to \in [touched \cup DOMAIN items -> Nat]
  BY <1>4, <1>6, <1>7
<1>9. to \in Versions
  <2> HIDE DEF to, touched
  <2>. QED
    BY <1>8, VersionsAre
<1>10. \A n \in DOMAIN items : (\A i \in DOMAIN p : p[i][1] # n) => to[n] = items[n]
  OBVIOUS
<1>11. \A n \in DOMAIN items : n \in DOMAIN to
  OBVIOUS
<1>12. \A j \in DOMAIN p : IsLast(p, p[j][1], j) => to[p[j][1]] = p[j][2]
  BY <1>5
<1>. QED
  BY <1>2, <1>9, <1>10, <1>11, <1>12

(* What waits is shown. *)
Flushed(o) ==
  /\ session[o].pending # <<>>
  /\ session' \in [Ops -> WatchSessions] /\ \A q \in Ops \ {o} : session'[q] = session[q]
  /\ session'[o].pending = <<>> /\ session'[o].stopped = session[o].stopped
  /\ session'[o].resyncing = session[o].resyncing
  /\ session'[o].staled = session[o].staled /\ session'[o].early = session[o].early
  /\ list' \in Lists /\ list'.loaded = list.loaded /\ list'.watching = list.watching
  /\ list'.cursors = list.cursors
  /\ list.loaded => list'.items = applyChanges(list.items, session[o].pending)
  /\ UNCHANGED <<truth, conn, view, op, holder, scope, crossed>>

LEMMA SessionPuts ==
  ASSUME WatchShapes, NEW o \in Ops, NEW r \in WatchSessions, session' = [session EXCEPT ![o] = r]
  PROVE  /\ session' \in [Ops -> WatchSessions] /\ session'[o] = r
         /\ \A q \in Ops \ {o} : session'[q] = session[q]
BY DEF WatchShapes

LEMMA flushIs ==
  ASSUME WatchShapes, WatchLasts, NEW o \in Ops, flush(o)
  PROVE  Flushed(o)
<1> DEFINE r == [session[o] EXCEPT !.pending = <<>>]
<1>1. /\ session[o] \in WatchSessions /\ list \in Lists /\ session[o].pending \in Seq(Namespaces \X Nat)
      /\ session[o].pending # <<>>
  BY DEF WatchShapes, WatchSessions, flush
<1>2. /\ r \in WatchSessions /\ r.pending = <<>> /\ r.stopped = session[o].stopped
      /\ r.resyncing = session[o].resyncing /\ r.staled = session[o].staled /\ r.early = session[o].early
  BY <1>1, EmptySeq DEF WatchSessions
<1>3. session' = [session EXCEPT ![o] = r] /\ UNCHANGED <<truth, conn, view, op, holder, scope, crossed>>
  BY DEF flush
<1> HIDE DEF r
<1>4. /\ session' \in [Ops -> WatchSessions] /\ session'[o] = r
      /\ \A q \in Ops \ {o} : session'[q] = session[q]
  BY <1>2, <1>3, SessionPuts
<1>5. CASE list.loaded
  <2> DEFINE to == applyChanges(list.items, session[o].pending)
  <2>1. to \in Versions
    BY <1>1, AppliesIs DEF WatchLasts, Lists
  <2>2. list' = [list EXCEPT !.items = to]
    BY <1>5 DEF flush
  <2> HIDE DEF to
  <2>3. /\ list' \in Lists /\ list'.loaded = list.loaded /\ list'.watching = list.watching
        /\ list'.cursors = list.cursors /\ list'.items = to
    BY <1>1, <2>1, <2>2 DEF Lists
  <2>. QED
    BY <1>1, <1>2, <1>3, <1>4, <2>3 DEF Flushed, to
<1>6. CASE ~list.loaded
  BY <1>1, <1>2, <1>3, <1>4, <1>6 DEF Flushed, flush
<1>. QED
  BY <1>5, <1>6

(* A change arrives: the scope remembers it, the session keeps it. *)
Hears(o, n) ==
  /\ scope[o][n].link = "open" /\ ~Deaf(o, n)
  /\ scope' \in [Ops -> [Namespaces -> Scopes]]
  /\ \A p \in Ops, m \in Namespaces : p # o \/ m # n => scope'[p][m] = scope[p][m]
  /\ scope'[o][n].rv = scope[o][n].rv + 1 /\ scope'[o][n].link = scope[o][n].link
  /\ scope'[o][n].retry = scope[o][n].retry /\ scope'[o][n].stopped = scope[o][n].stopped
  /\ session' \in [Ops -> WatchSessions] /\ \A q \in Ops \ {o} : session'[q] = session[q]
  /\ session'[o].stopped = session[o].stopped /\ session'[o].resyncing = session[o].resyncing
  /\ session'[o].staled = session[o].staled /\ session'[o].early = session[o].early
  /\ \/ session[o].resyncing /\ session'[o].pending = <<>>
     \/ session'[o].pending = Append(session[o].pending, <<n, scope[o][n].rv + 1>>)
  /\ UNCHANGED <<truth, conn, view, list, op, holder, crossed>>

LEMMA ResyncsIs ==
  ASSUME WatchShapes, NEW o \in Ops, NEW r \in Ops, NEW sc, Resyncs(o, r, sc), ~session[o].stopped,
         sc \in [Ops -> [Namespaces -> Scopes]],
         \A q \in Ops, m \in Namespaces :
           /\ sc[q][m].link = scope[q][m].link /\ sc[q][m].retry = scope[q][m].retry
           /\ sc[q][m].stopped = scope[q][m].stopped,
         \A q \in Ops : q # o => sc[q] = scope[q],
         UNCHANGED <<truth, conn, view, list>>
  PROVE  Fresh(r) /\ ResyncMoves(o, r)
<1> DEFINE stop == holder # NoWatch /\ ~session[holder].stopped
           told == [session EXCEPT ![o].resyncing = TRUE, ![o].pending = <<>>]
           t    == [session[o] EXCEPT !.resyncing = TRUE, !.pending = <<>>]
<1>1. /\ Fresh(r) /\ Begins(r, "resync", op[o].sel, "unwatching", StopAwaited) /\ holder' = NoWatch
      /\ session' = IF stop THEN [told EXCEPT ![holder].stopped = TRUE, ![holder].pending = <<>>] ELSE told
      /\ scope' = IF stop THEN [sc EXCEPT ![holder] = Ended(sc[holder])] ELSE sc
  BY DEF Resyncs
<1>2. op[o].sel \in SUBSET Namespaces /\ Idle(r) /\ "unwatching" \in {"unwatching", "loading", "done"}
  BY <1>1 DEF WatchShapes, OpRecords, Fresh
<1>3. Begun(r, "resync", "unwatching")
  BY <1>1, <1>2, BeginsIs, AwaitedIs
<1>b. told = [session EXCEPT ![o] = t]
  OBVIOUS
<1>c. session[o] \in WatchSessions
  BY DEF WatchShapes
<1> HIDE DEF told
<1>4. /\ t \in WatchSessions
      /\ t.resyncing /\ t.pending = <<>> /\ t.stopped = session[o].stopped
      /\ t.staled = session[o].staled /\ t.early = session[o].early
  BY <1>c, EmptySeq DEF WatchSessions
<1> HIDE DEF t
<1>5. /\ told \in [Ops -> WatchSessions] /\ told[o] = t /\ \A q \in Ops \ {o} : told[q] = session[q]
  BY <1>4, <1>b DEF WatchShapes
<1>a. holder \in Ops \cup {NoWatch} /\ NoWatch \notin Ops
  BY WatchNoneApart DEF WatchShapes
<1>6. CASE ~stop
  <2>1. session' = told /\ scope' = sc
    BY <1>1, <1>6
  <2>2. \A q \in Ops : q = holder => session[q].stopped
    BY <1>6, <1>a
  <2>3. \A q \in Ops :
          /\ session'[q].stopped = (session[q].stopped \/ q = holder)
          /\ (q = o \/ (q = holder /\ ~session[q].stopped)) => session'[q].pending = <<>>
          /\ (q # o /\ (q # holder \/ session[q].stopped)) => session'[q].pending = session[q].pending
          /\ session'[q].staled = session[q].staled /\ session'[q].early = session[q].early
          /\ session'[q].resyncing = (session[q].resyncing \/ q = o)
    <3> TAKE q \in Ops
    <3>0. session[q].stopped \in BOOLEAN /\ session[q].resyncing \in BOOLEAN
          /\ t.stopped \in BOOLEAN /\ t.resyncing \in BOOLEAN
      BY <1>4 DEF WatchShapes, WatchSessions
    <3>1. CASE q = o
      BY <1>4, <1>5, <2>1, <2>2, <3>0, <3>1
    <3>2. CASE q # o
      BY <1>5, <2>1, <2>2, <3>0, <3>2
    <3>. QED
      BY <3>1, <3>2
  <2>4. session' \in [Ops -> WatchSessions] /\ scope' \in [Ops -> [Namespaces -> Scopes]]
    BY <1>5, <2>1
  <2>5. \A q \in Ops :
       /\ ~(q = holder /\ ~session[q].stopped)
       /\ \A m \in Namespaces :
            /\ scope'[q][m].link = scope[q][m].link /\ scope'[q][m].retry = scope[q][m].retry
            /\ scope'[q][m].stopped = scope[q][m].stopped
       /\ q # holder /\ q # o => scope'[q] = scope[q]
    BY <2>1, <2>2
  <2>6. \A q \in Ops :
       /\ q = holder /\ ~session[q].stopped => ScopesEnd(q)
       /\ ~(q = holder /\ ~session[q].stopped) => \A m \in Namespaces :
            /\ scope'[q][m].link = scope[q][m].link /\ scope'[q][m].retry = scope[q][m].retry
            /\ scope'[q][m].stopped = scope[q][m].stopped
       /\ q # holder /\ q # o => scope'[q] = scope[q]
    BY <2>5
  <2>. QED
    BY <1>1, <1>3, <2>3, <2>4, <2>6 DEF ResyncMoves
<1>7. CASE stop
  <2> DEFINE h == [told[holder] EXCEPT !.stopped = TRUE, !.pending = <<>>]
  <2>1. holder \in Ops /\ ~session[holder].stopped
    BY <1>7, <1>a
  <2>2. session' = [told EXCEPT ![holder] = h] /\ scope' = [sc EXCEPT ![holder] = Ended(sc[holder])]
    BY <1>1, <1>7
  <2>3. /\ h \in WatchSessions /\ h.stopped /\ h.pending = <<>> /\ h.staled = told[holder].staled
        /\ h.early = told[holder].early /\ h.resyncing = told[holder].resyncing
    <3>1. told[holder] \in WatchSessions
      BY <1>5, <2>1
    <3>. QED
      BY <3>1, EmptySeq DEF WatchSessions
  <2> HIDE DEF h
  <2>4. session' \in [Ops -> WatchSessions] /\ session'[holder] = h /\ \A q \in Ops \ {holder} : session'[q] = told[q]
    BY <1>5, <2>1, <2>2, <2>3
  <2>5. \A q \in Ops :
          /\ session'[q].stopped = (session[q].stopped \/ q = holder)
          /\ (q = o \/ (q = holder /\ ~session[q].stopped)) => session'[q].pending = <<>>
          /\ (q # o /\ (q # holder \/ session[q].stopped)) => session'[q].pending = session[q].pending
          /\ session'[q].staled = session[q].staled /\ session'[q].early = session[q].early
          /\ session'[q].resyncing = (session[q].resyncing \/ q = o)
    <3> TAKE q \in Ops
    <3>0. session[q].stopped \in BOOLEAN /\ session[q].resyncing \in BOOLEAN
          /\ t.stopped \in BOOLEAN /\ t.resyncing \in BOOLEAN
          /\ h.stopped \in BOOLEAN /\ h.resyncing \in BOOLEAN
      BY <1>4, <2>3 DEF WatchShapes, WatchSessions
    <3>1. CASE q = o /\ q = holder
      <4>1. session'[q] = h /\ told[holder] = t
        BY <1>5, <2>4, <3>1
      <4>. QED
        BY <1>4, <2>3, <3>1, <4>1
    <3>2. CASE q = o /\ q # holder
      BY <1>4, <1>5, <2>1, <2>3, <2>4, <3>0, <3>2
    <3>3. CASE q # o /\ q = holder
      BY <1>4, <1>5, <2>1, <2>3, <2>4, <3>0, <3>3
    <3>4. CASE q # o /\ q # holder
      BY <1>4, <1>5, <2>1, <2>3, <2>4, <3>0, <3>4
    <3>. QED
      BY <3>1, <3>2, <3>3, <3>4
  <2>6. ASSUME NEW m \in Namespaces
        PROVE  /\ Ended(sc[holder])[m] \in Scopes
               /\ Ended(sc[holder])[m].stopped /\ ~Ended(sc[holder])[m].retry
               /\ Ended(sc[holder])[m].link = Halts(scope[holder][m].link)
    <3>1. sc[holder][m] \in Scopes /\ sc[holder][m].link = scope[holder][m].link
      BY <2>1
    <3>2. Ended(sc[holder])[m] = [Unopened EXCEPT !.stopped = TRUE, !.link = Halts(sc[holder][m].link)]
      BY DEF Ended
    <3>3. Ended(sc[holder])[m] = [link |-> Halts(sc[holder][m].link), rv |-> 0, flaps |-> 0,
                                  retry |-> FALSE, stopped |-> TRUE]
      BY <3>2 DEF Unopened
    <3>4. Halts(sc[holder][m].link) \in {"none", "asked", "refused", "open", "reasked", "stopping", "closed"}
      BY <3>1 DEF Scopes, Halts
    <3>. QED
      BY <3>1, <3>3, <3>4 DEF Scopes
  <2>7. Ended(sc[holder]) \in [Namespaces -> Scopes]
    BY <2>6 DEF Ended
  <2>8. scope' \in [Ops -> [Namespaces -> Scopes]] /\ scope'[holder] = Ended(sc[holder])
        /\ \A q \in Ops \ {holder} : scope'[q] = sc[q]
    BY <2>1, <2>2, <2>7
  <2>9. ScopesEnd(holder)
    BY <2>6, <2>8 DEF ScopesEnd
  <2>10. \A q \in Ops :
       /\ q = holder /\ ~session[q].stopped => ScopesEnd(q)
       /\ ~(q = holder /\ ~session[q].stopped) => \A m \in Namespaces :
            /\ scope'[q][m].link = scope[q][m].link /\ scope'[q][m].retry = scope[q][m].retry
            /\ scope'[q][m].stopped = scope[q][m].stopped
       /\ q # holder /\ q # o => scope'[q] = scope[q]
    <3> TAKE q \in Ops
    <3>1. CASE q = holder
      BY <2>1, <2>9, <3>1
    <3>2. CASE q # holder
      <4>1. scope'[q] = sc[q]
        BY <2>8, <3>2
      <4>. QED
        BY <3>2, <4>1
    <3>. QED
      BY <3>1, <3>2
  <2>. QED
    BY <1>1, <1>3, <2>4, <2>5, <2>8, <2>10 DEF ResyncMoves
<1>. QED
  BY <1>6, <1>7

(* A stream makes its session ask for a resync. *)
RestartMoves(o, n) ==
  /\ scope[o][n].link = "open" /\ ~Deaf(o, n)
  /\ \E r \in Ops : Fresh(r) /\ ResyncMoves(o, r)

LEMMA ExpiredIs ==
  ASSUME WatchShapes, NEW o \in Ops, NEW n \in Namespaces, Expired(o, n)
  PROVE  RestartMoves(o, n)
<1> USE DEF RestartMoves
<1>1. /\ scope[o][n].link = "open" /\ ~Deaf(o, n) /\ UNCHANGED <<truth, conn, view, list>>
      /\ \E r \in Ops : Resyncs(o, r, scope)
  BY DEF Expired
<1>2. PICK r \in Ops : Resyncs(o, r, scope)
  BY <1>1
<1>3. scope \in [Ops -> [Namespaces -> Scopes]] /\ ~session[o].stopped
  BY <1>1 DEF WatchShapes, Deaf
<1>4. Fresh(r) /\ ResyncMoves(o, r)
  BY <1>1, <1>2, <1>3, ResyncsIs
<1>. QED
  BY <1>1, <1>4

LEMMA EventIs ==
  ASSUME WatchShapes, NEW o \in Ops, NEW n \in Namespaces, Event(o, n)
  PROVE  Hears(o, n) \/ RestartMoves(o, n)
<1> USE DEF RestartMoves
<1> DEFINE r  == [scope[o][n] EXCEPT !.rv = scope[o][n].rv + 1]
           sc == [scope EXCEPT ![o] = [scope[o] EXCEPT ![n] = r]]
           full == Len(session[o].pending) = MaxPending
<1>1. scope[o][n] \in Scopes /\ session[o] \in WatchSessions /\ scope[o] \in [Namespaces -> Scopes]
  BY DEF WatchShapes
<1>2. /\ r \in Scopes /\ r.link = scope[o][n].link /\ r.rv = scope[o][n].rv + 1
      /\ r.retry = scope[o][n].retry /\ r.stopped = scope[o][n].stopped
  BY <1>1 DEF Scopes
<1>3. /\ scope[o][n].link = "open" /\ ~Deaf(o, n) /\ UNCHANGED <<truth, conn, view, list>>
  BY DEF Event
<1>4. \/ full /\ ~session[o].resyncing /\ \E c \in Ops : Resyncs(o, c, sc)
      \/ /\ full => session[o].resyncing
         /\ scope' = sc /\ UNCHANGED <<op, crossed, holder>>
         /\ session' = [session EXCEPT ![o].pending =
                          IF full THEN <<>> ELSE Append(@, <<n, scope[o][n].rv + 1>>)]
  BY DEF Event
<1>5. CASE full /\ ~session[o].resyncing /\ \E c \in Ops : Resyncs(o, c, sc)
  <2>1. PICK c \in Ops : Resyncs(o, c, sc)
    BY <1>5
  <2> HIDE DEF r
  <2>2. [scope[o] EXCEPT ![n] = r] \in [Namespaces -> Scopes]
    BY <1>1, <1>2
  <2>3. /\ sc \in [Ops -> [Namespaces -> Scopes]] /\ sc[o] = [scope[o] EXCEPT ![n] = r]
        /\ \A q \in Ops : q # o => sc[q] = scope[q]
    BY <2>2 DEF WatchShapes
  <2> HIDE DEF sc
  <2>4. sc[o][n] = r /\ \A m \in Namespaces : m # n => sc[o][m] = scope[o][m]
    BY <1>1, <2>3
  <2>5. \A q \in Ops, m \in Namespaces :
           /\ sc[q][m].link = scope[q][m].link /\ sc[q][m].retry = scope[q][m].retry
           /\ sc[q][m].stopped = scope[q][m].stopped
    BY <1>2, <2>3, <2>4
  <2>6. ~session[o].stopped
    BY <1>3 DEF Deaf
  <2>7. Fresh(c) /\ ResyncMoves(o, c)
    BY <1>3, <2>1, <2>3, <2>5, <2>6, ResyncsIs
  <2>. QED
    BY <1>3, <2>7
<1>6. CASE /\ full => session[o].resyncing
           /\ scope' = sc /\ UNCHANGED <<op, crossed, holder>>
           /\ session' = [session EXCEPT ![o].pending =
                            IF full THEN <<>> ELSE Append(@, <<n, scope[o][n].rv + 1>>)]
  <2> DEFINE p == IF full THEN <<>> ELSE Append(session[o].pending, <<n, scope[o][n].rv + 1>>)
             s == [session[o] EXCEPT !.pending = p]
  <2>1. Puts(o, n, r)
    BY <1>6 DEF Puts
  <2> HIDE DEF r, sc
  <2>2. /\ scope' \in [Ops -> [Namespaces -> Scopes]] /\ scope'[o][n] = r
        /\ \A q \in Ops, m \in Namespaces : q # o \/ m # n => scope'[q][m] = scope[q][m]
    BY <1>2, <2>1, OneScope
  <2>3. p \in Seq(Namespaces \X Nat)
    <3>1. session[o].pending \in Seq(Namespaces \X Nat) /\ <<n, scope[o][n].rv + 1>> \in Namespaces \X Nat
      BY <1>1 DEF WatchSessions, Scopes
    <3>2. Append(session[o].pending, <<n, scope[o][n].rv + 1>>) \in Seq(Namespaces \X Nat)
      BY <3>1, AppendProperties
    <3>. QED
      BY <3>2, EmptySeq
  <2>4. session' = [session EXCEPT ![o] = s]
    BY <1>6
  <2>5. (full /\ p = <<>>) \/ p = Append(session[o].pending, <<n, scope[o][n].rv + 1>>)
    OBVIOUS
  <2> HIDE DEF p
  <2>6. /\ s \in WatchSessions /\ s.pending = p /\ s.stopped = session[o].stopped
        /\ s.resyncing = session[o].resyncing /\ s.staled = session[o].staled /\ s.early = session[o].early
    BY <1>1, <2>3 DEF WatchSessions
  <2> HIDE DEF s
  <2>7. /\ session' \in [Ops -> WatchSessions] /\ session'[o] = s
        /\ \A q \in Ops \ {o} : session'[q] = session[q]
    BY <2>4, <2>6, SessionPuts
  <2>8. Hears(o, n)
    BY <1>2, <1>3, <1>6, <2>2, <2>5, <2>6, <2>7 DEF Hears
  <2>. QED
    BY <1>3, <2>8
<1> HIDE DEF sc, full
<1>. QED
  BY <1>4, <1>5, <1>6

(* The cluster goes. *)
Drained ==
  /\ conn' = "draining" /\ UNCHANGED <<truth, view, list, op, holder, session, crossed>>
  /\ scope' \in [Ops -> [Namespaces -> Scopes]]
  /\ \A p \in Ops, m \in Namespaces :
       /\ scope'[p][m].stopped = scope[p][m].stopped /\ scope'[p][m].retry = scope[p][m].retry
       /\ scope'[p][m].link = Halts(scope[p][m].link)
       /\ scope[p][m].link # "open" => scope'[p][m] = scope[p][m]

LEMMA DrainsIs ==
  ASSUME WatchShapes, Drains
  PROVE  Drained
<1> DEFINE r(p, m) == IF scope[p][m].link = "open" THEN [scope[p][m] EXCEPT !.link = "stopping"] ELSE scope[p][m]
<1>1. scope' = [p \in Ops |-> [m \in Namespaces |-> r(p, m)]]
  BY DEF Drains
<1>2. ASSUME NEW p \in Ops, NEW m \in Namespaces
      PROVE  /\ r(p, m) \in Scopes /\ r(p, m).stopped = scope[p][m].stopped /\ r(p, m).retry = scope[p][m].retry
             /\ r(p, m).link = Halts(scope[p][m].link)
             /\ scope[p][m].link # "open" => r(p, m) = scope[p][m]
  <2>1. scope[p][m] \in Scopes
    BY DEF WatchShapes
  <2>. QED
    BY <2>1 DEF Scopes, Halts
<1> HIDE DEF r
<1>3. ASSUME NEW p \in Ops
      PROVE  scope'[p] = [m \in Namespaces |-> r(p, m)] /\ scope'[p] \in [Namespaces -> Scopes]
  BY <1>1, <1>2
<1>4. scope' \in [Ops -> [Namespaces -> Scopes]] /\ \A p \in Ops, m \in Namespaces : scope'[p][m] = r(p, m)
  BY <1>1, <1>3
<1>5. conn' = "draining" /\ UNCHANGED <<truth, view, list, op, holder, session, crossed>>
  BY DEF Drains
<1>. QED
  BY <1>2, <1>4, <1>5 DEF Drained

(* The cluster is closed. *)
CutMoves ==
  /\ conn' = "closed" /\ Quits /\ UNCHANGED <<truth, view, op, crossed>>
  /\ list' \in Lists /\ list' = EmptyList

LEMMA DisconnectedIs ==
  ASSUME WatchShapes, Disconnected
  PROVE  CutMoves
<1> USE DEF CutMoves
<1>1. stopAt /\ conn' = "closed" /\ list' = EmptyList /\ UNCHANGED <<truth, view, op, crossed>>
  BY DEF Disconnected
<1>2. Quits
  BY <1>1, StopAtIs DEF Quits
<1>3. EmptyList \in Lists
  BY VersionsAre DEF EmptyList, Lists
<1>. QED
  BY <1>1, <1>2, <1>3

(* Somebody writes, or nothing happens. *)
WriteMoves ==
  truth' \in [Namespaces -> Nat] /\ UNCHANGED <<conn, view, list, op, watchVars, crossed>>

LEMMA WriteIs ==
  ASSUME WatchShapes, NEW n \in Namespaces, Write(n)
  PROVE  WriteMoves
BY DEF WatchShapes, Write, WriteMoves

(* What a step may do. *)
WatchMove ==
  \/ WriteMoves \/ Drained \/ CutMoves
  \/ \E o \in Ops :
       \/ ReloadMoves(o) \/ LeaveMoves(o) \/ UnwatchMoves(o) \/ ServeMoves(o) \/ LoadMoves(o)
       \/ NoLoadMoves(o) \/ StartMoves(o) \/ LiveMoves(o) \/ FailMoves(o) \/ EndMoves(o) \/ Flushed(o)
       \/ \E n \in Namespaces : StreamMoves(o, n) \/ Hears(o, n) \/ RestartMoves(o, n)

LEMMA WatchMoveIs ==
  ASSUME WatchShapes, WatchDead, WatchLasts, [WatchNext]_listVars
  PROVE  WatchMove
<1>1. CASE UNCHANGED listVars
  BY <1>1 DEF WatchShapes, listVars, watchVars, WriteMoves, WatchMove
<1>2. CASE WatchNext
  <2>1. ASSUME NEW n \in Namespaces, Write(n) PROVE WatchMove
    BY <2>1, WriteIs DEF WatchMove
  <2>2. CASE Drains
    BY <2>2, DrainsIs DEF WatchMove
  <2>3. CASE Disconnected
    BY <2>3, DisconnectedIs DEF WatchMove
  <2>4. ASSUME NEW o \in Ops, NEW sel \in Selections, Reload(o, sel) PROVE WatchMove
    BY <2>4, ReloadIs DEF WatchMove
  <2>5. ASSUME NEW o \in Ops, Leave(o) PROVE WatchMove
    BY <2>5, LeaveIs DEF WatchMove
  <2>6. ASSUME NEW o \in Ops, Unwatched(o) PROVE WatchMove
    BY <2>6, UnwatchedIs DEF WatchMove
  <2>7. ASSUME NEW o \in Ops, Served(o) PROVE WatchMove
    BY <2>7, ServedIs DEF WatchMove
  <2>8. ASSUME NEW o \in Ops, ListLoaded(o) PROVE WatchMove
    BY <2>8, ListLoadedIs DEF WatchMove
  <2>9. ASSUME NEW o \in Ops, LoadFailed(o) PROVE WatchMove
    BY <2>9, LoadFailedIs DEF WatchMove
  <2>10. ASSUME NEW o \in Ops, Starts(o) PROVE WatchMove
    BY <2>10, StartsIs DEF WatchMove
  <2>11. ASSUME NEW o \in Ops, Started(o) PROVE WatchMove
    BY <2>11, StartedIs DEF WatchMove
  <2>12. ASSUME NEW o \in Ops, StartFails(o) PROVE WatchMove
    BY <2>12, StartFailsIs DEF WatchMove
  <2>13. ASSUME NEW o \in Ops, Failed(o) PROVE WatchMove
    BY <2>13, FailedIs DEF WatchMove
  <2>14. ASSUME NEW o \in Ops, flush(o) PROVE WatchMove
    BY <2>14, flushIs DEF WatchMove
  <2>15. ASSUME NEW o \in Ops, NEW n \in Namespaces,
                Opened(o, n) \/ Refused(o, n) \/ ScopeRetries(o, n) \/ Stopped(o, n) \/ CutOff(o, n)
         PROVE  WatchMove
    <3>1. StreamMoves(o, n)
      BY <2>15, OpenedIs, RefusedIs, ScopeRetriesIs, StoppedIs, CutOffIs
    <3>. QED
      BY <3>1 DEF WatchMove
  <2>16. ASSUME NEW o \in Ops, NEW n \in Namespaces, NEW how \in {"eof", "flap", "error"}, StreamCloses(o, n, how)
         PROVE  WatchMove
    BY <2>16, StreamClosesIs DEF WatchMove
  <2>17. ASSUME NEW o \in Ops, NEW n \in Namespaces, Event(o, n) PROVE WatchMove
    BY <2>17, EventIs DEF WatchMove
  <2>18. ASSUME NEW o \in Ops, NEW n \in Namespaces, Expired(o, n) PROVE WatchMove
    BY <2>18, ExpiredIs DEF WatchMove
  <2>. QED
    BY <1>2, <2>1, <2>2, <2>3, <2>4, <2>5, <2>6, <2>7, <2>8, <2>9, <2>10, <2>11, <2>12, <2>13, <2>14,
       <2>15, <2>16, <2>17, <2>18 DEF WatchNext
<1>. QED
  BY <1>1, <1>2

-----------------------------------------------------------------------------
(* What every step keeps.                                                  *)

LEMMA ShapesKept ==
  ASSUME WatchShapes, WatchMove
  PROVE  WatchShapes'
<1>0. /\ truth \in [Namespaces -> Nat] /\ view \in [open : BOOLEAN, watched : BOOLEAN] /\ list \in Lists
      /\ op \in [Ops -> OpRecords] /\ holder \in Ops \cup {NoWatch} /\ session \in [Ops -> WatchSessions]
      /\ scope \in [Ops -> [Namespaces -> Scopes]] /\ crossed \in BOOLEAN
  BY DEF WatchShapes
<1>a. ASSUME NEW o \in Ops, NEW k, NEW c, Begun(o, k, c)
      PROVE  op' \in [Ops -> OpRecords] /\ crossed' \in BOOLEAN
  BY <1>0, <1>a DEF Begun, OneOp
<1>b. ASSUME NEW o \in Ops, NEW f, NEW c, Moves(o, f, c)
      PROVE  op' \in [Ops -> OpRecords]
  BY <1>b DEF Moves, OneOp
<1>c. Quits => /\ holder' \in Ops \cup {NoWatch} /\ session' \in [Ops -> WatchSessions]
               /\ scope' \in [Ops -> [Namespaces -> Scopes]]
  BY DEF Quits, SessionStops
<1>1. CASE WriteMoves
  BY <1>0, <1>1 DEF WriteMoves, watchVars, WatchShapes
<1>2. CASE Drained
  BY <1>0, <1>2 DEF Drained, WatchShapes
<1>3. CASE CutMoves
  BY <1>0, <1>c, <1>3 DEF CutMoves, WatchShapes
<1>4. ASSUME NEW o \in Ops, ReloadMoves(o) \/ LeaveMoves(o)
      PROVE  WatchShapes'
  <2>1. op' \in [Ops -> OpRecords] /\ crossed' \in BOOLEAN
    BY <1>a, <1>4 DEF ReloadMoves, LeaveMoves
  <2>2. CASE ReloadMoves(o)
    BY <1>0, <1>c, <2>1, <2>2 DEF ReloadMoves, SameList, watchVars, WatchShapes
  <2>3. CASE LeaveMoves(o)
    BY <1>0, <1>c, <2>1, <2>3 DEF LeaveMoves, watchVars, WatchShapes
  <2>. QED
    BY <1>4, <2>2, <2>3
<1>5. ASSUME NEW o \in Ops, UnwatchMoves(o) \/ ServeMoves(o) \/ StartMoves(o) \/ LiveMoves(o) \/ EndMoves(o)
      PROVE  WatchShapes'
  <2>1. op' \in [Ops -> OpRecords]
    BY <1>b, <1>5 DEF UnwatchMoves, ServeMoves, StartMoves, LiveMoves, EndMoves
  <2>2. CASE UnwatchMoves(o) \/ ServeMoves(o)
    BY <1>0, <2>1, <2>2 DEF UnwatchMoves, ServeMoves, SameList, watchVars, WatchShapes
  <2>3. CASE StartMoves(o)
    BY <1>0, <2>1, <2>3 DEF StartMoves, ScopesBegin, WatchShapes
  <2>4. CASE LiveMoves(o) \/ EndMoves(o)
    BY <1>0, <2>1, <2>4 DEF LiveMoves, EndMoves, SameList, ViewMoves, watchVars, WatchShapes
  <2>. QED
    BY <1>5, <2>2, <2>3, <2>4
<1>6. ASSUME NEW o \in Ops, LoadMoves(o) \/ NoLoadMoves(o)
      PROVE  WatchShapes'
  <2>1. op' \in [Ops -> OpRecords]
    BY <1>b, <1>6 DEF LoadMoves, NoLoadMoves, WatchMoves
  <2>. QED
    BY <1>0, <1>c, <1>6, <2>1 DEF LoadMoves, NoLoadMoves, WatchMoves, ViewMoves, watchVars, WatchShapes
<1>7. ASSUME NEW o \in Ops, FailMoves(o)
      PROVE  WatchShapes'
  <2>1. op' \in [Ops -> OpRecords]
    BY <1>b, <1>7 DEF FailMoves
  <2>. QED
    BY <1>0, <1>7, <2>1 DEF FailMoves, SessionStops, WatchShapes
<1>8. ASSUME NEW o \in Ops, Flushed(o)
      PROVE  WatchShapes'
  BY <1>0, <1>8 DEF Flushed, WatchShapes
<1>9. ASSUME NEW o \in Ops, NEW n \in Namespaces, StreamMoves(o, n) \/ Hears(o, n)
      PROVE  WatchShapes'
  BY <1>0, <1>9 DEF StreamMoves, Stales, Hears, WatchShapes
<1>10. ASSUME NEW o \in Ops, NEW n \in Namespaces, RestartMoves(o, n)
       PROVE  WatchShapes'
  <2>1. PICK r \in Ops : ResyncMoves(o, r)
    BY <1>10 DEF RestartMoves
  <2>2. op' \in [Ops -> OpRecords] /\ crossed' \in BOOLEAN
    BY <1>a, <2>1 DEF ResyncMoves
  <2>. QED
    BY <1>0, <2>1, <2>2 DEF ResyncMoves, WatchShapes
<1>. QED
  BY <1>1, <1>2, <1>3, <1>4, <1>5, <1>6, <1>7, <1>8, <1>9, <1>10 DEF WatchMove

(* Nobody but its coroutine brings a session to life. *)
LEMMA BornKept ==
  ASSUME WatchShapes, WatchBorn, WatchMove
  PROVE  WatchBorn'
<1> SUFFICES ASSUME NEW q \in Ops, (op[q].pc \in Unborn)'
             PROVE  (/\ holder # q /\ ~session[q].stopped /\ ~session[q].staled
                     /\ session[q].pending = <<>>
                     /\ \A n \in Namespaces : scope[q][n] = Unopened)'
  BY DEF WatchBorn
<1>a. holder \in Ops \cup {NoWatch} /\ NoWatch \notin Ops
  BY WatchNoneApart DEF WatchShapes
<1>b. Unopened.link = "none"
  BY DEF Unopened
<1>c. op[q].pc \in Unborn =>
        /\ holder # q /\ ~session[q].stopped /\ ~session[q].staled /\ session[q].pending = <<>>
        /\ \A n \in Namespaces : scope[q][n] = Unopened
  BY DEF WatchBorn
<1>d. Quits /\ op[q].pc \in Unborn => holder' = NoWatch /\ session'[q] = session[q] /\ scope'[q] = scope[q]
  BY <1>c DEF Quits, SessionStops
<1>1. CASE WriteMoves
  BY <1>1, <1>c DEF WriteMoves, watchVars
<1>2. CASE Drained
  BY <1>2, <1>b, <1>c DEF Drained
<1>3. CASE CutMoves
  BY <1>3, <1>a, <1>c, <1>d DEF CutMoves
<1>4. ASSUME NEW o \in Ops, ReloadMoves(o) \/ LeaveMoves(o)
      PROVE  /\ holder' # q /\ ~session'[q].stopped /\ ~session'[q].staled /\ session'[q].pending = <<>>
             /\ \A n \in Namespaces : scope'[q][n] = Unopened
  <2>1. op[q].pc \in Unborn
    BY <1>4 DEF ReloadMoves, LeaveMoves, Begun, OneOp, Unborn
  <2>. QED
    BY <1>4, <1>a, <1>c, <1>d, <2>1 DEF ReloadMoves, LeaveMoves, watchVars
<1>5. ASSUME NEW o \in Ops,
             UnwatchMoves(o) \/ ServeMoves(o) \/ LiveMoves(o) \/ EndMoves(o)
      PROVE  /\ holder' # q /\ ~session'[q].stopped /\ ~session'[q].staled /\ session'[q].pending = <<>>
             /\ \A n \in Namespaces : scope'[q][n] = Unopened
  <2>1. op[q].pc \in Unborn
    BY <1>5 DEF UnwatchMoves, ServeMoves, LiveMoves, EndMoves, Moves, OneOp, Unborn
  <2>. QED
    BY <1>5, <1>a, <1>c, <2>1 DEF UnwatchMoves, ServeMoves, LiveMoves, EndMoves, watchVars
<1>6. ASSUME NEW o \in Ops, LoadMoves(o) \/ NoLoadMoves(o)
      PROVE  /\ holder' # q /\ ~session'[q].stopped /\ ~session'[q].staled /\ session'[q].pending = <<>>
             /\ \A n \in Namespaces : scope'[q][n] = Unopened
  <2>1. op[q].pc \in Unborn
    BY <1>6 DEF LoadMoves, NoLoadMoves, WatchMoves, Moves, OneOp, Unborn
  <2>. QED
    BY <1>6, <1>a, <1>c, <1>d, <2>1 DEF LoadMoves, NoLoadMoves, WatchMoves, watchVars
<1>7. ASSUME NEW o \in Ops, StartMoves(o) \/ FailMoves(o)
      PROVE  /\ holder' # q /\ ~session'[q].stopped /\ ~session'[q].staled /\ session'[q].pending = <<>>
             /\ \A n \in Namespaces : scope'[q][n] = Unopened
  <2>1. op[q].pc \in Unborn /\ q # o
    BY <1>7 DEF StartMoves, FailMoves, Moves, OneOp, Unborn
  <2>. QED
    BY <1>7, <1>c, <2>1 DEF StartMoves, FailMoves, ScopesBegin, SessionStops
<1>8. ASSUME NEW o \in Ops, Flushed(o)
      PROVE  /\ holder' # q /\ ~session'[q].stopped /\ ~session'[q].staled /\ session'[q].pending = <<>>
             /\ \A n \in Namespaces : scope'[q][n] = Unopened
  BY <1>8, <1>c DEF Flushed
<1>9. ASSUME NEW o \in Ops, NEW n \in Namespaces, StreamMoves(o, n) \/ Hears(o, n)
      PROVE  /\ holder' # q /\ ~session'[q].stopped /\ ~session'[q].staled /\ session'[q].pending = <<>>
             /\ \A m \in Namespaces : scope'[q][m] = Unopened
  <2>1. op[q].pc \in Unborn /\ scope[o][n].link # "none"
    BY <1>9 DEF StreamMoves, Hears
  <2>2. q # o
    BY <1>b, <1>c, <2>1
  <2>. QED
    BY <1>9, <1>c, <2>1, <2>2 DEF StreamMoves, Stales, Hears
<1>10. ASSUME NEW o \in Ops, NEW n \in Namespaces, RestartMoves(o, n)
       PROVE  /\ holder' # q /\ ~session'[q].stopped /\ ~session'[q].staled /\ session'[q].pending = <<>>
              /\ \A m \in Namespaces : scope'[q][m] = Unopened
  <2>1. PICK r \in Ops : ResyncMoves(o, r)
    BY <1>10 DEF RestartMoves
  <2>2. op[q].pc \in Unborn
    BY <2>1 DEF ResyncMoves, Begun, OneOp, Unborn
  <2>3. q # o
    BY <1>10, <1>b, <1>c, <2>2 DEF RestartMoves
  <2>. QED
    BY <1>a, <1>c, <2>1, <2>2, <2>3 DEF ResyncMoves
<1>. QED
  BY <1>1, <1>2, <1>3, <1>4, <1>5, <1>6, <1>7, <1>8, <1>9, <1>10 DEF WatchMove

(* A session is stopped with its scopes and for good. *)
LEMMA DeadKept ==
  ASSUME WatchShapes, WatchBorn, WatchDead, WatchMove
  PROVE  WatchDead'
<1> DEFINE Dead(q) ==
      /\ \A n \in Namespaces :
           /\ scope[q][n].stopped <=> session[q].stopped
           /\ scope[q][n].retry => scope[q][n].link = "closed" /\ ~session[q].stopped
      /\ session[q].stopped => session[q].pending = <<>>
      /\ holder = q /\ session[q].stopped => op[q].pc = "failing"
      /\ op[q].pc = "failing" => session[q].stopped
<1> SUFFICES ASSUME NEW q \in Ops PROVE Dead(q)'
  BY DEF WatchDead
<1>a. holder \in Ops \cup {NoWatch} /\ NoWatch \notin Ops
  BY WatchNoneApart DEF WatchShapes
<1>b. Dead(q)
  BY DEF WatchDead
<1>c. ASSUME Quits
      PROVE  /\ holder' # q
             /\ \A n \in Namespaces :
                  /\ scope'[q][n].stopped <=> session'[q].stopped
                  /\ scope'[q][n].retry => scope'[q][n].link = "closed" /\ ~session'[q].stopped
             /\ session'[q].stopped => session'[q].pending = <<>>
             /\ session[q].stopped => session'[q].stopped
  <2>1. CASE q = holder
    BY <1>a, <1>b, <1>c, <2>1 DEF Quits, SessionStops, ScopesEnd
  <2>2. CASE q # holder
    BY <1>a, <1>b, <1>c, <2>2 DEF Quits, SessionStops
  <2>. QED
    BY <2>1, <2>2
<1>1. CASE WriteMoves
  BY <1>1, <1>b DEF WriteMoves, watchVars
<1>2. CASE Drained
  BY <1>2, <1>b DEF Drained, Halts
<1>3. CASE CutMoves
  BY <1>3, <1>b, <1>c DEF CutMoves
<1>4. ASSUME NEW o \in Ops, ReloadMoves(o) \/ LeaveMoves(o)
      PROVE  Dead(q)'
  <2>1. op'[q].pc = op[q].pc \/ (op[q].pc = "idle" /\ op'[q].pc \in {"unwatching", "loading", "done"})
    BY <1>4 DEF ReloadMoves, LeaveMoves, Begun, OneOp
  <2>2. Quits \/ UNCHANGED watchVars
    BY <1>4 DEF ReloadMoves, LeaveMoves
  <2>. QED
    BY <1>b, <1>c, <2>1, <2>2 DEF watchVars
<1>5. ASSUME NEW o \in Ops,
             UnwatchMoves(o) \/ ServeMoves(o) \/ LiveMoves(o) \/ EndMoves(o)
      PROVE  Dead(q)'
  <2>1. CASE EndMoves(o)
    BY <1>a, <1>b, <2>1 DEF EndMoves, Moves, OneOp
  <2>2. CASE UnwatchMoves(o) \/ ServeMoves(o) \/ LiveMoves(o)
    <3>1. op'[q].pc = op[q].pc \/ (op[q].pc # "failing" /\ op'[q].pc # "failing")
      BY <2>2 DEF UnwatchMoves, ServeMoves, LiveMoves, Moves, OneOp
    <3>2. UNCHANGED watchVars
      BY <2>2 DEF UnwatchMoves, ServeMoves, LiveMoves
    <3>. QED
      BY <1>b, <3>1, <3>2 DEF watchVars
  <2>. QED
    BY <1>5, <2>1, <2>2
<1>6. ASSUME NEW o \in Ops, LoadMoves(o) \/ NoLoadMoves(o)
      PROVE  Dead(q)'
  <2>1. op'[q].pc = op[q].pc \/ (op[q].pc # "failing" /\ op'[q].pc # "failing")
    BY <1>6 DEF LoadMoves, NoLoadMoves, WatchMoves, Moves, OneOp
  <2>2. Quits \/ UNCHANGED watchVars
    BY <1>6 DEF LoadMoves, NoLoadMoves, WatchMoves
  <2>. QED
    BY <1>b, <1>c, <2>1, <2>2 DEF watchVars
<1>7. ASSUME NEW o \in Ops, StartMoves(o)
      PROVE  Dead(q)'
  <2>1. ~session[o].stopped /\ session[o].pending = <<>>
    BY <1>7 DEF StartMoves, Moves, WatchBorn, Unborn
  <2>2. CASE q = o
    BY <1>7, <2>1, <2>2 DEF StartMoves, Moves, ScopesBegin
  <2>3. CASE q # o
    BY <1>7, <1>b, <2>3 DEF StartMoves, Moves, OneOp, ScopesBegin
  <2>. QED
    BY <2>2, <2>3
<1>8. ASSUME NEW o \in Ops, FailMoves(o)
      PROVE  Dead(q)'
  <2>1. CASE q = o
    BY <1>8, <1>b, <2>1 DEF FailMoves, Moves, SessionStops, ScopesEnd
  <2>2. CASE q # o
    BY <1>8, <1>b, <2>2 DEF FailMoves, Moves, OneOp, SessionStops
  <2>. QED
    BY <2>1, <2>2
<1>9. ASSUME NEW o \in Ops, Flushed(o)
      PROVE  Dead(q)'
  <2>1. CASE q = o
    BY <1>9, <1>b, <2>1 DEF Flushed
  <2>2. CASE q # o
    BY <1>9, <1>b, <2>2 DEF Flushed
  <2>. QED
    BY <2>1, <2>2
<1>10. ASSUME NEW o \in Ops, NEW n \in Namespaces, StreamMoves(o, n)
       PROVE  Dead(q)'
  <2>1. session'[q].stopped = session[q].stopped /\ session'[q].pending = session[q].pending
    BY <1>10 DEF StreamMoves, Stales
  <2>2. \A m \in Namespaces :
          /\ scope'[q][m].stopped = scope[q][m].stopped
          /\ scope'[q][m].retry => scope'[q][m].link = "closed" /\ ~session[q].stopped
    <3> TAKE m \in Namespaces
    <3>1. CASE q = o /\ m = n
      BY <1>10, <1>b, <3>1 DEF StreamMoves
    <3>2. CASE ~(q = o /\ m = n)
      BY <1>10, <1>b, <3>2 DEF StreamMoves
    <3>. QED
      BY <3>1, <3>2
  <2>3. UNCHANGED <<op, holder>>
    BY <1>10 DEF StreamMoves
  <2>. QED
    BY <1>b, <2>1, <2>2, <2>3
<1>11. ASSUME NEW o \in Ops, NEW n \in Namespaces, Hears(o, n)
       PROVE  Dead(q)'
  <2>1. session'[q].stopped = session[q].stopped /\ (q # o => session'[q].pending = session[q].pending)
    BY <1>11 DEF Hears
  <2>2. q = o => ~session[q].stopped
    BY <1>11 DEF Hears, Deaf
  <2>3. \A m \in Namespaces :
          /\ scope'[q][m].stopped = scope[q][m].stopped /\ scope'[q][m].retry = scope[q][m].retry
          /\ scope'[q][m].link = scope[q][m].link
    <3> TAKE m \in Namespaces
    <3>1. CASE q = o /\ m = n
      BY <1>11, <3>1 DEF Hears
    <3>2. CASE ~(q = o /\ m = n)
      BY <1>11, <3>2 DEF Hears
    <3>. QED
      BY <3>1, <3>2
  <2>4. UNCHANGED <<op, holder>>
    BY <1>11 DEF Hears
  <2>. QED
    BY <1>b, <2>1, <2>2, <2>3, <2>4
<1>12. ASSUME NEW o \in Ops, NEW n \in Namespaces, RestartMoves(o, n)
       PROVE  Dead(q)'
  <2>1. PICK r \in Ops : ResyncMoves(o, r)
    BY <1>12 DEF RestartMoves
  <2>2. op'[q].pc = op[q].pc \/ (op[q].pc = "idle" /\ op'[q].pc = "unwatching")
    BY <2>1 DEF ResyncMoves, Begun, OneOp
  <2>3. holder' # q
    BY <1>a, <2>1 DEF ResyncMoves
  <2>4. CASE q = holder /\ ~session[q].stopped
    BY <1>b, <2>1, <2>2, <2>3, <2>4 DEF ResyncMoves, ScopesEnd
  <2>5. CASE ~(q = holder /\ ~session[q].stopped)
    <3>1. session'[q].stopped <=> session[q].stopped
      BY <2>1, <2>5 DEF ResyncMoves
    <3>2. session[q].stopped => session'[q].pending = <<>>
      BY <1>b, <2>1, <2>5 DEF ResyncMoves
    <3>3. \A m \in Namespaces :
            /\ scope'[q][m].link = scope[q][m].link /\ scope'[q][m].retry = scope[q][m].retry
            /\ scope'[q][m].stopped = scope[q][m].stopped
      BY <2>1, <2>5 DEF ResyncMoves
    <3>. QED
      BY <1>b, <2>2, <2>3, <3>1, <3>2, <3>3
  <2>. QED
    BY <2>4, <2>5
<1>. QED
  BY <1>1, <1>2, <1>3, <1>4, <1>5, <1>6, <1>7, <1>8, <1>9, <1>10, <1>11, <1>12 DEF WatchMove

(* A view that watches is there, and only a reload or a resync loads. *)
LEMMA ViewKept ==
  ASSUME WatchShapes, WatchView, WatchMove
  PROVE  WatchView'
<1>a. /\ view \in [open : BOOLEAN, watched : BOOLEAN] /\ view.watched => view.open
      /\ \A q \in Ops : op[q].kind = "leave" => op[q].pc \in {"unwatching", "done"}
  BY DEF WatchShapes, WatchView
<1>1. CASE WriteMoves \/ Drained \/ CutMoves
  BY <1>1, <1>a DEF WriteMoves, Drained, CutMoves, WatchView
<1>2. ASSUME NEW o \in Ops, ReloadMoves(o) \/ LeaveMoves(o)
      PROVE  WatchView'
  BY <1>2, <1>a DEF ReloadMoves, LeaveMoves, Begun, OneOp, WatchView
<1>3. ASSUME NEW o \in Ops, UnwatchMoves(o) \/ ServeMoves(o) \/ StartMoves(o) \/ FailMoves(o)
      PROVE  WatchView'
  BY <1>3, <1>a DEF UnwatchMoves, ServeMoves, StartMoves, FailMoves, Moves, OneOp, WatchView
<1>4. ASSUME NEW o \in Ops, LoadMoves(o) \/ NoLoadMoves(o) \/ LiveMoves(o) \/ EndMoves(o)
      PROVE  WatchView'
  <2>1. \A q \in Ops : op'[q].kind = op[q].kind /\ (q # o => op'[q].pc = op[q].pc)
    BY <1>4 DEF LoadMoves, NoLoadMoves, WatchMoves, LiveMoves, EndMoves, Moves, OneOp
  <2>2. op[o].kind # "leave"
    BY <1>4, <1>a DEF LoadMoves, NoLoadMoves, WatchMoves, LiveMoves, EndMoves, Moves
  <2>3. UNCHANGED view \/ ViewMoves(o)
    BY <1>4 DEF LoadMoves, NoLoadMoves, WatchMoves, LiveMoves, EndMoves
  <2>. QED
    BY <1>a, <2>1, <2>2, <2>3 DEF ViewMoves, WatchView
<1>5. ASSUME NEW o \in Ops, NEW n \in Namespaces, StreamMoves(o, n) \/ Hears(o, n)
      PROVE  WatchView'
  BY <1>5, <1>a DEF StreamMoves, Hears, WatchView
<1>6. ASSUME NEW o \in Ops, Flushed(o)
      PROVE  WatchView'
  BY <1>6, <1>a DEF Flushed, WatchView
<1>7. ASSUME NEW o \in Ops, NEW n \in Namespaces, RestartMoves(o, n)
      PROVE  WatchView'
  <2>1. PICK r \in Ops : ResyncMoves(o, r)
    BY <1>7 DEF RestartMoves
  <2>. QED
    BY <1>a, <2>1 DEF ResyncMoves, Begun, OneOp, WatchView
<1>. QED
  BY <1>1, <1>2, <1>3, <1>4, <1>5, <1>6, <1>7 DEF WatchMove

(* What stopAt leaves behind when no two coroutines have overlapped. *)
Quiet(q) ==
  /\ session'[q].pending = <<>>
  /\ session'[q].resyncing => session'[q].stopped
  /\ \A n \in Namespaces : scope'[q][n].link # "none" => session'[q].stopped

LEMMA QuitsQuiet ==
  ASSUME WatchShapes, WatchDead, WatchAlone, ~crossed, Quits, NEW q \in Ops
  PROVE  Quiet(q)
<1>1. /\ session[q].pending # <<>> => holder = q
      /\ session[q].resyncing => session[q].stopped
      /\ \A n \in Namespaces : scope[q][n].link # "none" /\ ~session[q].stopped => holder = q
  BY DEF WatchAlone
<1>2. CASE q = holder
  BY <1>1, <1>2 DEF Quits, SessionStops, Quiet
<1>3. CASE q # holder
  BY <1>1, <1>3 DEF Quits, SessionStops, Quiet
<1>. QED
  BY <1>2, <1>3

(* One coroutine at a time, and what is not stopped is in the map. *)
LEMMA AloneKept ==
  ASSUME WatchShapes, WatchBorn, WatchDead, WatchView, WatchAlone, WatchMove
  PROVE  WatchAlone'
<1> DEFINE R == {"idle", "done"}
           OneRuns == \A o, p \in Ops : op'[o].pc \notin R /\ op'[p].pc \notin R => o = p
           Part(q) ==
             /\ op'[q].pc \in Unborn \ R => holder' = NoWatch
             /\ op'[q].pc \in {"starting", "failing"} =>
                  holder' \in {q, NoWatch} /\ (conn' = "open" => holder' = q)
             /\ op'[q].pc \notin R /\ op'[q].kind = "resync" => view'.watched
             /\ op'[q].pc \notin R /\ op'[q].kind = "reload" => view'.open
             /\ session'[q].resyncing => session'[q].stopped
             /\ session'[q].pending # <<>> => holder' = q
             /\ \A n \in Namespaces : scope'[q][n].link # "none" /\ ~session'[q].stopped => holder' = q
           Rest == (\A o \in Ops : op'[o].pc \in R) /\ holder' # NoWatch => view'.watched
           Goal == OneRuns /\ (\A q \in Ops : Part(q)) /\ Rest
<1> SUFFICES ASSUME ~crossed' PROVE Goal
  BY DEF WatchAlone, Running, AllAtRest, Unborn
<1>a. /\ holder \in Ops \cup {NoWatch} /\ NoWatch \notin Ops
      /\ view \in [open : BOOLEAN, watched : BOOLEAN] /\ crossed \in BOOLEAN
  BY WatchNoneApart DEF WatchShapes
<1>b. /\ \A q \in Ops : session[q].stopped => session[q].pending = <<>>
      /\ \A q \in Ops : op[q].pc = "failing" => session[q].stopped
      /\ view.watched => view.open
      /\ \A q \in Ops : op[q].kind = "leave" => op[q].pc \in {"unwatching", "done"}
      /\ \A q \in Ops : op[q].kind \in {"reload", "resync", "leave"}
  BY DEF WatchDead, WatchView, WatchShapes, OpRecords
<1>c. ASSUME ~crossed
      PROVE  /\ \A o, p \in Ops : op[o].pc \notin R /\ op[p].pc \notin R => o = p
             /\ \A q \in Ops :
                  /\ op[q].pc \in Unborn \ R => holder = NoWatch
                  /\ op[q].pc \in {"starting", "failing"} => holder \in {q, NoWatch} /\ (conn = "open" => holder = q)
                  /\ op[q].pc \notin R /\ op[q].kind = "resync" => view.watched
                  /\ op[q].pc \notin R /\ op[q].kind = "reload" => view.open
                  /\ session[q].resyncing => session[q].stopped
                  /\ session[q].pending # <<>> => holder = q
                  /\ \A n \in Namespaces : scope[q][n].link # "none" /\ ~session[q].stopped => holder = q
             /\ (\A o \in Ops : op[o].pc \in R) /\ holder # NoWatch => view.watched
  BY <1>c DEF WatchAlone, Running, AllAtRest, Unborn
<1>d. ASSUME Quits, ~crossed
      PROVE  holder' = NoWatch /\ \A q \in Ops : Quiet(q)
  BY <1>d, QuitsQuiet DEF Quits
<1>e. ASSUME NEW o \in Ops, NEW k, NEW c, Begun(o, k, c)
      PROVE  /\ ~crossed /\ \A q \in Ops : op[q].pc \in R
             /\ op'[o].pc = c /\ op'[o].kind = k /\ \A q \in Ops \ {o} : op'[q] = op[q]
  BY <1>a, <1>e DEF Begun, OneOp, AllAtRest, Running
<1>1. CASE WriteMoves
  BY <1>1, <1>c DEF WriteMoves, watchVars
<1>2. CASE Drained
  BY <1>2, <1>c DEF Drained, Halts
<1>3. CASE CutMoves
  <2>1. ~crossed /\ UNCHANGED <<op, view>> /\ Quits /\ conn' = "closed"
    BY <1>3 DEF CutMoves
  <2>. QED
    BY <1>c, <1>d, <2>1 DEF Quiet
<1>4. ASSUME NEW o \in Ops, ReloadMoves(o)
      PROVE  Goal
  <2>1. CASE Begun(o, "reload", "unwatching") /\ Quits /\ view'.open
    BY <1>d, <1>e, <2>1 DEF Quiet, Unborn
  <2>2. CASE ~view.watched /\ view.open /\ Begun(o, "reload", "loading") /\ UNCHANGED <<view, watchVars>>
    <3>1. ~crossed /\ holder = NoWatch
      BY <1>a, <1>c, <1>e, <2>2
    <3>. QED
      BY <1>c, <1>e, <2>2, <3>1 DEF watchVars, Unborn
  <2>. QED
    BY <1>4, <2>1, <2>2 DEF ReloadMoves
<1>5. ASSUME NEW o \in Ops, LeaveMoves(o)
      PROVE  Goal
  <2>1. CASE Begun(o, "leave", "unwatching") /\ Quits
    BY <1>d, <1>e, <2>1 DEF Quiet, Unborn
  <2>2. CASE ~view.watched /\ Begun(o, "leave", "done") /\ UNCHANGED watchVars
    <3>1. ~crossed /\ holder = NoWatch
      BY <1>a, <1>c, <1>e, <2>2
    <3>. QED
      BY <1>c, <1>e, <2>2, <3>1 DEF watchVars, Unborn
  <2>. QED
    BY <1>5, <2>1, <2>2 DEF LeaveMoves
<1>6. ASSUME NEW o \in Ops, UnwatchMoves(o) \/ ServeMoves(o)
      PROVE  Goal
  <2>1. /\ op[o].pc \in {"unwatching", "loading"} /\ op'[o].pc \in {"loading", "served", "done"}
        /\ op'[o].kind = op[o].kind /\ \A q \in Ops \ {o} : op'[q] = op[q]
        /\ ~crossed /\ UNCHANGED <<conn, view, watchVars>>
    BY <1>6 DEF UnwatchMoves, ServeMoves, Moves, OneOp
  <2>2. holder = NoWatch /\ \A q \in Ops \ {o} : op[q].pc \in R
    BY <1>c, <2>1 DEF Unborn
  <2>. QED
    BY <1>c, <2>1, <2>2 DEF watchVars, Unborn
<1>7. ASSUME NEW o \in Ops, LoadMoves(o) \/ NoLoadMoves(o)
      PROVE  Goal
  <2>1. /\ op[o].pc \in {"loading", "served"} /\ op'[o].pc \in {"replacing", "done"}
        /\ op'[o].kind = op[o].kind /\ \A q \in Ops \ {o} : op'[q] = op[q]
        /\ ~crossed /\ UNCHANGED conn
        /\ \/ op'[o].pc = "replacing" /\ Quits /\ UNCHANGED view
           \/ op'[o].pc = "done" /\ UNCHANGED watchVars
    BY <1>7 DEF LoadMoves, NoLoadMoves, WatchMoves, Moves, OneOp
  <2>2. holder = NoWatch /\ \A q \in Ops \ {o} : op[q].pc \in R
    BY <1>c, <2>1 DEF Unborn
  <2>3. CASE op'[o].pc = "replacing" /\ Quits /\ UNCHANGED view
    BY <1>c, <1>d, <2>1, <2>2, <2>3 DEF Quiet
  <2>4. CASE op'[o].pc = "done" /\ UNCHANGED watchVars
    BY <1>c, <2>1, <2>2, <2>4 DEF watchVars
  <2>. QED
    BY <2>1, <2>3, <2>4
<1>8. ASSUME NEW o \in Ops, StartMoves(o)
      PROVE  Goal
  <2>1. /\ op[o].pc = "replacing" /\ op'[o].pc = "starting" /\ op'[o].kind = op[o].kind
        /\ \A q \in Ops \ {o} : op'[q] = op[q] /\ scope'[q] = scope[q]
        /\ ~crossed /\ UNCHANGED <<conn, view, session>> /\ holder' = o
    BY <1>8 DEF StartMoves, Moves, OneOp, ScopesBegin
  <2>2. holder = NoWatch /\ \A q \in Ops \ {o} : op[q].pc \in R
    BY <1>c, <2>1 DEF Unborn
  <2>. QED
    BY <1>a, <1>c, <2>1, <2>2 DEF Unborn
<1>9. ASSUME NEW o \in Ops, LiveMoves(o)
      PROVE  Goal
  <2>1. /\ op[o].pc = "starting" /\ op'[o].pc = "done" /\ op'[o].kind = op[o].kind
        /\ \A q \in Ops \ {o} : op'[q] = op[q]
        /\ ~crossed /\ UNCHANGED <<conn, watchVars>> /\ ViewMoves(o)
    BY <1>9 DEF LiveMoves, Moves, OneOp
  <2>2. /\ \A q \in Ops \ {o} : op[q].pc \in R
        /\ op[o].kind = "resync" => view.watched
        /\ op[o].kind = "reload" => view.open
    BY <1>c, <2>1
  <2>3. view'.watched
    BY <1>b, <2>1, <2>2 DEF ViewMoves
  <2>. QED
    BY <1>c, <2>1, <2>2, <2>3 DEF watchVars
<1>10. ASSUME NEW o \in Ops, FailMoves(o)
      PROVE  Goal
  <2>1. /\ op[o].pc = "starting" /\ op'[o].pc = "failing" /\ op'[o].kind = op[o].kind
        /\ \A q \in Ops \ {o} : op'[q] = op[q] /\ session'[q] = session[q] /\ scope'[q] = scope[q]
        /\ session'[o].stopped /\ session'[o].pending = <<>>
        /\ ~crossed /\ UNCHANGED <<conn, view, holder>>
    BY <1>10 DEF FailMoves, Moves, OneOp, SessionStops
  <2>2. \A q \in Ops \ {o} : op[q].pc \in R
    BY <1>c, <2>1
  <2>. QED
    BY <1>c, <2>1, <2>2 DEF Unborn
<1>11. ASSUME NEW o \in Ops, EndMoves(o)
      PROVE  Goal
  <2>1. /\ op[o].pc = "failing" /\ op'[o].pc = "done" /\ op'[o].kind = op[o].kind
        /\ \A q \in Ops \ {o} : op'[q] = op[q]
        /\ ~crossed /\ UNCHANGED <<conn, session, scope>> /\ holder' = NoWatch
    BY <1>11 DEF EndMoves, Moves, OneOp
  <2>2. /\ \A q \in Ops \ {o} : op[q].pc \in R
        /\ holder \in {o, NoWatch} /\ session[o].stopped /\ session[o].pending = <<>>
    BY <1>b, <1>c, <2>1
  <2>. QED
    BY <1>a, <1>c, <2>1, <2>2
<1>12. ASSUME NEW o \in Ops, Flushed(o)
      PROVE  Goal
  <2>1. /\ \A q \in Ops : /\ session'[q].stopped = session[q].stopped
                          /\ session'[q].resyncing = session[q].resyncing
                          /\ session'[q].pending \in {session[q].pending, <<>>}
        /\ ~crossed /\ UNCHANGED <<conn, view, op, holder, scope>>
    BY <1>12 DEF Flushed
  <2>. QED
    BY <1>c, <2>1
<1>13. ASSUME NEW o \in Ops, NEW n \in Namespaces, StreamMoves(o, n)
      PROVE  Goal
  <2>1. /\ \A q \in Ops : /\ session'[q].stopped = session[q].stopped
                          /\ session'[q].resyncing = session[q].resyncing
                          /\ session'[q].pending = session[q].pending
        /\ ~crossed /\ UNCHANGED <<conn, view, op, holder>>
    BY <1>13 DEF StreamMoves, Stales
  <2>2. \A q \in Ops, m \in Namespaces : scope'[q][m].link # "none" => scope[q][m].link # "none"
    BY <1>13 DEF StreamMoves
  <2>. QED
    BY <1>c, <2>1, <2>2
<1>14. ASSUME NEW o \in Ops, NEW n \in Namespaces, Hears(o, n)
      PROVE  Goal
  <2>1. /\ \A q \in Ops : /\ session'[q].stopped = session[q].stopped
                          /\ session'[q].resyncing = session[q].resyncing
                          /\ q # o => session'[q].pending = session[q].pending
        /\ ~crossed /\ UNCHANGED <<conn, view, op, holder>>
        /\ scope[o][n].link = "open" /\ ~session[o].stopped
    BY <1>14 DEF Hears, Deaf
  <2>2. \A q \in Ops, m \in Namespaces : scope'[q][m].link = scope[q][m].link
    BY <1>14 DEF Hears
  <2>3. holder = o
    BY <1>c, <2>1
  <2>. QED
    BY <1>c, <2>1, <2>2, <2>3
<1>15. ASSUME NEW o \in Ops, NEW n \in Namespaces, RestartMoves(o, n)
      PROVE  Goal
  <2>1. PICK r \in Ops : ResyncMoves(o, r)
    BY <1>15 DEF RestartMoves
  <2>2. /\ ~crossed /\ \A q \in Ops : op[q].pc \in R
        /\ op'[r].pc = "unwatching" /\ op'[r].kind = "resync" /\ \A q \in Ops \ {r} : op'[q] = op[q]
    BY <1>e, <2>1 DEF ResyncMoves
  <2>3. scope[o][n].link = "open" /\ ~session[o].stopped
    BY <1>15 DEF RestartMoves, Deaf
  <2>4. holder = o /\ view.watched
    BY <1>a, <1>c, <2>2, <2>3
  <2>5. holder' = NoWatch /\ UNCHANGED <<conn, view>>
    BY <2>1 DEF ResyncMoves
  <2>6. ASSUME NEW q \in Ops
        PROVE  Quiet(q)
    <3>0. session[q].stopped \in BOOLEAN /\ session[q].resyncing \in BOOLEAN
      BY DEF WatchShapes, WatchSessions
    <3>a. /\ session'[q].stopped = (session[q].stopped \/ q = holder)
          /\ (q = o \/ (q = holder /\ ~session[q].stopped)) => session'[q].pending = <<>>
          /\ (q # o /\ (q # holder \/ session[q].stopped)) => session'[q].pending = session[q].pending
          /\ session'[q].resyncing = (session[q].resyncing \/ q = o)
          /\ q # holder /\ q # o => scope'[q] = scope[q]
      BY <2>1 DEF ResyncMoves
    <3>1. CASE q = o
      <4>1. session'[q].stopped /\ session'[q].pending = <<>>
        <5>1. q = holder
          BY <2>4, <3>1
        <5>2. session'[q].stopped
          BY <3>0, <3>a, <5>1
        <5>3. session'[q].pending = <<>>
          BY <3>0, <3>a, <3>1
        <5>. QED
          BY <5>2, <5>3
      <4>. QED
        BY <4>1 DEF Quiet
    <3>2. CASE q # o
      <4>1. /\ session'[q].stopped = session[q].stopped /\ session'[q].pending = session[q].pending
            /\ session'[q].resyncing = session[q].resyncing /\ scope'[q] = scope[q]
        BY <2>4, <3>0, <3>a, <3>2
      <4>. QED
        BY <1>c, <2>2, <2>4, <3>2, <4>1 DEF Quiet
    <3>. QED
      BY <3>1, <3>2
  <2>. QED
    BY <2>2, <2>4, <2>5, <2>6 DEF Quiet
<1> HIDE DEF Goal
<1>. QED
  BY <1>1, <1>2, <1>3, <1>4, <1>5, <1>6, <1>7, <1>8, <1>9, <1>10, <1>11, <1>12, <1>13, <1>14, <1>15 DEF WatchMove

(* A list that claims to be live has the session that upholds it. *)
LEMMA ClaimsKept ==
  ASSUME WatchShapes, WatchBorn, WatchDead, WatchView, WatchAlone, WatchClaims, WatchMove
  PROVE  WatchClaims'
<1> DEFINE R == {"idle", "done"}
           Early == {"loading", "served", "replacing", "starting", "failing"}
           Part(q) ==
             /\ op'[q].pc \in Early => ~list'.watching
             /\ op'[q].pc = "replacing" => list'.loaded /\ op'[q].page = list'.cursors
             /\ op'[q].pc = "starting" /\ session'[q].staled => session'[q].early
           Held(q) ==
             holder' = q =>
               /\ list'.loaded
               /\ \A n \in Namespaces : scope'[q][n].link \in {"asked", "refused"} => op'[q].pc \in {"starting", "failing"}
               /\ (\A o \in Ops : op'[o].pc \in R) /\ list'.watching /\ session'[q].staled => session'[q].early
               /\ ~session'[q].stopped => \A n \in DOMAIN list'.cursors : Backed(scope'[q][n]) \/ session'[q].staled
           Rest == (\A o \in Ops : op'[o].pc \in R) /\ list'.watching => holder' # NoWatch
           Goal == (\A q \in Ops : Part(q)) /\ Rest /\ (\A q \in Ops : Held(q))
<1> SUFFICES ASSUME ~crossed', conn' = "open" PROVE Goal
  BY DEF WatchClaims, Running, AllAtRest, Backed
<1>a. /\ holder \in Ops \cup {NoWatch} /\ NoWatch \notin Ops /\ crossed \in BOOLEAN
      /\ DOMAIN list.cursors \subseteq Namespaces /\ list \in Lists
  BY WatchNoneApart, VersionsAre DEF WatchShapes, Lists
<1>b. ASSUME ~crossed, conn = "open"
      PROVE  /\ \A q \in Ops :
                  /\ op[q].pc \in Early => ~list.watching
                  /\ op[q].pc = "replacing" => list.loaded /\ op[q].page = list.cursors
                  /\ op[q].pc = "starting" /\ session[q].staled => session[q].early
             /\ (\A o \in Ops : op[o].pc \in R) /\ list.watching => holder # NoWatch
             /\ \A q \in Ops : holder = q =>
                  /\ list.loaded
                  /\ \A n \in Namespaces : scope[q][n].link \in {"asked", "refused"} => op[q].pc \in {"starting", "failing"}
                  /\ (\A o \in Ops : op[o].pc \in R) /\ list.watching /\ session[q].staled => session[q].early
                  /\ ~session[q].stopped => \A n \in DOMAIN list.cursors : Backed(scope[q][n]) \/ session[q].staled
  BY <1>b DEF WatchClaims, Running, AllAtRest, Backed
<1>c. ASSUME ~crossed
      PROVE  /\ \A o, p \in Ops : op[o].pc \notin R /\ op[p].pc \notin R => o = p
             /\ \A q \in Ops :
                  /\ op[q].pc \in Unborn \ R => holder = NoWatch
                  /\ op[q].pc \in {"starting", "failing"} /\ conn = "open" => holder = q
             /\ (\A o \in Ops : op[o].pc \in R) /\ holder # NoWatch => view.watched
  BY <1>c DEF WatchAlone, Running, AllAtRest, Unborn
<1>e. ASSUME NEW o \in Ops, NEW k, NEW c, Begun(o, k, c)
      PROVE  /\ ~crossed /\ \A q \in Ops : op[q].pc \in R
             /\ op'[o].pc = c /\ op'[o].kind = k /\ \A q \in Ops \ {o} : op'[q] = op[q]
  BY <1>a, <1>e DEF Begun, OneOp, AllAtRest, Running
<1>1. CASE WriteMoves
  <2>1. ~crossed /\ conn = "open" /\ UNCHANGED <<list, op, holder, session, scope>>
    BY <1>1 DEF WriteMoves, watchVars
  <2>. QED
    BY <1>b, <2>1
<1>2. CASE Drained \/ CutMoves
  BY <1>2 DEF Drained, CutMoves
<1>4. ASSUME NEW o \in Ops, ReloadMoves(o) \/ LeaveMoves(o)
      PROVE  Goal
  <2>0. conn = "open"
    BY <1>4 DEF ReloadMoves, LeaveMoves
  <2>1. ASSUME NEW k, Begun(o, k, "unwatching"), Quits
        PROVE  Goal
    BY <1>a, <1>e, <2>1 DEF Quits
  <2>2. CASE /\ ~view.watched /\ Begun(o, "reload", "loading") /\ UNCHANGED watchVars
             /\ SameList /\ list'.watching = list.watching
    <3>1. ~crossed /\ holder = NoWatch
      BY <1>a, <1>c, <1>e, <2>2
    <3>2. ~list'.watching
      BY <1>b, <1>e, <2>0, <2>2, <3>1
    <3>. QED
      BY <1>a, <1>e, <2>2, <3>1, <3>2 DEF watchVars
  <2>3. CASE ~view.watched /\ Begun(o, "leave", "done") /\ UNCHANGED watchVars /\ UNCHANGED list
    <3>1. ~crossed /\ holder = NoWatch
      BY <1>a, <1>c, <1>e, <2>3
    <3>2. ~list'.watching
      BY <1>b, <1>e, <2>0, <2>3, <3>1
    <3>. QED
      BY <1>a, <1>e, <2>3, <3>1, <3>2 DEF watchVars
  <2>. QED
    BY <1>4, <2>1, <2>2, <2>3 DEF ReloadMoves, LeaveMoves
<1>6. ASSUME NEW o \in Ops, UnwatchMoves(o) \/ ServeMoves(o)
      PROVE  Goal
  <2>1. /\ op[o].pc \in {"unwatching", "loading"} /\ op'[o].pc \in {"loading", "served", "done"}
        /\ \A q \in Ops \ {o} : op'[q] = op[q]
        /\ ~crossed /\ conn = "open" /\ UNCHANGED watchVars
    BY <1>6 DEF UnwatchMoves, ServeMoves, Moves, OneOp
  <2>2. holder = NoWatch /\ \A q \in Ops \ {o} : op[q].pc \in R
    BY <1>c, <2>1 DEF Unborn
  <2>3. ~list'.watching
    <3>1. CASE UnwatchMoves(o)
      BY <3>1 DEF UnwatchMoves
    <3>2. CASE ServeMoves(o)
      BY <1>b, <2>1, <3>2 DEF ServeMoves, Moves
    <3>. QED
      BY <1>6, <3>1, <3>2
  <2>. QED
    BY <1>a, <2>1, <2>2, <2>3 DEF watchVars
<1>7. ASSUME NEW o \in Ops, LoadMoves(o) \/ NoLoadMoves(o)
      PROVE  Goal
  <2>1. /\ op[o].pc \in {"loading", "served"} /\ op'[o].pc \in {"replacing", "done"}
        /\ \A q \in Ops \ {o} : op'[q] = op[q]
        /\ ~crossed /\ conn = "open" /\ list'.watching = list.watching
        /\ op'[o].pc = "replacing" => list'.loaded /\ op'[o].page = list'.cursors
        /\ Quits \/ UNCHANGED watchVars
    BY <1>7 DEF LoadMoves, NoLoadMoves, WatchMoves, Moves, OneOp
  <2>2. holder = NoWatch /\ \A q \in Ops \ {o} : op[q].pc \in R
    BY <1>c, <2>1 DEF Unborn
  <2>3. ~list'.watching /\ holder' = NoWatch
    BY <1>b, <2>1, <2>2 DEF Quits, watchVars
  <2>. QED
    BY <1>a, <2>1, <2>2, <2>3
<1>8. ASSUME NEW o \in Ops, StartMoves(o)
      PROVE  Goal
  <2>1. /\ op[o].pc = "replacing" /\ op'[o].pc = "starting"
        /\ \A q \in Ops \ {o} : op'[q] = op[q]
        /\ ~crossed /\ conn = "open" /\ UNCHANGED <<list, session>> /\ holder' = o
    BY <1>8 DEF StartMoves, Moves, OneOp, ScopesBegin
  <2>2. /\ \A q \in Ops \ {o} : op[q].pc \in R
        /\ ~list.watching /\ list.loaded /\ op[o].page = list.cursors
    BY <1>b, <1>c, <2>1
  <2>3. ~session[o].staled
    BY <2>1 DEF WatchBorn, Unborn
  <2>4. \A n \in DOMAIN list'.cursors : Backed(scope'[o][n])
    BY <1>8, <1>a, <2>1, <2>2 DEF StartMoves, ScopesBegin, Backed
  <2>. QED
    BY <2>1, <2>2, <2>3, <2>4
<1>9. ASSUME NEW o \in Ops, LiveMoves(o)
      PROVE  Goal
  <2>1. /\ op[o].pc = "starting" /\ op'[o].pc = "done"
        /\ \A q \in Ops \ {o} : op'[q] = op[q]
        /\ ~crossed /\ conn = "open" /\ UNCHANGED watchVars /\ SameList
        /\ FirstAnswered(o) /\ ~AnyRefused(o)
    BY <1>9 DEF LiveMoves, Moves, OneOp
  <2>2. holder = o /\ \A q \in Ops \ {o} : op[q].pc \in R
    BY <1>c, <2>1
  <2>3. /\ session[o].staled => session[o].early
        /\ list.loaded
        /\ ~session[o].stopped => \A n \in DOMAIN list.cursors : Backed(scope[o][n]) \/ session[o].staled
    BY <1>b, <2>1, <2>2
  <2>4. \A n \in Namespaces : scope[o][n].link \notin {"asked", "refused"}
    BY <2>1 DEF FirstAnswered, AnyRefused
  <2>. QED
    BY <1>a, <2>1, <2>2, <2>3, <2>4 DEF watchVars, SameList
<1>10. ASSUME NEW o \in Ops, FailMoves(o)
      PROVE  Goal
  <2>1. /\ op[o].pc = "starting" /\ op'[o].pc = "failing"
        /\ \A q \in Ops \ {o} : op'[q] = op[q]
        /\ session'[o].stopped /\ ~crossed /\ conn = "open" /\ UNCHANGED <<list, holder>>
    BY <1>10 DEF FailMoves, Moves, OneOp, SessionStops
  <2>2. holder = o /\ \A q \in Ops \ {o} : op[q].pc \in R
    BY <1>c, <2>1
  <2>3. ~list.watching /\ list.loaded
    BY <1>b, <2>1, <2>2
  <2>. QED
    BY <2>1, <2>2, <2>3
<1>11. ASSUME NEW o \in Ops, EndMoves(o)
      PROVE  Goal
  <2>1. /\ op[o].pc = "failing" /\ op'[o].pc = "done" /\ \A q \in Ops \ {o} : op'[q] = op[q]
        /\ ~crossed /\ conn = "open" /\ ~list'.watching /\ holder' = NoWatch
    BY <1>11 DEF EndMoves, Moves, OneOp
  <2>2. \A q \in Ops \ {o} : op[q].pc \in R
    BY <1>c, <2>1
  <2>. QED
    BY <1>a, <2>1, <2>2
<1>12. ASSUME NEW o \in Ops, Flushed(o)
      PROVE  Goal
  <2>1. /\ \A q \in Ops : /\ session'[q].stopped = session[q].stopped
                          /\ session'[q].staled = session[q].staled /\ session'[q].early = session[q].early
        /\ ~crossed /\ conn = "open" /\ UNCHANGED <<op, holder, scope>>
        /\ list'.loaded = list.loaded /\ list'.watching = list.watching /\ list'.cursors = list.cursors
    BY <1>12 DEF Flushed
  <2>. QED
    BY <1>b, <2>1
<1>13. ASSUME NEW o \in Ops, NEW n \in Namespaces, StreamMoves(o, n)
      PROVE  Goal
  <2>1. /\ ~crossed /\ conn = "open" /\ UNCHANGED <<op, holder>>
        /\ \A p \in Ops, m \in Namespaces : p # o \/ m # n => scope'[p][m] = scope[p][m]
        /\ scope'[o][n].link # "asked" /\ (scope'[o][n].link = "refused" => scope[o][n].link = "asked")
        /\ \A q \in Ops : session'[q].stopped = session[q].stopped
    BY <1>13 DEF StreamMoves, Stales
  <2>2. \A q \in Ops, m \in Namespaces :
          scope'[q][m].link \in {"asked", "refused"} => scope[q][m].link \in {"asked", "refused"}
    BY <2>1
  <2>3. CASE UNCHANGED <<session, list>>
    <3>1. \/ scope[o][n].stopped \/ session[o].stopped \/ session[o].staled
          \/ Backed(scope'[o][n]) \/ ~Backed(scope[o][n])
      <4>1. ~Stales(o)
        BY <2>3 DEF Stales, Tells
      <4>. QED
        BY <1>13, <2>1, <4>1 DEF StreamMoves
    <3>2. scope[o][n].stopped => session[o].stopped
      BY DEF WatchDead
    <3>3. ASSUME NEW q \in Ops, holder = q, ~session[q].stopped, NEW m \in DOMAIN list.cursors
          PROVE  Backed(scope'[q][m]) \/ session[q].staled
      <4>1. Backed(scope[q][m]) \/ session[q].staled
        BY <1>b, <2>1, <3>3
      <4>2. CASE q = o /\ m = n
        BY <3>1, <3>2, <3>3, <4>1, <4>2
      <4>3. CASE ~(q = o /\ m = n)
        <5>1. scope'[q][m] = scope[q][m]
          BY <1>a, <2>1, <4>3
        <5>. QED
          BY <4>1, <5>1
      <4>. QED
        BY <4>2, <4>3
    <3>4. \A q \in Ops : Part(q)
      BY <1>b, <2>1, <2>3
    <3>5. Rest
      BY <1>b, <2>1, <2>3
    <3>6. \A q \in Ops : Held(q)
      BY <1>b, <2>1, <2>2, <2>3, <3>3
    <3>. QED
      BY <3>4, <3>5, <3>6
  <2>4. CASE Stales(o)
    <3>1. /\ ~list'.watching /\ list'.loaded = list.loaded /\ list'.cursors = list.cursors
          /\ session'[o].staled /\ session'[o].early = (op[o].pc = "starting")
          /\ \A q \in Ops \ {o} : session'[q] = session[q]
      BY <2>4 DEF Stales
    <3>2. ASSUME NEW q \in Ops, holder = q, ~session[q].stopped, NEW m \in DOMAIN list.cursors
          PROVE  Backed(scope'[q][m]) \/ session'[q].staled
      <4>1. CASE q = o
        BY <3>1, <4>1
      <4>2. CASE q # o
        <5>1. scope'[q][m] = scope[q][m]
          BY <1>a, <2>1, <4>2
        <5>. QED
          BY <1>b, <2>1, <3>1, <3>2, <4>2, <5>1
      <4>. QED
        BY <4>1, <4>2
    <3>4. \A q \in Ops : Part(q)
      BY <1>b, <2>1, <3>1
    <3>6. \A q \in Ops : Held(q)
      BY <1>b, <2>1, <2>2, <3>1, <3>2
    <3>. QED
      BY <3>1, <3>4, <3>6
  <2>. QED
    BY <1>13, <2>3, <2>4 DEF StreamMoves
<1>14. ASSUME NEW o \in Ops, NEW n \in Namespaces, Hears(o, n)
      PROVE  Goal
  <2>1. /\ \A q \in Ops : /\ session'[q].stopped = session[q].stopped
                          /\ session'[q].staled = session[q].staled /\ session'[q].early = session[q].early
        /\ ~crossed /\ conn = "open" /\ UNCHANGED <<list, op, holder>>
    BY <1>14 DEF Hears
  <2>2. \A q \in Ops, m \in Namespaces :
          scope'[q][m].link = scope[q][m].link /\ scope'[q][m].retry = scope[q][m].retry
    BY <1>14 DEF Hears
  <2>. QED
    BY <1>a, <1>b, <2>1, <2>2 DEF Backed
<1>15. ASSUME NEW o \in Ops, NEW n \in Namespaces, RestartMoves(o, n)
      PROVE  Goal
  <2>1. PICK r \in Ops : ResyncMoves(o, r)
    BY <1>15 DEF RestartMoves
  <2>2. /\ \A q \in Ops : op[q].pc \in R
        /\ op'[r].pc = "unwatching" /\ \A q \in Ops \ {r} : op'[q] = op[q]
    BY <1>e, <2>1 DEF ResyncMoves
  <2>3. holder' = NoWatch
    BY <2>1 DEF ResyncMoves
  <2>. QED
    BY <1>a, <2>2, <2>3
<1> HIDE DEF Goal
<1>. QED
  BY <1>1, <1>2, <1>4, <1>6, <1>7, <1>8, <1>9, <1>10, <1>11, <1>12, <1>13, <1>14, <1>15 DEF WatchMove

(* A namespace whose changes wait has one that is the last. *)
LEMMA LastsAppend ==
  ASSUME NEW p \in Seq(Namespaces \X Nat), NEW e \in Namespaces \X Nat
  PROVE  /\ DOMAIN p = 1..Len(p) /\ Len(p) \in Nat
         /\ DOMAIN Append(p, e) = DOMAIN p \cup {Len(p) + 1}
         /\ Append(p, e)[Len(p) + 1] = e /\ \A i \in DOMAIN p : Append(p, e)[i] = p[i]
         /\ IsLast(Append(p, e), e[1], Len(p) + 1)
         /\ \A i \in DOMAIN Append(p, e) : IsLast(Append(p, e), e[1], i) => i = Len(p) + 1
         /\ \A n : n # e[1] => \A i \in DOMAIN p : IsLast(Append(p, e), n, i) <=> IsLast(p, n, i)
<1>1. /\ Append(p, e) \in Seq(Namespaces \X Nat) /\ Len(Append(p, e)) = Len(p) + 1
      /\ Append(p, e)[Len(p) + 1] = e /\ \A i \in 1..Len(p) : Append(p, e)[i] = p[i]
  BY AppendProperties
<1>2. DOMAIN p = 1..Len(p) /\ Len(p) \in Nat /\ DOMAIN Append(p, e) = 1..(Len(p) + 1)
  BY <1>1, LenProperties
<1>3. DOMAIN Append(p, e) = DOMAIN p \cup {Len(p) + 1} /\ Len(p) + 1 \notin DOMAIN p
  BY <1>2
<1>4. \A i \in DOMAIN Append(p, e) : i <= Len(p) + 1 /\ (Len(p) + 1 <= i => i = Len(p) + 1)
  BY <1>2
<1>5. IsLast(Append(p, e), e[1], Len(p) + 1)
  BY <1>1, <1>3, <1>4 DEF IsLast
<1>6. \A i \in DOMAIN Append(p, e) : IsLast(Append(p, e), e[1], i) => i = Len(p) + 1
  BY <1>1, <1>3, <1>4 DEF IsLast
<1>7. ASSUME NEW n, n # e[1], NEW i \in DOMAIN p
      PROVE  IsLast(Append(p, e), n, i) <=> IsLast(p, n, i)
  BY <1>1, <1>2, <1>3, <1>7 DEF IsLast
<1>. QED
  BY <1>1, <1>2, <1>3, <1>5, <1>6, <1>7

HasLasts(p) == \A i \in DOMAIN p : \E j \in DOMAIN p : IsLast(p, p[i][1], j)

LEMMA LastsGrow ==
  ASSUME NEW p \in Seq(Namespaces \X Nat), NEW e \in Namespaces \X Nat, HasLasts(p)
  PROVE  HasLasts(Append(p, e))
<1> SUFFICES ASSUME NEW i \in DOMAIN Append(p, e)
             PROVE  \E j \in DOMAIN Append(p, e) : IsLast(Append(p, e), Append(p, e)[i][1], j)
  BY DEF HasLasts
<1>1. CASE Append(p, e)[i][1] = e[1]
  BY <1>1, LastsAppend
<1>2. CASE Append(p, e)[i][1] # e[1]
  <2>1. i \in DOMAIN p /\ Append(p, e)[i] = p[i]
    BY <1>2, LastsAppend
  <2>2. PICK j \in DOMAIN p : IsLast(p, p[i][1], j)
    BY <2>1 DEF HasLasts
  <2>3. IsLast(Append(p, e), p[i][1], j) /\ j \in DOMAIN Append(p, e)
    <3>1. p[i][1] # e[1]
      BY <1>2, <2>1
    <3>2. IsLast(Append(p, e), p[i][1], j) <=> IsLast(p, p[i][1], j)
      BY <3>1, LastsAppend
    <3>3. j \in DOMAIN Append(p, e)
      BY LastsAppend
    <3>. QED
      BY <2>2, <3>2, <3>3
  <2>. QED
    BY <2>1, <2>3
<1>. QED
  BY <1>1, <1>2

LEMMA LastsKept ==
  ASSUME WatchShapes, WatchDead, WatchAlone, WatchLasts, WatchMove
  PROVE  WatchLasts'
<1> SUFFICES ASSUME NEW q \in Ops PROVE HasLasts(session'[q].pending)
  BY DEF WatchLasts, HasLasts
<1>a. HasLasts(session[q].pending)
  BY DEF WatchLasts, HasLasts
<1>b. HasLasts(<<>>)
  <2>1. DOMAIN <<>> = {}
    BY EmptySeq, LenProperties
  <2>. QED
    BY <2>1 DEF HasLasts
<1>c. session'[q] = session[q] \/ session'[q].pending = session[q].pending \/ session'[q].pending = <<>>
      => HasLasts(session'[q].pending)
  BY <1>a, <1>b
<1>1. CASE WriteMoves \/ Drained
  BY <1>1, <1>c DEF WriteMoves, Drained, watchVars
<1>2. ASSUME Quits
      PROVE  HasLasts(session'[q].pending)
  BY <1>2, <1>c DEF Quits, SessionStops
<1>3. CASE CutMoves
  BY <1>3, <1>2 DEF CutMoves
<1>4. ASSUME NEW o \in Ops, ReloadMoves(o) \/ LeaveMoves(o) \/ LoadMoves(o) \/ NoLoadMoves(o)
      PROVE  HasLasts(session'[q].pending)
  BY <1>4, <1>2, <1>c DEF ReloadMoves, LeaveMoves, LoadMoves, NoLoadMoves, WatchMoves, watchVars
<1>5. ASSUME NEW o \in Ops, UnwatchMoves(o) \/ ServeMoves(o) \/ StartMoves(o) \/ LiveMoves(o) \/ EndMoves(o)
      PROVE  HasLasts(session'[q].pending)
  BY <1>5, <1>c DEF UnwatchMoves, ServeMoves, StartMoves, LiveMoves, EndMoves, watchVars
<1>6. ASSUME NEW o \in Ops, FailMoves(o) \/ Flushed(o)
      PROVE  HasLasts(session'[q].pending)
  BY <1>6, <1>c DEF FailMoves, SessionStops, Flushed
<1>7. ASSUME NEW o \in Ops, NEW n \in Namespaces, StreamMoves(o, n)
      PROVE  HasLasts(session'[q].pending)
  BY <1>7, <1>c DEF StreamMoves, Stales
<1>8. ASSUME NEW o \in Ops, NEW n \in Namespaces, Hears(o, n)
      PROVE  HasLasts(session'[q].pending)
  <2>1. CASE q # o
    BY <1>8, <1>c, <2>1 DEF Hears
  <2>2. CASE q = o /\ session'[o].pending = Append(session[o].pending, <<n, scope[o][n].rv + 1>>)
    <3>1. session[o].pending \in Seq(Namespaces \X Nat) /\ <<n, scope[o][n].rv + 1>> \in Namespaces \X Nat
      BY DEF WatchShapes, WatchSessions, Scopes
    <3>. QED
      BY <1>a, <2>2, <3>1, LastsGrow
  <2>3. CASE q = o /\ session'[o].pending = <<>>
    BY <1>c, <2>3
  <2>. QED
    BY <1>8, <2>1, <2>2, <2>3 DEF Hears
<1>9. ASSUME NEW o \in Ops, NEW n \in Namespaces, RestartMoves(o, n)
      PROVE  HasLasts(session'[q].pending)
  <2>1. PICK r \in Ops : ResyncMoves(o, r)
    BY <1>9 DEF RestartMoves
  <2>2. session'[q].pending = session[q].pending \/ session'[q].pending = <<>>
    BY <2>1 DEF ResyncMoves
  <2>. QED
    BY <1>c, <2>2
<1>. QED
  BY <1>1, <1>3, <1>4, <1>5, <1>6, <1>7, <1>8, <1>9 DEF WatchMove

(* What a session has heard is at or behind what its list will show: at    *)
(* version rv of the scope of n, with p pending.                           *)
Upholds(sc, p, l, n) ==
  sc[n].link # "none" =>
    /\ n \in DOMAIN l.cursors /\ l.cursors[n] <= sc[n].rv
    /\ \A i \in DOMAIN p : IsLast(p, n, i) => sc[n].rv <= p[i][2]
    /\ (\A i \in DOMAIN p : p[i][1] # n) => sc[n].rv <= l.items[n]
Waits(sc, p, l) ==
  \A i \in DOMAIN p : sc[p[i][1]].link # "none" /\ l.cursors[p[i][1]] <= p[i][2]
Keeps(sc, p, l) == (\A n \in Namespaces : Upholds(sc, p, l, n)) /\ Waits(sc, p, l)
Covers(l) == \A n \in DOMAIN l.cursors : n \in DOMAIN l.items /\ l.cursors[n] <= l.items[n]

LEMMA KeepsIs ==
  WatchKeeps <=>
    (~crossed /\ conn = "open" =>
       Covers(list) /\ \A o \in Ops : holder = o /\ ~session[o].stopped => Keeps(scope[o], session[o].pending, list))
BY DEF WatchKeeps, Covers, Keeps, Upholds, Waits

(* The same list over the same scopes and pending changes. *)
LEMMA KeepsSame ==
  ASSUME NEW sc, NEW tc, NEW p, NEW l, NEW k, Keeps(sc, p, l),
         k.cursors = l.cursors, k.items = l.items,
         \A n \in Namespaces : tc[n].rv = sc[n].rv /\ (tc[n].link = "none" <=> sc[n].link = "none"),
         \A i \in DOMAIN p : p[i][1] \in Namespaces
  PROVE  Keeps(tc, p, k)
BY DEF Keeps, Upholds, Waits

LEMMA CoversSame ==
  ASSUME NEW l, NEW k, Covers(l), k.cursors = l.cursors, k.items = l.items
  PROVE  Covers(k)
BY DEF Covers

(* A change that is heard. *)
LEMMA KeepsHeard ==
  ASSUME NEW sc, NEW tc, NEW p \in Seq(Namespaces \X Nat), NEW l \in Lists, NEW n \in Namespaces,
         Keeps(sc, p, l), sc[n].link # "none", sc[n].rv \in Nat,
         tc[n].link = sc[n].link, tc[n].rv = sc[n].rv + 1,
         \A m \in Namespaces \ {n} : tc[m] = sc[m]
  PROVE  Keeps(tc, Append(p, <<n, sc[n].rv + 1>>), l)
<1> DEFINE e == <<n, sc[n].rv + 1>>
           a == Append(p, e)
<1>1. e \in Namespaces \X Nat /\ e[1] = n /\ e[2] = sc[n].rv + 1
  OBVIOUS
<1>2. n \in DOMAIN l.cursors /\ l.cursors[n] <= sc[n].rv /\ l.cursors[n] \in Nat
  BY VersionsAre DEF Keeps, Upholds, Lists
<1> HIDE DEF e
<1>3. Upholds(tc, a, l, n)
  <2>1. n \in DOMAIN l.cursors /\ l.cursors[n] <= tc[n].rv
    BY <1>2
  <2>2. ASSUME NEW i \in DOMAIN a, IsLast(a, n, i)
        PROVE  tc[n].rv <= a[i][2]
    <3>1. i = Len(p) + 1 /\ a[Len(p) + 1] = e
      BY <1>1, <2>2, LastsAppend
    <3>. QED
      BY <1>1, <3>1
  <2>3. ~(\A i \in DOMAIN a : a[i][1] # n)
    <3>1. Len(p) + 1 \in DOMAIN a /\ a[Len(p) + 1] = e
      BY <1>1, LastsAppend
    <3>. QED
      BY <1>1, <3>1
  <2>. QED
    BY <2>1, <2>2, <2>3 DEF Upholds
<1>4. ASSUME NEW m \in Namespaces, m # n
      PROVE  Upholds(tc, a, l, m)
  <2>1. Upholds(sc, p, l, m) /\ tc[m] = sc[m]
    BY <1>4 DEF Keeps
  <2>2. ASSUME NEW i \in DOMAIN a, IsLast(a, m, i), sc[m].link # "none"
        PROVE  tc[m].rv <= a[i][2]
    <3>1. a[i][1] = m
      BY <2>2 DEF IsLast
    <3>2. i \in DOMAIN p /\ a[i] = p[i]
      BY <1>1, <1>4, <3>1, LastsAppend
    <3>3. IsLast(p, m, i)
      BY <1>1, <1>4, <2>2, <3>2, LastsAppend
    <3>. QED
      BY <2>1, <2>2, <3>2, <3>3 DEF Upholds
  <2>3. ASSUME \A i \in DOMAIN a : a[i][1] # m, NEW i \in DOMAIN p
        PROVE  p[i][1] # m
    <3>1. i \in DOMAIN a /\ a[i] = p[i]
      BY <1>1, LastsAppend
    <3>. QED
      BY <2>3, <3>1
  <2>. QED
    BY <2>1, <2>2, <2>3 DEF Upholds
<1>5. Waits(tc, a, l)
  <2> SUFFICES ASSUME NEW i \in DOMAIN a
               PROVE  tc[a[i][1]].link # "none" /\ l.cursors[a[i][1]] <= a[i][2]
    BY DEF Waits
  <2>1. CASE i = Len(p) + 1
    <3>1. a[i] = e
      BY <1>1, <2>1, LastsAppend
    <3>. QED
      BY <1>1, <1>2, <3>1
  <2>2. CASE i # Len(p) + 1
    <3>1. i \in DOMAIN p /\ a[i] = p[i]
      BY <1>1, <2>2, LastsAppend
    <3>2. sc[p[i][1]].link # "none" /\ l.cursors[p[i][1]] <= p[i][2]
      BY <3>1 DEF Keeps, Waits
    <3>3. p[i][1] \in Namespaces
      BY <3>1, PendingIs
    <3>. QED
      BY <3>1, <3>2, <3>3
  <2>. QED
    BY <2>1, <2>2
<1>. QED
  BY <1>3, <1>4, <1>5 DEF Keeps, e

(* Changes that are shown. *)
LEMMA KeepsFlushed ==
  ASSUME NEW sc, NEW p \in Seq(Namespaces \X Nat), NEW l \in Lists, NEW k \in Lists, HasLasts(p),
         \A n \in Namespaces : sc[n].rv \in Nat,
         Covers(l), Keeps(sc, p, l), k.cursors = l.cursors, k.items = applyChanges(l.items, p)
  PROVE  Covers(k) /\ Keeps(sc, <<>>, k)
<1>1. l.items \in Versions /\ DOMAIN l.cursors \subseteq Namespaces
  BY VersionsAre DEF Lists
<1>2. /\ \A n \in DOMAIN l.items : n \in DOMAIN k.items
      /\ \A j \in DOMAIN p : IsLast(p, p[j][1], j) => k.items[p[j][1]] = p[j][2]
      /\ \A n \in DOMAIN l.items : (\A i \in DOMAIN p : p[i][1] # n) => k.items[n] = l.items[n]
  <2>1. \A i \in DOMAIN p : \E j \in DOMAIN p : IsLast(p, p[i][1], j)
    BY DEF HasLasts
  <2>2. /\ \A n \in DOMAIN l.items : n \in DOMAIN applyChanges(l.items, p)
        /\ \A j \in DOMAIN p : IsLast(p, p[j][1], j) => applyChanges(l.items, p)[p[j][1]] = p[j][2]
        /\ \A n \in DOMAIN l.items :
             (\A i \in DOMAIN p : p[i][1] # n) => applyChanges(l.items, p)[n] = l.items[n]
    BY <1>1, <2>1, AppliesIs
  <2>. QED
    BY <2>2
<1>3. ASSUME NEW n \in DOMAIN l.cursors
      PROVE  /\ n \in DOMAIN k.items /\ l.cursors[n] <= k.items[n]
             /\ sc[n].link # "none" => sc[n].rv <= k.items[n]
  <2>1. n \in DOMAIN l.items /\ l.cursors[n] <= l.items[n] /\ n \in Namespaces
    BY <1>1 DEF Covers
  <2>2. CASE \A i \in DOMAIN p : p[i][1] # n
    <3>1. k.items[n] = l.items[n]
      BY <1>2, <2>1, <2>2
    <3>2. sc[n].link # "none" => sc[n].rv <= l.items[n]
      BY <2>1, <2>2 DEF Keeps, Upholds
    <3>. QED
      BY <1>2, <2>1, <3>1, <3>2
  <2>3. CASE ~(\A i \in DOMAIN p : p[i][1] # n)
    <3>1. PICK i \in DOMAIN p : p[i][1] = n
      BY <2>3
    <3>2. PICK j \in DOMAIN p : IsLast(p, n, j)
      BY <3>1 DEF HasLasts
    <3>3. p[j][1] = n
      BY <3>2 DEF IsLast
    <3>4. k.items[n] = p[j][2]
      BY <1>2, <3>2, <3>3
    <3>5. l.cursors[n] <= p[j][2]
      BY <3>3 DEF Keeps, Waits
    <3>6. sc[n].link # "none" => sc[n].rv <= p[j][2]
      BY <2>1, <3>2 DEF Keeps, Upholds
    <3>. QED
      BY <1>2, <2>1, <3>4, <3>5, <3>6
  <2>. QED
    BY <2>2, <2>3
<1>4. Covers(k)
  BY <1>3 DEF Covers
<1>5. DOMAIN <<>> = {}
  BY EmptySeq, LenProperties
<1>6. ASSUME NEW n \in Namespaces
      PROVE  Upholds(sc, <<>>, k, n)
  <2>1. sc[n].link # "none" => n \in DOMAIN l.cursors /\ l.cursors[n] <= sc[n].rv
    BY DEF Keeps, Upholds
  <2>. QED
    BY <1>3, <1>5, <2>1 DEF Upholds
<1>7. Waits(sc, <<>>, k)
  BY <1>5 DEF Waits
<1>. QED
  BY <1>4, <1>6, <1>7 DEF Keeps

(* A list and its watch are never apart. *)
LEMMA KeepsKept ==
  ASSUME WatchShapes, WatchBorn, WatchDead, WatchAlone, WatchClaims, WatchLasts, WatchKeeps,
         WatchMove, WatchShapes'
  PROVE  WatchKeeps'
<1> DEFINE Same == list'.cursors = list.cursors /\ list'.items = list.items
           Goal == Covers(list') /\ \A q \in Ops : holder' = q /\ ~session'[q].stopped =>
                                      Keeps(scope'[q], session'[q].pending, list')
<1> SUFFICES ASSUME ~crossed', conn' = "open" PROVE Goal
  BY DEF WatchKeeps, Covers, Keeps, Upholds, Waits
<1>a. /\ holder \in Ops \cup {NoWatch} /\ NoWatch \notin Ops /\ crossed \in BOOLEAN /\ list \in Lists /\ list' \in Lists
      /\ \A q \in Ops : session[q].pending \in Seq(Namespaces \X Nat)
      /\ \A q \in Ops, n \in Namespaces : scope[q][n].rv \in Nat
  BY WatchNoneApart DEF WatchShapes, WatchSessions, Scopes
<1>b. ASSUME ~crossed, conn = "open"
      PROVE  /\ Covers(list)
             /\ \A q \in Ops : holder = q /\ ~session[q].stopped => Keeps(scope[q], session[q].pending, list)
  BY <1>b, KeepsIs
<1>c. ASSUME ~crossed, conn = "open"
      PROVE  /\ \A q \in Ops :
                  /\ session[q].resyncing => session[q].stopped
                  /\ session[q].pending # <<>> => holder = q
                  /\ \A n \in Namespaces : scope[q][n].link # "none" /\ ~session[q].stopped => holder = q
                  /\ holder = q => list.loaded
                  /\ op[q].pc = "replacing" => list.loaded /\ op[q].page = list.cursors
  BY <1>c DEF WatchAlone, WatchClaims
<1>d. ASSUME ~crossed, conn = "open", Same
      PROVE  Covers(list')
  BY <1>b, <1>d, CoversSame
<1>e. ASSUME ~crossed, conn = "open", Same, NEW q \in Ops, holder = q, ~session[q].stopped,
             session'[q].pending = session[q].pending,
             \A n \in Namespaces : /\ scope'[q][n].rv = scope[q][n].rv
                                   /\ scope'[q][n].link = "none" <=> scope[q][n].link = "none"
      PROVE  Keeps(scope'[q], session'[q].pending, list')
  <2>1. Keeps(scope[q], session[q].pending, list)
    BY <1>b, <1>e
  <2>2. \A i \in DOMAIN session[q].pending : session[q].pending[i][1] \in Namespaces
    BY <1>a, PendingIs
  <2>3. Keeps(scope'[q], session[q].pending, list')
    BY <1>e, <2>1, <2>2, KeepsSame
  <2>. QED
    BY <1>e, <2>3
<1>f. ASSUME ~crossed, conn = "open", Same, UNCHANGED watchVars
      PROVE  Goal
  BY <1>d, <1>e, <1>f DEF watchVars
<1>g. ASSUME ~crossed, conn = "open", Same, holder' = NoWatch
      PROVE  Goal
  BY <1>a, <1>d, <1>g
<1>h. ASSUME NEW o \in Ops, NEW k, NEW c, Begun(o, k, c)
      PROVE  ~crossed
  BY <1>a, <1>h DEF Begun
<1> HIDE DEF Goal
<1>1. CASE WriteMoves
  BY <1>1, <1>f DEF WriteMoves
<1>2. CASE Drained \/ CutMoves
  BY <1>2 DEF Drained, CutMoves
<1>3. ASSUME NEW o \in Ops, ReloadMoves(o) \/ LeaveMoves(o)
      PROVE  Goal
  <2>1. ~crossed /\ conn = "open" /\ Same
    BY <1>3, <1>h DEF ReloadMoves, LeaveMoves, SameList
  <2>2. holder' = NoWatch \/ UNCHANGED watchVars
    BY <1>3 DEF ReloadMoves, LeaveMoves, Quits
  <2>. QED
    BY <1>f, <1>g, <2>1, <2>2
<1>4. ASSUME NEW o \in Ops, UnwatchMoves(o) \/ ServeMoves(o) \/ LiveMoves(o)
      PROVE  Goal
  BY <1>4, <1>f DEF UnwatchMoves, ServeMoves, LiveMoves, SameList
<1>5. ASSUME NEW o \in Ops, LoadMoves(o)
      PROVE  Goal
  <2>1. holder' = NoWatch /\ list'.items = list'.cursors
    BY <1>5 DEF LoadMoves, WatchMoves, Quits
  <2>2. \A n \in DOMAIN list'.cursors : list'.cursors[n] \in Nat
    BY <1>a, VersionsAre DEF Lists
  <2>3. Covers(list')
    BY <2>1, <2>2 DEF Covers
  <2>. QED
    BY <1>a, <2>1, <2>3 DEF Goal
<1>6. ASSUME NEW o \in Ops, NoLoadMoves(o)
      PROVE  Goal
  <2>1. ~crossed /\ conn = "open" /\ Same
    BY <1>6 DEF NoLoadMoves, WatchMoves, SameList
  <2>2. holder' = NoWatch \/ UNCHANGED watchVars
    BY <1>6 DEF NoLoadMoves, WatchMoves, Quits
  <2>. QED
    BY <1>f, <1>g, <2>1, <2>2
<1>7. ASSUME NEW o \in Ops, StartMoves(o)
      PROVE  Goal
  <2>1. /\ ~crossed /\ conn = "open" /\ UNCHANGED <<list, session>> /\ holder' = o
        /\ op[o].pc = "replacing" /\ ScopesBegin(o)
    BY <1>7 DEF StartMoves, Moves, ScopesBegin
  <2>2. op[o].page = list.cursors /\ Covers(list) /\ session[o].pending = <<>>
    BY <1>b, <1>c, <2>1 DEF WatchBorn, Unborn
  <2>3. DOMAIN <<>> = {}
    BY EmptySeq, LenProperties
  <2>4. ASSUME NEW n \in Namespaces
        PROVE  Upholds(scope'[o], <<>>, list, n)
    <3>1. CASE n \in DOMAIN list.cursors
      <4>1. scope'[o][n].rv = list.cursors[n] /\ list.cursors[n] \in Nat /\ list.cursors[n] <= list.items[n]
        BY <1>a, <2>1, <2>2, <3>1, VersionsAre DEF ScopesBegin, Covers, Lists
      <4>. QED
        BY <2>3, <3>1, <4>1 DEF Upholds
    <3>2. CASE n \notin DOMAIN list.cursors
      BY <2>1, <2>2, <3>2 DEF ScopesBegin, Upholds
    <3>. QED
      BY <3>1, <3>2
  <2>5. Keeps(scope'[o], <<>>, list)
    BY <2>3, <2>4 DEF Keeps, Waits
  <2>. QED
    BY <2>1, <2>2, <2>5 DEF Goal
<1>8. ASSUME NEW o \in Ops, FailMoves(o)
      PROVE  Goal
  <2>1. /\ ~crossed /\ conn = "open" /\ UNCHANGED <<list, holder>> /\ session'[o].stopped
        /\ \A q \in Ops \ {o} : session'[q] = session[q] /\ scope'[q] = scope[q]
    BY <1>8 DEF FailMoves, SessionStops
  <2>2. Covers(list')
    BY <1>d, <2>1
  <2>3. ASSUME NEW q \in Ops, holder' = q, ~session'[q].stopped
        PROVE  Keeps(scope'[q], session'[q].pending, list')
    <3>1. q # o
      BY <2>1, <2>3
    <3>. QED
      BY <1>e, <2>1, <2>3, <3>1
  <2>. QED
    BY <2>2, <2>3 DEF Goal
<1>9. ASSUME NEW o \in Ops, EndMoves(o)
      PROVE  Goal
  BY <1>9, <1>g DEF EndMoves, SameList
<1>10. ASSUME NEW o \in Ops, Flushed(o)
       PROVE  Goal
  <2>1. /\ ~crossed /\ conn = "open" /\ UNCHANGED <<holder, scope>> /\ list'.cursors = list.cursors
        /\ session'[o].pending = <<>> /\ session[o].pending # <<>>
        /\ list.loaded => list'.items = applyChanges(list.items, session[o].pending)
    BY <1>10 DEF Flushed
  <2>2. holder = o /\ list.loaded /\ ~session[o].stopped
    BY <1>c, <2>1 DEF WatchDead
  <2>3. Covers(list) /\ Keeps(scope[o], session[o].pending, list) /\ HasLasts(session[o].pending)
    BY <1>b, <2>1, <2>2 DEF WatchLasts, HasLasts
  <2>4. \A n \in Namespaces : scope[o][n].rv \in Nat
    BY <1>a
  <2>5. Covers(list') /\ Keeps(scope[o], <<>>, list')
    BY <1>a, <2>1, <2>2, <2>3, <2>4, KeepsFlushed
  <2>. QED
    BY <2>1, <2>2, <2>5 DEF Goal
<1>11. ASSUME NEW o \in Ops, NEW n \in Namespaces, StreamMoves(o, n)
       PROVE  Goal
  <2>1. /\ ~crossed /\ conn = "open" /\ UNCHANGED holder /\ Same
        /\ \A q \in Ops : /\ session'[q].stopped = session[q].stopped
                          /\ session'[q].pending = session[q].pending
    BY <1>11 DEF StreamMoves, Stales
  <2>2. \A q \in Ops, m \in Namespaces : /\ scope'[q][m].rv = scope[q][m].rv
                                         /\ scope'[q][m].link = "none" <=> scope[q][m].link = "none"
    <3> TAKE q \in Ops, m \in Namespaces
    <3>1. CASE q = o /\ m = n
      BY <1>11, <3>1 DEF StreamMoves
    <3>2. CASE ~(q = o /\ m = n)
      BY <1>11, <3>2 DEF StreamMoves
    <3>. QED
      BY <3>1, <3>2
  <2>. QED
    BY <1>d, <1>e, <2>1, <2>2 DEF Goal
<1>12. ASSUME NEW o \in Ops, NEW n \in Namespaces, Hears(o, n)
       PROVE  Goal
  <2>1. /\ ~crossed /\ conn = "open" /\ UNCHANGED <<list, holder>>
        /\ scope[o][n].link = "open" /\ ~session[o].stopped
        /\ scope'[o][n].rv = scope[o][n].rv + 1 /\ scope'[o][n].link = scope[o][n].link
        /\ \A m \in Namespaces \ {n} : scope'[o][m] = scope[o][m]
    BY <1>12 DEF Hears, Deaf
  <2>2. holder = o /\ ~session[o].resyncing
    BY <1>c, <2>1
  <2>3. session'[o].pending = Append(session[o].pending, <<n, scope[o][n].rv + 1>>)
    BY <1>12, <2>2 DEF Hears
  <2>4. Keeps(scope[o], session[o].pending, list) /\ Covers(list)
    BY <1>b, <2>1, <2>2
  <2>5. scope[o][n].link # "none" /\ scope[o][n].rv \in Nat /\ session[o].pending \in Seq(Namespaces \X Nat)
    BY <1>a, <2>1
  <2>6. Keeps(scope'[o], Append(session[o].pending, <<n, scope[o][n].rv + 1>>), list)
    BY <1>a, <2>1, <2>4, <2>5, KeepsHeard
  <2>. QED
    BY <2>1, <2>2, <2>3, <2>4, <2>6 DEF Goal
<1>13. ASSUME NEW o \in Ops, NEW n \in Namespaces, RestartMoves(o, n)
       PROVE  Goal
  <2>1. PICK r \in Ops : ResyncMoves(o, r)
    BY <1>13 DEF RestartMoves
  <2>2. Begun(r, "resync", "unwatching") /\ holder' = NoWatch /\ conn = "open" /\ Same
    BY <2>1 DEF ResyncMoves
  <2>3. ~crossed
    BY <1>h, <2>2
  <2>. QED
    BY <1>g, <2>2, <2>3
<1>. QED
  BY <1>1, <1>2, <1>3, <1>4, <1>5, <1>6, <1>7, <1>8, <1>9, <1>10, <1>11, <1>12, <1>13 DEF WatchMove

-----------------------------------------------------------------------------
(* The invariant of a list and its watch: for any number of namespaces,    *)
(* refreshes and changes and any limits.                                   *)
THEOREM WatchHolds == WatchSpec => []WatchInv
<1>1. WatchInv /\ [WatchNext]_listVars => WatchInv'
  <2> SUFFICES ASSUME WatchInv, [WatchNext]_listVars PROVE WatchInv'
    OBVIOUS
  <2>1. /\ WatchShapes /\ WatchBorn /\ WatchDead /\ WatchView /\ WatchAlone /\ WatchClaims
        /\ WatchLasts /\ WatchKeeps
    BY DEF WatchInv
  <2>2. WatchMove
    BY <2>1, WatchMoveIs
  <2>3. WatchShapes' /\ WatchBorn' /\ WatchDead' /\ WatchView'
    BY <2>1, <2>2, ShapesKept, BornKept, DeadKept, ViewKept
  <2>4. WatchAlone' /\ WatchClaims' /\ WatchLasts' /\ WatchKeeps'
    BY <2>1, <2>2, <2>3, AloneKept, ClaimsKept, LastsKept, KeepsKept
  <2>. QED
    BY <2>3, <2>4 DEF WatchInv
<1>. QED
  BY <1>1, WatchStart, PTL DEF WatchSpec

(* As long as no two refreshes of the list overlapped: at rest a stream    *)
(* that no stop has reached and a retry timer are of the session the       *)
(* service holds, and of an open view (ResourceWatchService.stopAt).  Of   *)
(* the stream a scope is given after its stop, which the code leaves open, *)
(* and of refreshes that overlapped this says nothing.                     *)
THEOREM StreamsOwned == WatchSpec => []NobodysStream
<1>1. WatchInv => NobodysStream
  <2> SUFFICES ASSUME WatchInv, AllAtRest, ~crossed, NEW o \in Ops, NEW n \in Namespaces
               PROVE  /\ scope[o][n].link \in {"open", "asked", "reasked"} /\ ~scope[o][n].stopped => o = holder /\ view.open
                      /\ scope[o][n].retry => o = holder /\ view.open
    BY DEF NobodysStream
  <2>1. /\ scope[o][n].stopped <=> session[o].stopped
        /\ scope[o][n].retry => scope[o][n].link = "closed" /\ ~session[o].stopped
    BY DEF WatchInv, WatchDead
  <2>2. scope[o][n].link # "none" /\ ~session[o].stopped => holder = o
    BY DEF WatchInv, WatchAlone
  <2>3. holder # NoWatch => view.open
    BY DEF WatchInv, WatchAlone, WatchView
  <2>4. o # NoWatch
    BY WatchNoneApart
  <2>. QED
    BY <2>1, <2>2, <2>3, <2>4
<1>. QED
  BY <1>1, WatchHolds, PTL

(* As long as no two refreshes of the list overlapped: a list that claims  *)
(* to be live has a stream in each namespace it was loaded for, open or on *)
(* its way, unless one was lost before the start of its session was over   *)
(* (ClusterResourceStore.watch): that list the code shows as live.         *)
THEOREM LiveHolds == WatchSpec => []LiveIsWatched
<1>1. WatchInv => LiveIsWatched
  <2> SUFFICES ASSUME WatchInv, AllAtRest, ~crossed, conn = "open", list.watching
               PROVE  /\ holder # NoWatch
                      /\ session[holder].early \/ \A n \in DOMAIN list.cursors :
                           scope[holder][n].link \in {"open", "reasked"} \/ scope[holder][n].retry
    BY DEF LiveIsWatched
  <2>1. holder # NoWatch /\ holder \in Ops
    BY DEF WatchInv, WatchClaims, WatchShapes
  <2>2. op[holder].pc \in {"idle", "done"}
    BY <2>1 DEF AllAtRest, Running
  <2>3. ~session[holder].stopped
    BY <2>1, <2>2 DEF WatchInv, WatchDead
  <2>4. /\ \A n \in Namespaces : scope[holder][n].link \notin {"asked", "refused"}
        /\ session[holder].staled => session[holder].early
        /\ \A n \in DOMAIN list.cursors :
             \/ scope[holder][n].link \in {"asked", "refused", "open", "reasked"}
             \/ scope[holder][n].retry \/ session[holder].staled
    BY <2>1, <2>2, <2>3 DEF WatchInv, WatchClaims
  <2>5. DOMAIN list.cursors \subseteq Namespaces
    BY VersionsAre DEF WatchInv, WatchShapes, Lists
  <2>. QED
    BY <2>1, <2>4, <2>5
<1>. QED
  BY <1>1, WatchHolds, PTL

(* As long as no two refreshes of the list overlapped, a list never falls  *)
(* behind the version its watch would resume from (ResourceWatchScope      *)
(* remember, ResourceWatchSession accept).                                 *)
THEOREM SkipsNothing == WatchSpec => []NothingSkipped
<1>1. WatchInv => NothingSkipped
  <2> SUFFICES ASSUME WatchInv, ~crossed, holder # NoWatch, ~session[holder].stopped, conn = "open",
                      NEW n \in Watched(holder)
               PROVE  scope[holder][n].rv <= Shows(holder, n)
    BY DEF NothingSkipped
  <2> DEFINE p    == session[holder].pending
             mine == {i \in DOMAIN p : p[i][1] = n}
  <2>1. holder \in Ops /\ n \in Namespaces /\ scope[holder][n].link # "none"
    BY DEF WatchInv, WatchShapes, Watched
  <2>2. Covers(list) /\ Keeps(scope[holder], p, list) /\ HasLasts(p)
    BY <2>1, KeepsIs DEF WatchInv, WatchLasts, HasLasts
  <2>3. p \in Seq(Namespaces \X Nat)
    BY <2>1 DEF WatchInv, WatchShapes, WatchSessions
  <2>4. CASE mine # {}
    <3>1. PICK i \in DOMAIN p : p[i][1] = n
      BY <2>4
    <3>2. PICK j \in DOMAIN p : IsLast(p, n, j)
      BY <2>2, <3>1 DEF HasLasts
    <3> DEFINE c == CHOOSE k \in mine : \A l \in mine : l <= k
    <3>3. c \in mine /\ \A l \in mine : l <= c
      <4>1. j \in mine /\ \A l \in mine : l <= j
        BY <3>2 DEF IsLast
      <4>. QED
        BY <4>1
    <3>4. Shows(holder, n) = p[c][2]
      BY <2>4 DEF Shows
    <3> HIDE DEF c
    <3>5. c \in DOMAIN p /\ IsLast(p, n, c)
      BY <3>3 DEF IsLast
    <3>6. scope[holder][n].rv <= p[c][2]
      BY <2>1, <2>2, <3>5 DEF Keeps, Upholds
    <3>. QED
      BY <3>4, <3>6
  <2>5. CASE mine = {}
    <3>1. \A i \in DOMAIN p : p[i][1] # n
      BY <2>5
    <3>2. n \in DOMAIN list.cursors /\ scope[holder][n].rv <= list.items[n]
      BY <2>1, <2>2, <3>1 DEF Keeps, Upholds
    <3>3. n \in DOMAIN list.items
      BY <2>2, <3>2 DEF Covers
    <3>4. Shows(holder, n) = list.items[n]
      BY <2>5, <3>3 DEF Shows
    <3>. QED
      BY <3>2, <3>4
  <2>. QED
    BY <2>4, <2>5
<1>. QED
  BY <1>1, WatchHolds, PTL
=============================================================================
