----------------------------- MODULE ManifestEdit -----------------------------
(***************************************************************************)
(* The YAML tab of one object: ResourceObjectStore keeps what the cluster  *)
(* served and a conflict, ResourceYamlTab the draft over it, and           *)
(* YamlApplyPlanner turns a draft into a patch or a replace that the API   *)
(* server accepts only over the version it names.                          *)
(*                                                                         *)
(* A manifest is its resourceVersion and the value of each of its leaves,  *)
(* a leaf being a key below a top-level field.  The draft is text, whose   *)
(* version is a line like any other: it may be typed over, emptied or      *)
(* taken out.  Others write the object too.  What runs between two awaits  *)
(* of the window is one step; a request is handled by the API server in a  *)
(* step of its own.                                                        *)
(***************************************************************************)
EXTENDS Naturals, FiniteSets

CONSTANTS
  Leaves,      \* the keys of the manifest a value is kept for
  FieldOf,     \* the top-level field each leaf lies under
  Choices,     \* the values each leaf may have
  First,       \* the values the object may have at first
  Absent,      \* the value of a leaf, or of the version, the manifest leaves out
  Blank,       \* the version of a manifest whose version line is empty
  Typed,       \* bound: what the operator may make of the version line
  Metadata,    \* the top-level field the resourceVersion lies under
  Declared,    \* the top-level fields the entity of this kind declares
  ClusterOwned,\* those it declares read-only: the status
  Contested,   \* bound: the leaves others write
  Loads,       \* bound: calls of ResourceObjectStore.load
  MaxVersion,  \* bound: nobody starts a write over a later version
  None         \* no manifest, no call

Fields == {FieldOf[l] : l \in Leaves} \cup {Metadata}

ASSUME Schema ==
  /\ FieldOf \in [Leaves -> Fields]
  /\ ClusterOwned \subseteq Declared
  /\ Metadata \in Declared \ ClusterOwned
ASSUME Bounds == MaxVersion \in Nat
ASSUME NoVersions == Absent \notin Nat /\ Blank \notin Nat

Values == {v \in [Leaves -> UNION {Choices[l] : l \in Leaves}] : \A l \in Leaves : v[l] \in Choices[l]}

ASSUME FirstValues == First \subseteq Values

VARIABLES
  verbs,     \* KubeResourceKind.canPatch and canUpdate
  cluster,   \* the object in the API server: [rv, val]
  object,    \* TResourceObjectState.object, None until loaded
  failed,    \* TResourceObjectState.error, forbidden or missing
  conflict,  \* TResourceObjectState.conflict
  load,      \* the calls of load, and the manifest each has read: [step, got]
  call,      \* the apply in flight, None when not applying
  open,      \* ResourceDetailBody: the panel, and whether its YAML tab was opened
  draft,     \* ResourceYamlTab.draft
  editing,   \* ResourceYamlEditStore.editingKey is this object
  retyped    \* history: the version line of the draft was typed over

vars == <<verbs, cluster, object, failed, conflict, load, call, open, draft, editing, retyped>>
stored == <<object, failed, conflict>>
text == <<draft, retyped>>
tab == <<open, text, editing>>

Init ==
  /\ verbs \in SUBSET {"patch", "update"}
  /\ cluster \in [rv : {0}, val : First]
  /\ object = None /\ failed = FALSE /\ conflict = None
  /\ load = [i \in Loads |-> [step |-> "idle", got |-> None]]
  /\ call = None
  /\ open = [panel |-> FALSE, yaml |-> FALSE]
  /\ draft = None /\ editing = FALSE /\ retyped = FALSE

-----------------------------------------------------------------------------
(* YamlApplyPlanner. *)

Holds(m, l) == m.val[l] # Absent

changedFields(current, edited) ==
  {FieldOf[l] : l \in {k \in Leaves : current.val[k] # edited.val[k]}}
    \cup (IF current.rv = edited.rv THEN {} ELSE {Metadata})

hasRemoval(current, edited, field) ==
  \/ \E l \in Leaves : FieldOf[l] = field /\ Holds(current, l) /\ ~Holds(edited, l)
  \/ field = Metadata /\ current.rv # Absent /\ edited.rv = Absent

(* Mutant: only a top-level field that is gone counts. *)
droppedFieldsOnTop(current, edited) ==
  {f \in Fields \ (ClusterOwned \cup {Metadata}) :
     hasRemoval(current, edited, f) /\ \A l \in Leaves : FieldOf[l] = f => ~Holds(edited, l)}

(* The fields that lose a leaf, at whatever depth. *)
droppedFields(current, edited) == {f \in Fields \ ClusterOwned : hasRemoval(current, edited, f)}

unknown(fields) == fields \ Declared

plan(current, edited) ==
  LET fields    == changedFields(current, edited) \ ClusterOwned
      dropped   == droppedFields(current, edited)
      replacing == "update" \in verbs /\ (dropped # {} \/ "patch" \notin verbs)
      present   == {FieldOf[l] : l \in {k \in Leaves : Holds(edited, k)}}
  IN  IF fields = {} THEN [mode |-> "noop", fields |-> {}, unsupported |-> {}]
      ELSE IF replacing THEN [mode |-> "replace", fields |-> {}, unsupported |-> unknown(present)]
      ELSE [mode |-> "patch", fields |-> fields, unsupported |-> unknown(fields) \cup dropped]

(* Mutant: a patch of other fields carries no metadata, and the server checks nothing. *)
VersionLeftOut(c) == IF c.mode = "replace" \/ Metadata \in c.fields THEN c.edited.rv ELSE cluster.rv

(* The version a request names: that of the document wherever its metadata is
   sent, be it the one it was drawn with or not, or none. *)
VersionSent(c) == IF c.mode = "replace" \/ Metadata \in c.fields THEN c.edited.rv ELSE c.current.rv

(* The object after the request: a merge patch leaves alone what it omits, and
   the entity keeps undeclared and read-only fields out of the body. *)
Written(c) ==
  [l \in Leaves |->
     IF FieldOf[l] \in ClusterOwned THEN cluster.val[l]
     ELSE IF c.mode = "replace" THEN (IF FieldOf[l] \in Declared THEN c.edited.val[l] ELSE Absent)
     ELSE IF FieldOf[l] \in c.fields \cap Declared /\ Holds(c.edited, l) THEN c.edited.val[l]
     ELSE cluster.val[l]]

(* A write that changes nothing keeps the version. *)
Saved(val) == cluster' = IF val = cluster.val THEN cluster ELSE [rv |-> cluster.rv + 1, val |-> val]

-----------------------------------------------------------------------------
(* The panel and its tab. *)

Mounted  == open.yaml /\ ~failed
applying == call # None
dirty    == draft # object

Draws(manifest) == draft' = manifest /\ retyped' = FALSE

(* originalChanged: a new original takes the place of the draft. *)
Redraws(manifest) ==
  /\ object' = manifest
  /\ IF manifest = object THEN UNCHANGED text ELSE Draws(manifest)

(* end, discard: the draft goes back to the original. *)
Stops == editing' = FALSE /\ Draws(object)

loadBegins(i) ==
  /\ load[i].step = "idle"
  /\ load' = [load EXCEPT ![i].step = "asked"]
  /\ failed' = FALSE

Opens(i) ==
  /\ ~open.panel
  /\ loadBegins(i)
  /\ open' = [open EXCEPT !.panel = TRUE]
  /\ UNCHANGED <<verbs, cluster, object, conflict, call, text, editing>>

Retries(i) ==
  /\ open.panel /\ failed
  /\ loadBegins(i)
  /\ UNCHANGED <<verbs, cluster, object, conflict, call, tab>>

LoadServed(i) ==
  /\ load[i].step = "asked"
  /\ load' = [load EXCEPT ![i] = [step |-> "read", got |-> cluster]]
  /\ UNCHANGED <<verbs, cluster, stored, call, tab>>

Loaded(i) ==
  /\ load[i].step = "read"
  /\ Redraws(load[i].got)
  /\ conflict' = None
  /\ load' = [load EXCEPT ![i] = [step |-> "ended", got |-> None]]
  /\ UNCHANGED <<verbs, cluster, failed, call, open, editing>>

(* The error takes the place of the tab, which ends the edit as it goes. *)
LoadFails(i) ==
  /\ load[i].step \in {"asked", "read"}
  /\ load' = [load EXCEPT ![i] = [step |-> "ended", got |-> None]]
  /\ failed' = TRUE
  /\ IF Mounted THEN Stops ELSE UNCHANGED <<text, editing>>
  /\ UNCHANGED <<verbs, cluster, object, conflict, call, open>>

openTab ==
  /\ open.panel /\ object # None
  /\ open' = [open EXCEPT !.yaml = TRUE]
  /\ UNCHANGED <<verbs, cluster, stored, load, call, text, editing>>

(* leave: asked first when there are unsaved changes, the operator let go of them. *)
Closes ==
  /\ open.panel
  /\ open' = [panel |-> FALSE, yaml |-> FALSE]
  /\ Stops
  /\ UNCHANGED <<verbs, cluster, stored, load, call>>

cancelYamlEdit ==
  /\ Mounted /\ editing
  /\ Stops
  /\ UNCHANGED <<verbs, cluster, stored, load, call, open>>

startEditing ==
  /\ Mounted /\ ~editing /\ verbs # {}
  /\ editing' = TRUE
  /\ UNCHANGED <<verbs, cluster, stored, load, call, open, text>>

Types(l, v) ==
  /\ Mounted /\ editing
  /\ draft' = [draft EXCEPT !.val[l] = v]
  /\ UNCHANGED <<verbs, cluster, stored, load, call, open, editing, retyped>>

(* Nothing keeps the version line from the operator, and nothing restores it. *)
Retypes(v) ==
  /\ Mounted /\ editing
  /\ draft' = [draft EXCEPT !.rv = v] /\ retyped' = TRUE
  /\ UNCHANGED <<verbs, cluster, stored, load, call, open, editing>>

revert ==
  /\ Mounted /\ editing /\ dirty /\ ~applying
  /\ Draws(object)
  /\ UNCHANGED <<verbs, cluster, stored, load, call, open, editing>>

-----------------------------------------------------------------------------
(* Applying a draft. *)

(* The plan refuses to lose a field, and nothing is sent. *)
Unsupported(edited) ==
  /\ plan(object, edited).unsupported # {}
  /\ conflict' = None
  /\ UNCHANGED <<call, text, editing>>

MeansTheSame(edited) ==
  /\ plan(object, edited).mode = "noop"
  /\ conflict' = None
  /\ Stops
  /\ UNCHANGED call

(* `shown` is the version the operator has before them, `typed` that the one
   in the document is of their own making. *)
Sends(edited, shown, typed) ==
  LET p == plan(object, edited) IN
  /\ p.mode # "noop" /\ p.unsupported = {}
  /\ call' = [step |-> "sent", mode |-> p.mode, fields |-> p.fields, current |-> object,
              edited |-> edited, shown |-> shown, typed |-> typed]
  /\ conflict' = None
  /\ UNCHANGED <<text, editing>>

applies(edited, shown, typed) ==
  /\ cluster.rv < MaxVersion
  /\ Unsupported(edited) \/ MeansTheSame(edited) \/ Sends(edited, shown, typed)
  /\ UNCHANGED <<verbs, cluster, object, failed, load, open>>

apply ==
  /\ Mounted /\ editing /\ dirty /\ ~applying
  /\ applies(draft, object.rv, retyped)

(* The draft over the version of the conflict, which is shown beside it,
   whatever its own version line says. *)
rebase(edited) == [edited EXCEPT !.rv = conflict.rv]

reapply ==
  /\ Mounted /\ conflict # None
  /\ applies(rebase(draft), conflict.rv, FALSE)

takeConflict ==
  /\ Mounted /\ conflict # None
  /\ Redraws(conflict)
  /\ conflict' = None
  /\ UNCHANGED <<verbs, cluster, failed, load, call, open, editing>>

dismissConflict ==
  /\ Mounted /\ conflict # None
  /\ conflict' = None
  /\ UNCHANGED <<verbs, cluster, object, failed, load, call, tab>>

At(step) == call # None /\ call.step = step
Awaits(step, got) == [step |-> step, got |-> got]

(* The API server takes a write that names no version, or the one the object has. *)
Unopposed(version) == version \in {Absent, Blank, cluster.rv}

Accepted ==
  /\ At("sent") /\ Unopposed(VersionSent(call))
  /\ Saved(Written(call))
  /\ call' = Awaits("written", None)
  /\ UNCHANGED <<verbs, stored, load, tab>>

Conflicts ==
  /\ At("sent") /\ ~Unopposed(VersionSent(call))
  /\ call' = Awaits("refused", None)
  /\ UNCHANGED <<verbs, cluster, stored, load, tab>>

(* What the cluster now holds is read back; after a conflict, to be shown. *)
ReadBack ==
  /\ \/ At("written") /\ call' = Awaits("read", cluster)
     \/ At("refused") /\ call' = Awaits("differs", cluster)
  /\ UNCHANGED <<verbs, cluster, stored, load, tab>>

Applied ==
  /\ At("read")
  /\ object' = call.got /\ Draws(call.got)
  /\ editing' = FALSE
  /\ call' = None
  /\ UNCHANGED <<verbs, cluster, failed, conflict, load, open>>

ConflictShown ==
  /\ At("differs")
  /\ conflict' = call.got
  /\ call' = None
  /\ UNCHANGED <<verbs, cluster, object, failed, load, tab>>

(* A request is refused for another reason, or its answer never comes: the
   write may have been made. *)
ApplyFails ==
  /\ applying
  /\ call' = None
  /\ UNCHANGED <<verbs, cluster, stored, load, tab>>

-----------------------------------------------------------------------------
(* Another client, or a controller, writes the object. *)
OthersWrite(l, v) ==
  /\ l \in Contested /\ cluster.rv < MaxVersion /\ v # cluster.val[l]
  /\ Saved([cluster.val EXCEPT ![l] = v])
  /\ UNCHANGED <<verbs, stored, load, call, tab>>

Next ==
  \/ \E i \in Loads : Opens(i) \/ Retries(i) \/ LoadServed(i) \/ Loaded(i) \/ LoadFails(i)
  \/ \E l \in Leaves : \E v \in Choices[l] : Types(l, v) \/ OthersWrite(l, v)
  \/ \E v \in Typed : Retypes(v)
  \/ openTab \/ Closes \/ cancelYamlEdit \/ startEditing \/ revert
  \/ apply \/ reapply \/ takeConflict \/ dismissConflict
  \/ Accepted \/ Conflicts \/ ReadBack \/ Applied \/ ConflictShown \/ ApplyFails

Spec == Init /\ [][Next]_vars

-----------------------------------------------------------------------------
Writes == At("sent") /\ call' # None /\ call'.step = "written"

(* A write that is accepted takes the place of the version the operator had   *)
(* before them, the one the draft is over or the one the conflict was shown   *)
(* with: what somebody else wrote meanwhile is overwritten unseen only by a    *)
(* draft whose own version line the operator emptied, took out or made the     *)
(* version the cluster has.  A reapplied draft never does, and neither does a  *)
(* patch of other fields (ResourceYamlService.changes, YamlApplyPlanner,       *)
(* ResourceObjectStore.rebase).                                                *)
NothingOverwritten ==
  [][Writes => \/ call.shown = cluster.rv
               \/ call.typed /\ Unopposed(call.edited.rv)]_vars

(* Apply sends the document: over the version of the draft the object then     *)
(* holds what the document holds, status apart, and a leaf taken out of it is  *)
(* gone.  A draft reapplied over a conflict wins wherever it was changed and   *)
(* makes up nothing elsewhere (YamlApplyPlanner.droppedFields, unknown).       *)
AppliesTheDocument ==
  [][Writes =>
       \A l \in {k \in Leaves : FieldOf[k] \notin ClusterOwned} :
         /\ cluster'.val[l] \in {call.edited.val[l], cluster.val[l]}
         /\ call.current.val[l] # call.edited.val[l] => cluster'.val[l] = call.edited.val[l]
         /\ call.current = cluster => cluster'.val[l] = call.edited.val[l]]_vars
=============================================================================
