# kubiq: specifications and proofs

kubiq is a desktop console for Kubernetes. A Go backend (`src/core`, bound into
the webview by Wails) holds everything that is alive: sessions with clusters,
streams, websockets, listeners, child processes, downloads. A TypeScript
frontend (`src/frontend/src`) asks for those things by asynchronous calls and
hears of them by events. Nearly all that is hard about the program is in that
seam: a call and the events of what it opened cross the bridge independently,
every stop races the natural end of what it stops, and the frontend's state is
read before an `await` and written after it.

This directory holds TLA+ modules of that seam and of what lies on both sides
of it, configurations for TLC, and proofs for TLAPS. `PROJECT.json` lists the
components, the runs, the lines each definition translates, the hazards, the
findings and the theorems.

## 1. Inventory

Paths of Go code are under `src/core/services`, those of TypeScript under
`src/frontend/src`.

### The Go backend

| part | state it keeps | operations | what is hard | what makes it correct |
|---|---|---|---|---|
| Sessions: `kube/connection_service.go`, `session_registry.go`, `session.go` | the registry, a map under a mutex; a cancellable context and a client per session | Connect, Disconnect, Sessions, ServiceShutdown | a session is looked up, and closed before it is used | closing a session ends all that runs over it |
| Streams: `kube/kube_service.go`, `stream.go` | the map of handles under a mutex; a context, a `done` channel and a reader goroutine per stream | Send, StartStream, StopStream, ServiceShutdown | the limit is counted before the request goes out; stop, the end of the body, the end of the session and the shutdown race | bounded streams, one close per stream and nothing after it, an answered stop means silence, everything ends |
| Channels: `channel/channel.go`, `channel_service.go`, `dialer.go` | handles, a counter of channels being opened, a write mutex per channel | Open, Write, Resize, Close, ServiceShutdown | a slot is held by a counter first and by the map later; a write may hang with the mutex held | slots neither leak nor double, a close frees the writers |
| Port forwards: `channel/forward.go` | handles, a counter, listeners, connections, a target that can be changed | StartForward, StopForward, Retarget, Forwards, ServiceShutdown | an accept loop and a goroutine per connection; a stop with connections hanging | the port is free after a stop, one target per connection, the close event is the last |
| Processes: `process/process_service.go`, `managed_process.go`, `process_unix.go` | the map of processes; the process group, a pump per output, an input under a mutex | Start, Write, Resize, Kill, List, CloseAll | a tree of which only the group can be signalled; output and exit on different goroutines; a write that hangs | all output before the exit, a kill kills the group, no write to a closed input |
| Downloads: `download/download_service.go` | active downloads with their cancel | Start, Cancel, ServiceShutdown | cancel against the last chunk and the rename; two downloads of one path | the file kept is the file hashed, nothing is left behind |
| Storage: `storage/` | files and a version under a root | Read, Write, Remove, List, Migrate | a crash between a migration's step and its record | migrations tolerate their own result |
| Journal: `journal/` | an open file, its size | Write, rotate, Close | a rotation that fails half-way | no line is lost while the disk works |
| Environment, file dialogs, paths: `env/`, `io/`, `../utils` | none | calls to the system | | |
| Tray and window, `src/main.go`, `../tray` | window visibility | wiring, order of start and shutdown | the services are shut down in reverse order of the list | streams stop before their sessions close |

### The frontend

| part | state it keeps | operations | what is hard | what makes it correct |
|---|---|---|---|---|
| Stream subscriptions: `infrastructure/entityRepo/kube/transport` | the id once known, a buffer until then, listeners | start, attach, accept, stop | events arrive before the id does | no event lost, doubled or reordered; one close |
| Cluster connections: `application/services/cluster/ClusterConnectionService.ts`, `store/modules/clusterConnection`, `KubeContextProvider.ts`, `KubeSessionAdapter.ts`, `KubeStreamRegistry.ts` | `live`, cached contexts, what is shown, scopes, `connectingIds`, `adopted` | connect, disconnect, adopt | three maps of one truth that lives in Go; awaits everywhere; a reload | no session stranded, nothing shown that is not open |
| Lists and watches: `application/services/resourceWatch`, `resourceList`, `ClusterResourceStore.ts` | a session per list, a stream and a retry timer per scope, pending changes, items and cursors | load, watch, unwatch, reload, resync | stop during start, retries after a drain, a resume from a version the list never showed, overlapping refreshes | a list that claims to be live has its streams and loses no change; nothing runs for a list nobody watches |
| Port forwards: `application/services/portForward`, `PortForwardStore.ts` | a record per forward with its status and "stopped by the user", a session per forward, the listener in Go | load and restore, create, start, stop, update, remove, resume on connect, recheck and retarget | stop while start awaits the cluster; two launches of one forward; a disconnect inside a launch | what was stopped stays stopped, a listener is somebody's, what is shown is so |
| Terminals and node shells: `application/services/terminal`, `nodeShell`, `localShell`, `TerminalStore.ts` | a tab, a session and a pod per key | open, restart, close, sweep, disconnect | a tab is closed while its shell opens; a sweep over an older list; an exit before the id is known | no channel, process or privileged pod is left behind |
| Pod logs | sessions by tab | open, close, closeCluster | open fails or is repeated while in flight | closing a tab stops its stream |
| Files of records: `infrastructure/entityRepo` (the JSON collections) | one file per kind of record | create, update, remove: read all, change one, write all | two calls on one file, and Go truncates it before it writes | a record that was saved is in the file |
| Manifest editor: `application/services/resourceYaml`, `ResourceObjectStore.ts`, `ResourceYamlEditStore.ts`, `ResourceYamlTab.vue` | the object served, the draft over it, a conflict | load, edit, apply, reapply, take, dismiss | somebody else writes the object; a load that answers late; a patch that cannot take a field out | nobody's write is overwritten unseen, and what is applied is the document |
| Channel, forward, process and download subscriptions | as stream subscriptions, with a promise | run, kill, cancel | the bridge fails where Go does not | a run settles once, with what happened |
| Health: `KubeHealthMonitor.ts`, `KubeClusterProbe.ts` | misses and health by cluster | succeeded, failed, forget | answers of an old session arrive late | the health shown is the present session's |
| Self-update: `UpdateService.ts` | the pending installer | check, download, verify, install | restart between the steps | only a verified file is run |
| Catalog, kubeconfig, Helm, Argo CD, metrics, settings | stored lists, caches | requests and parsing | little: one await each | |
| Entities, views, components, routing | presentation | | | |

The connection store, the list, the forwards, the terminals and the editor are
five protocols of the same kind: a coroutine reads the fields of a store, awaits,
and writes them, and another coroutine, an event or a disconnect has come
between. None of them holds a lock; what protects them is that they look again
after an await (`disposed`, `stopped`, "is it still starting?"), or that a session
takes the place of the one before it in one map. The properties of section 4
are mostly about whether they look often enough.

### How they interact

The frontend calls Go through generated bindings; an answer may be delayed
arbitrarily against events, which travel on their own (`kube:stream:*`,
`kube:channel:*`, `kube:forward:*`, `process:*`, `download:*`). Streams, channels
and forwards look a session up in the one registry and derive their context
from the session's. The services are shut down in the reverse order of the list
in `main.go:50-63`, so that streams and channels stop before the sessions they
run over are closed. A disconnect in the frontend drains `KubeStreamRegistry`
(every stream, log, terminal and forward of the cluster registers there), then
calls Go. A reload of the webview discards the frontend's half and nothing of
Go's.

## 2. Plan

Order: what the whole program rests on first, then what composes it.

1. `SessionRegistry`, `KubeStreams` with its proofs; the abstract `StreamFeed`.
2. `StreamDelivery` (what a subscriber is promised) and `StreamBridge`, which
   implements it over any feed; proofs.
3. `Channels`, `Forwards`, `Processes` and `Downloads`, each with its proofs.
4. `ClusterConnections` over `SessionRegistry`, with its proofs.

5. `ResourceWatch`: scopes with retry, resync and drain under one list, and a
   disconnect; proofs.
6. `PortForwards`: the store, the service and the listener of one saved forward;
   proofs. `JsonCollection`: the file the forwards are saved in.
7. `Terminals`: the tabs of one cluster with exec, node and local shells; proofs.
8. `ManifestEdit`: editing an object somebody else may write; proofs.

These are written. Left, in this order:

9. `Runs`: the promise of `ProcessRun` and `DownloadRun` against events and
   answers, composed with the events of `Processes` and `Downloads`.
10. `PodLogs`, over `StreamDelivery`; `KubeHealth`, `StorageMigration`,
    `JournalRotation`, `Update`, each small.
11. Proofs: every safety property the runs check is a theorem (section 5). Left
    are results no run asks for yet: the slots of `Forwards`, counted as those of
    `Channels` are, and those of the modules that items 9 and 10 add. Liveness stays
    with TLC.

## 3. Modules

One member of a set of calls (`Streams`, `Chans`, `Fwds`, `Procs`, `Loads`, `Ops`,
`Launches`, `Attempts`, `Calls`) is one call together with what it opens; ids are fresh in the code, so a member
is used once. Where the code holds a lock, or JavaScript runs to its next
`await`, is one action; where it does not, the action ends. Every module says in
its head what its sets stand for, and every definition of it is in the map of
`PROJECT.json`. Definitions under a comment that begins with "Mutant" are wrong on
purpose: each is a variant of the definition it precedes, no specification
uses it, and the `mutants` of `PROJECT.json` name the property that refutes it.

**`SessionRegistry`** The Go registry: sessions are added, removed and, some
time after, closed (the context cancelled). `KubeStreams`, `Channels`,
`Forwards` and `ClusterConnections` extend it, so that all four see the same gap
between a session's removal and its end.

**`KubeStreams`** `phase` follows the goroutine of StartStream
(`looked` → `opening` → …) and then of `pump` (`reading` → `drained…` → `reported`
→ `removed` → `ended`), one action per critical section of `stream.go`; the
deferred calls of `pump` run in the code's order. `stopper` are StopStream
calls, `shut` and `pending` are `stopAll` with its snapshot. `CtxDone` is the
context's own cancel or its session's. What the emitter sends is kept in
`events`; a chunk is only a chunk.

**`StreamFeed`** What the webview may expect of a stream: chunks, then `stopped`,
`eof`, or an error and `failed`, then nothing. `KubeStreams` implements it.

**`StreamDelivery`**, **`StreamBridge`** The promise to a handler (every event
once, in order, up to the close; one close; silence after a stop or a failed
start), and the buffering subscription of `KubeStreamSubscriptionBase.ts` and
`KubeStreamTransport.ts`: `begin` listens and calls, events are buffered while the
id is unknown, `attach` replays those of its own stream, `stop` waits for the
answer and closes in a `finally`. A subscription that does not know its id yet
hears the events of all streams and keeps them by stream, and events of one
stream are delivered in the order Go emitted them: `bus[s]` is what is on its way
of stream `s`, delivered to whoever listens. Between streams no order is claimed,
and none is needed. The bridge may throw, and may be missing.

**`Channels`** `opening` is the counter of reserved slots, `channels` the map;
the reader's deferred calls in their order; `writer` the Write and Resize calls
that queue for the write mutex; Close and the shutdown as in `KubeStreams`.

**`Forwards`** The listener with its port, the accept loop, one goroutine per
connection (`accepted` → `dialing` → `piping` → `closing` → `gone`) with its two
pumps, the target as a version number that Retarget raises, `stop`'s closing of
the listener ahead of its wait.

**`Processes`** `tree` is what lives of a process: the root, a leftover in its
group, and an escaped one in a group of its own. `phase` follows Start and then
`reap` through its order (wait, close input, sweep the group, await the pumps,
remove, report). A pseudo terminal or pipes, by `kind`.

**`Downloads`** Files are named by the download that created them and contain
who wrote which chunk, so that two downloads of one path can be told apart.
The worker is followed from the request to the rename and the done event. The
removal of a partial file may fail, which the code does not look at; `stuck`
remembers the downloads it failed for.

**`ClusterConnections`** A member of `Ops` is a coroutine of the store; `pc` is
the await it is in. `live`, `contexts`, `shown`, `scoped`, `connecting` and
`adopted` are the fields of the code. `Reload` resets them, marks the calls that
were in flight as gone, and keeps the registry. Calls of any kind overlap, as
nothing in the code keeps them apart; `crossed` remembers the clusters that two
calls of one page had in hand at once. Three choices to know of: `AdoptCall` after a reload waits until Go has answered the old page's calls;
`Discards` may hit any session of the list, since the catalog's membership is
not modelled; the drain of the streams is an await of its own without the
streams.

**`ResourceWatch`** One list. A member of `Ops` is a coroutine (a reload of the view,
a resync the watch asks for, the view going away), and the watch session it
starts carries its name; a scope is one namespace of one session, with the
stream's `link`, the version `rv` it would resume from, its count of flaps and its
retry timer. An object is its version, so "the list is behind" is a comparison of
numbers. `Event` moves `rv` on at once and puts the change into `pending`; `flush`
puts `pending` into the list: the distance between the two is what
`NothingSkipped` is about. `holder` is the session the service's map has.
`StreamCloses` ends a stream in the three ways the code tells
apart (a healthy end, a flap, an error), `Expired` is the version that is no longer
kept, and `Resyncs` starts the list over.

**`PortForwards`** One saved forward. `record` is what the store shows; a launch
stands at the stop of what ran (`clearing`), at the search for a pod (`resolving`),
at Go's answer (`listening`) or at the stop of the session it replaces
(`replacing`); `session[l]` is the PortForwardSession of the launch together with
its listener in Go (`go`), with the close event on its way (`bye`), with whether
`KubeStreamRegistry` holds it (`held`), and with its recheck (`check`, an await of
its own). `current` is the service's map at this id. The disconnect is drain, Go's
close, and the store's event, in three steps. `Answered` is the whole of what
runs after StartForward: the events held back, the session taking its place,
and the store looking whether it is still wanted (`Shown`).

`conn` follows a connect through its awaits too: it is dialled (`connecting`), the
cluster is live while its scope is read (`scoping`), and then the connect is
announced (`ScopeRead`) or has failed over a cluster that stays live
(`ScopeFails`). A connect of a cluster that is live drains and closes its session
first (`redraining`, `reclosing`) and announces no disconnect; `shows` is what the
connection store has in `connections` meanwhile, the live session or one that is
gone, and `renewed` marks the sessions such a connect ended. `starter` are the
calls of `start` that wait for a connect, their own or one they joined
(`joinable`: one that `ClusterEntryService` has in its map). Four things are left
out: a connect and a disconnect of the cluster do not overlap (that is
`ClusterConnections`), an adoption is a connect like another, Go's Disconnect finds
its session, and one `start` at a time is between its call and the connect.

**`Terminals`** The tabs of one cluster. An attempt goes, by its kind, through
`preparing` (kubectl is looked for), `sweeping` and `creating` and `polling` (the node
shell's pod) to `dialing`; `link` is its channel or process. `Halted` is `stop` of a
session, with the cleanup of its pod queued behind the close. The pods are in
the model, since a sweep deletes what it finds: it is told what to keep when the
tab is opened (`begin`), lists the pods (`Listed`), deletes them one at a time and
may fail at each (`Deleted`), and goes on when all have answered (`Swept`). The
delete of a cleanup may fail as well (`CleanedUp`), and a session that fails shows
so only after its cleanup succeeded. `raced` and `unlisted` remember the pods whose
creation was answered too late, for the session and for a sweep. A pod is created
in one step and its answer heard in another. The cluster is connected once.

**`JsonCollection`** The file of the saved forwards: a call reads the record
(`getById`), then the whole file (`getAll`), changes it, and writes it in the two
steps Go's WriteFile takes. Calls overlap freely, as they do in the code.

**`ManifestEdit`** One object in the API server, the store's copy, the tab's draft and
the conflict. A manifest is a version and the value of each leaf, and a leaf lies
under a top-level field: this is as much as the planner looks at. `plan` is
`YamlApplyPlanner` whole, and `Written` what the server makes of the request.
Other clients write between any two steps. The draft is text, and its version
line is in it: `Retypes` empties it, takes it out or puts another version there,
and `retyped` remembers that the draft no longer names the version it was drawn
with. The server takes a write that names no version.

The `MC…` modules add the constraints section 4 names, or the values of
constants a configuration cannot write, and nothing else.

## 4. Runs

One run per module carries all its properties, so that every property is
checked in the presence of everything the module can do; the bounds are in
the `.cfg` files.

| run | shows | bounds, and why |
|---|---|---|
| `streams` | `LiveWithinLimit`, `StopsAreTrue`, `StoppedBeforeSessionsClose`, `KeepsTheFeed`, `AnsweredMeansSilent`, `StreamsEnd` | 3 calls and 2 slots: one is one too many; one StopStream, one chunk; `Late = {s3}`: one reader may outlast the timer of whoever waits for it, the others do not. `ThirdIsRefused`: the third call, which is there to meet the limit, is not combined with chunks, the StopStream and the shutdown, so those see every pair of streams |
| `bridge` | `NothingLost`, `ListensWhileOpen`, `DeliversTheFeed`, `SubscriptionsEnd` | 2 subscriptions: each may buffer the other's events; a chunk and a close (or an error between them) make an order; 2 stops of one stream |
| `channels` | `SlotsAccounted`, `ChannelsEnd` | 2 calls for 1 slot, a close, 2 writers on one mutex. `ServesAlone`: writers and data only where one channel is opened |
| `forwards` | `CloseIsLast`, `DialsOneTarget`, `StopFreesPort`, `StopEndsForward` | 2 forwards for one slot and one port; a client around a retarget. `ServesAlone`: clients and retargets only where one forward is started |
| `processes` | `ExitSaysAll`, `WritesToOpenInput`, `KilledMeansGone`, `ProcessesEnd` | 2 processes, so that one may start after CloseAll took its list; a writer, a killer, one chunk per output, children inside and outside of the group, both kinds. `ServesAlone`: writer, killer, output and children only where one process is started |
| `downloads` | `DigestIsOfTheFile`, `NothingLeftBehind`, `ShutdownCleansUp`, `CancelIsHonoured` | 2 downloads and 2 targets, so that they may meet on one; bodies of 2 chunks: short and whole differ; a cancel; any removal may fail |
| `clusters` | `NothingStranded`, `ConnectEnds` | 3 sessions, 2 clusters, 2 calls in flight of any kinds, a reload inside any. `InOrder`: ids of sessions, the first cluster and idle members of `Ops` are taken in order, which loses nothing, since they are interchangeable. `ClosesAtOnce`: what Go took out of the registry it closes before anything else happens; no other step reads whether it has. `FewAtOnce`: the third session only with one cluster and no reload, and after a reload no session is opened where two clusters are in use |
| `resources` | `NothingSkipped`, `LiveIsWatched`, `NobodysStream`, `Settles` | 2 namespaces, shown both or one; 2 coroutines, so that a reload or a resync follows a load; 1 change of each object and 1 stream that ends on its own; a second pending change overflows and one flap is too many. `OverlapsAlone`: the two coroutines overlap where nothing is written and no stream ends on its own, and follow one another in everything else |
| `portforwards` | `StopHolds`, `WaitsForCluster`, `NobodysListener`, `ShownAsItIs` | 2 launches, which overlap each other, a stop, a recheck, a connect, a reconnect and a disconnect; the mode that does not restore, and the one that restores and also connects at the start; connects and disconnects without bound. `FewAtOnce`: an edit, a removal and a start that waits do not overlap one another, and nothing is reconnected once launches have crossed |
| `shells` | `NobodysShell`, `RunningIsOpen`, `NoneLeft`, `ShellPods` | 2 tabs and 2 attempts, of one tab or of both, of every pair of kinds; every delete may fail |
| `manifests` | `NothingOverwritten`, `AppliesTheDocument` | 2 loads, so that one may answer late; nobody starts a write over a version later than 2, so another client overtakes a draft and a reapply is overtaken once more; a version line that is taken out, empty, or names a version that is or will be the cluster's; a leaf in each kind of field the planner tells apart: metadata, spec, status, and one the entity does not declare; others write the replicas (`Contested`). The two loads are symmetric. Which verbs are allowed is chosen at the start |
| `collection` | the counterexample below | 1 record, 2 calls: the smallest that overlap |

The constraints prune calls that users make, children that start, and in `clusters`
a dial that succeeds, where its refusal remains: a step that fairness promises
can always still be taken, at the latest after Go has closed what it removed, so
the liveness properties are not weakened by them; what they leave out is said in
the table.

Properties that belong together are one property with named parts: `StreamsEnd`,
`SubscriptionsEnd`, `ChannelsEnd`, `ProcessesEnd` and `Settles` are the liveness of
their module, `StopsAreTrue` both directions of a stop.

Some properties except states by a history variable, always for something the
code does and section "What the code does" names:

* `crossed`, two coroutines of one list, two launches of one forward, two sessions
  of one tab, or two calls for one cluster that overlapped: `NothingSkipped`,
  `LiveIsWatched`, `NobodysStream`, `Settles`, `ShownAsItIs`, `RunningIsOpen` and
  `NothingStranded`, the last for the cluster in question only;
* `early`, a stream lost before the start of its session was over (`LiveIsWatched`),
  or an exit told while the session is being attached (`RunningIsOpen`);
* `stuck`, a partial file whose removal failed: `NothingLeftBehind`, `ShutdownCleansUp`;
* `raced`, a pod whose shell was stopped or gave up before the creation of the pod was
  answered, and a pod whose delete failed: `NoneLeft`; `unlisted`, a pod a sweep could
  not know of: `ShellPods`;
* a version line the operator typed over so that the server does not refuse it:
  `NothingOverwritten`;
* a session that a reconnect ended (`renewed`): `ShownAsItIs`. `WaitsForCluster`
  speaks of a cluster whose connect was announced, not of one that is merely live.

The properties on which resources of a forward or a shell depend, `NobodysListener` and
`NobodysShell`, have no exception, nor have `StopHolds` and `DisconnectEndsWatches`,
the part of `Settles` on what a disconnect ends.

Type invariants that are proved (`KubeStreams`, `Channels`, `Downloads`,
`ClusterConnections`, `PortForwards`, `Terminals`, and as the first part of their
inductive invariants `StreamBridge`, `Forwards`, `Processes` and `ResourceWatch`) are not
checked again. In the models
of the frontend (`ClusterConnections`, `ResourceWatch`, `PortForwards`, `Terminals`,
`ManifestEdit`, `JsonCollection`) the program may rest with nobody calling it, and
their calls run out, so their configurations switch deadlock checking off; in the
other modules a behaviour may only stop in an explicit `Exit` or `Rest` state, and TLC
checks that no other state is stuck.

### Fairness

Weak fairness is given to goroutines that can run and to awaits that will be
answered, and to nothing a user, a server or a child process does: nobody has to
call, exit, print, read its input, send a chunk or answer a request. A request,
a dial or a read ends for certain only when its context has ended, and the
fairness conditions say so (`CtxDone(s) /\ OpenFailed(s)`). Beyond that:

* the write mutex of a channel is handed to every goroutine that waits for it:
  `SF_vars(send(w))`, by the starvation mode of Go's mutexes; `CloseFreesWriters`
  rests on it;
* clients of a forward take their bytes or hang up, and a pump whose context
  ended writes no further frame: `StopEndsForward` rests on it, and without it a
  client that takes nothing keeps its forward in the list (`forward.go:305`);
* the bridge answers every call and delivers every event, and every await of
  `ClusterConnections` ends, because Go answers each call and requests to a
  cluster have a deadline (the run and the proofs are of `Spec`, which includes
  this fairness in that module);
* in `ResourceWatch` (`WatchFairSpec`) an open stream delivers, a timer
  fires and what was asked of a connected cluster is answered; a cluster that is
  gone refuses. Nobody has to reload, to leave, to write or to disconnect, and a
  stream need not end;
* the three liveness properties of `Processes` are conditional on what nobody
  can promise: a child that left the group and holds the pipes, or a write into
  an input nobody reads, may hold an exit up for ever, and the properties say so
  (`Holdup`) in place of assuming it away.

`PortForwards`, `Terminals`, `ManifestEdit`, `Downloads` and `JsonCollection` state no
fairness and claim no liveness: what a user, a cluster or the bridge does next is
all there is to wait for.

### What the code does that its documentation does not say

One run ends in a counterexample, to a sentence of the repository:

* `collection`: `PortForwardStore.ts:450` says "Flipped before the write, so a stop
  pressed while a start is still saving is not undone by it." In memory it is not.
  In the file it is: `rememberPort` of the start and `rememberStopped` of the stop
  (`PortForwardService.ts:121`) each read the whole file, change a record and write
  the whole file, and the write that comes last is of what was read first. The
  forward is restored at the next start of the application.

The others are visible in the models, and the properties above leave them out by
the exception named with each; without it TLC finds them.

Of two coroutines that overlap:

* A connect during adopt's await of `/version` and the adoption overwrite each
  other's session in `live`; the one that loses is held by nobody
  (`ClusterConnectionService.ts:157-179`; `crossed` in `NothingStranded`).
* A disconnect that drains slowly ends after a reconnect and deletes the new
  session from `live` (`ClusterConnectionService.ts:97`; `crossed` in `NothingStranded`).
* A reconnect closes the old session, is refused, and the store goes on showing
  the closed one (`ClusterConnectionStore.ts:157`; needs no overlap, and no property
  claims the contrary).
* Two refreshes of one list, a resync and a change of namespace, may leave two
  sessions watching, or the older load on the screen; a start that fails clears
  the key whoever holds it (`ResourceWatchService.ts:36`; `crossed`). The
  sessions that are left end with the cluster's (`DisconnectEndsWatches`, of which
  nothing is excepted).
* A scope that is stopped while it waits for its stream keeps the stream it gets
  (`ResourceWatchScope.ts:46`): nobody hears it, and only the disconnect ends it.
* A stream that is lost before the other scopes of its session have started is
  shown as live (`early` in `LiveIsWatched`).
* Two launches of one forward, or a launch and an edit of its ports, may leave the
  record reading "error" over a listener that works, or the reverse
  (`PortForwardStore.ts:404`; `crossed` in `ShownAsItIs`). The listener is still the one
  the service holds (`NobodysListener`).
* A node shell whose tab is closed before the creation of its pod is answered
  leaves the privileged pod until the next sweep (`raced` in `NoneLeft`), where
  `README.md:140-142` says that closing the tab deletes it. A sweep under way takes the
  pod of another tab's shell, running by then, if the creation of the pod was
  answered after the sweep was told what to keep (`TerminalService.ts:101-104`), and
  one whose record an earlier session of the tab dropped or replaced
  (`TerminalService.ts:104-106`; `unlisted` in `ShellPods`).

Of a step that fails half-way:

* A connect sets the cluster live and then reads its scope
  (`ClusterConnectionStore.ts:140`); if that throws, no connect is announced (`:156`)
  though the cluster is live. A forward that waits for it goes on waiting until the user
  starts it again, the one whose start asked for the connect included, which
  finds the cluster connected and says nothing (`PortForwardStore.ts:212`; `shows` in
  `WaitsForCluster`).
* A reconnect closes the old session and announces no disconnect
  (`ClusterConnectionService.ts:55-57`): a forward that ran reads "active" over a
  listener that is closed, and is not started again, where `README.md:154-155` says
  that it "starts whenever its cluster is connected" (`renewed` in `ShownAsItIs`).
* A delete of a node shell's pod that fails is not repeated: the privileged pod stays
  until the next sweep, and the failures of a sweep are passed over
  (`NodeShellService.ts:66-72,85,90`; `NoneLeft`). If it fails in the cleanup of a shell
  that could not be opened, the tab says "starting" for good and cannot be restarted
  (`TerminalService.ts:232`; `CleanedUp`).
* What `os.Remove` answers of a partial file is dropped (`download_service.go:177,184`;
  `stuck`).

Of two clients of one thing:

* Two downloads of one path share `<path>.part`: one truncates what the other
  renames (`download_service.go:155`). It takes a second Start for the path while
  the first is alive, which the webview only does after a reload; the properties
  of `Downloads` speak of downloads that never had a rival.
* A load, or the answer of the apply before, that comes late replaces a draft
  without a word (`ResourceYamlTab.vue:250-254`), and ends a newer edit
  (`ResourceYamlTab.vue:320`); a reapply over a conflict sends the draft's whole
  metadata, labels of the other writer included (`AppliesTheDocument` says that it
  makes up nothing, not that it takes nothing back). Neither of these two overwrites
  what the operator did not see.
* A document whose version line the operator empties or takes out does: the server
  takes it over any version (`ResourceYamlService.ts:61-64,98`; `KubeManifest.ts:55` keeps
  the line in the text), where the comment at `ResourceYamlService.ts:88` says that
  "resourceVersion in the body is what turns it into a test-and-set"; so does one
  in which the operator wrote a version the cluster has by then (`typed` in
  `NothingOverwritten`).

Of processes and listeners:

* A StartForward that passes its lookup before the shutdown and publishes after
  `stopAllForwards` listed the handles keeps its listener (`forward.go:173`).
* A job of an interactive shell has a process group of its own and outlives its
  terminal (`process_unix.go:48`). A child that left the group and holds the pipes
  keeps the exit from being reported (`managed_process.go:180`): the escape in
  `Holdup`.

## 5. Proofs

The theorems hold for all values of the constants that satisfy the modules'
assumptions: limits and bounds are natural numbers, `None` is not in the sets
it is told apart from, flags are Booleans. The sets of calls and sessions may be
infinite, and so may the sets of leaves, loads and tabs; what is a bound of a
run (launches, attempts, versions) is any number. No proof uses a fairness
assumption: each is of the specification without one (`Spec`, and by their own
names `ForwardsSpec`, `ProcessesSpec` and `WatchSpec`), or, for `ClusterConnections`,
of one whose fairness the proof does not look at.

Three modules prove about two specifications that have nothing in common but
the reader: `PortForwardsProofs` is about both halves of a forward, `TerminalsProofs`
about the tabs and the processes some of them run, `ManifestEditProofs` about the
list and the object opened from it. This is why those specifications have names
of their own for what the others call `Init`, `Next` and `vars`.

All the proofs about one action at a time have the same plan. What an action
does to one call, session or stream is stated as a lemma or an operator of its
own (`StoppedIs`, `AnsweredIs`, `WatchMove`); a lemma says that what did not move
keeps its part of the invariant; then each part of the invariant is carried over
each kind of move. A part is in the invariant because the step of some action
needs it, and the text below says which.

**`KubeStreamsProofs`** `TypeCorrect` is inductive by itself. The other
properties are not, and follow from
`IInv == TypeOK /\ SlotInv /\ EventsInv /\ CancelInv /\ DoneInv /\ ShutInv`:

* `SlotInv`: a handle is in the map exactly while its goroutine is in a phase
  between `register` and its removal, and the map is within the limit. `LimitHolds`
  is then a comparison of cardinalities: what is live owns a slot.
* `EventsInv`: what has been emitted is a function of the phase (nothing; only
  data; data with one farewell). It gives `EventsHold`, and with `FarewellShape`, a
  lemma on appending a farewell to data, is kept by `Report`, the only action that
  emits a close.
* `CancelInv`: before a goroutine reports, its handle is cancelled only by who
  asked. Without it a "stopped" could not be traced to its cause (`StoppedHolds`).
* `DoneInv`: `done` is closed last, and the answers of StopStream rest on it.
  `AnsweredHolds` (an action property) and `UnknownHolds` follow, with `SlotInv`:
  a stream that has left the map never returns. `StopsHold` is `StoppedHolds` and
  `UnknownHolds` together, the property the run checks.
* `ShutInv`: who is told to stop has been in the map and never enters it again,
  and once the shutdown has copied the map, whoever is told to stop is in the
  copy that is being waited for, has left the map, or outlasted the timer.
  `StoppedBeforeSessionsClose` alone speaks of the last step only. The case that
  makes it hard is a StopStream that found its handle before the copy and cancels
  it after: `Told` counts it from the moment it found the handle. `ShutdownHolds` is
  the sentence of `main.go` that the stream service stops before the sessions close.

`FeedImplemented` is the refinement of `StreamFeed`: every step leaves the events
alone or is a step of the feed.

**`StreamBridgeProofs`** `EarsInv` ties three things: a subscription that is closed
has no listener, one that is attached and open has its listeners, and a stop is
in flight only of an attached one. It is inductive (`EarsHold`) because dispatch
closes and removes the listeners in one step; `ListensHold` and `ClosesOnceHolds`
follow.

`FlowInv` says where the events of a stream are. What was heard, what is buffered
and what is on its way are three runs of consecutive numbers that meet (`Run`,
`Meets`), the last of them ends where the feed does (`Underway`), a feed ends with its
first close (`FeedInv`), and nothing is emitted before the start was answered or
buffered after the attach (`Quiet`). Runs rather than sequences, because what the
prover needs of them is two lemmas, that two that meet join (`RunJoin`) and that the
head can be taken off; `NothingLost` is then `RunJoin` twice (`LosesNothing`).
`FlowHolds` is the induction: the attach, which replays the buffer up to its first
close, is the step that needs `FeedInv`, since what it leaves unread must be nothing.

`DeliveryImplemented` is the refinement of `StreamDelivery`: every step leaves what a
handler was told alone or is one step of the promise. Its last case, the attach
that delivers a whole run and perhaps the close in it, is the abstract delivery of
as many events at once; that the outcome is the one the feed ends with is again
`FeedInv`.

**`ChannelsProofs`** `SlotInv`: the counter equals the number of channels being
opened, the map holds exactly the published ones, and both stay finite and
together within the limit. `TypeOK` alone is not inductive, since that `opening`
stays a natural number rests on its being exact. `SlotsHold` is the result.

**`DownloadsProofs`** `Basic` says what a download has by how far it is (`Staged`),
that a file, under either name and in a worker's hands, was created for the
target it is under (`Named`), and what the shutdown has cut off (`Cut`); a download
that is past its removal has no partial file or is `stuck`. Two
downloads can therefore only touch each other's files when they are of one
target; `Owned`, the second half of the invariant, says of a download that never
had a rival which files carry its names and that they hold its own chunks and
nothing else. It is kept by its own steps (`OwnStep`), by everybody else's
(`OthersApart`), and established by a Start that finds no rival (`StartsAlone`);
`AloneBefore` is why a rival cannot appear and go. `DigestHolds`, `CleanupHolds` and
`ShutdownHolds` follow; `CancelHolds` is a temporal theorem, from `Doomed`, a
predicate every step keeps.

**`ClusterConnectionsProofs`** `ConnectsApart` (types, and at most one connect to a
cluster in flight) from `FlagInv`: every connect in flight has the flag of its
cluster set, and each wait of a call carries the cluster and session that wait
needs. `ScopeHolds` is kept because each of the two actions that show a cluster
records its scope in the same step.

`NoneStranded` is `NothingStranded` for every number of clusters, sessions, calls and
reloads and whatever calls overlap. `StrandInv` adds `Hand`, what a call has in hand at
each of its awaits: of a cluster that is not `crossed`, a connect on its way to a new
session finds no live one, a disconnect and a connect that closes an old one hold the
one that is live, an adoption decides about sessions that are gone or held. `Apart`,
that two calls with one cluster in hand make it crossed, is what keeps them from
changing what another relies on (`HandKept`): a call that writes `live` writes it
for a cluster the call has in hand (`LiveMoves`). `KnownInv` (a session that is live or in
the registry was opened, and what is live for a cluster has its label) is why a
fresh id cannot be one that is already held. Of a crossed cluster `Hand` says
nothing, and section 4 has the two ways in which one is stranded.

**`PortForwardsProofs`** `RecordInv` is `StopHolds`, `WaitsForCluster` and `ShowsLive`, and
inductive, given the types: whatever a session reports or a launch answers is told
to a record that is at rest only if it changes nothing there (`Keeps`,
`ToldKeeps`). `ShowsLive`, that what the store shows as live is of an announced
connect, leaves two steps after which a forward could wait beside one: `ScopeRead`,
which starts it, and `Loaded`, which does so too. `NobodysListener` is not inductive. `ListenerInv` ties the place of a listener to the
await of its launch: nothing is asked of Go before `listening`, a stopped session
has no listener that is open or to be opened, the service only holds sessions
whose launch has been answered, and one that was replaced is stopped in the
same step. `ListenerStopped` is the lemma on a stop of what the service holds, which
five actions contain. The theorems hold for any number of launches that
overlap in any way.

`ShownTruly` relates the record to the listener. `Own` says of one session what its
recheck, its stop and the report of Go still to come can mean: it is the forward's,
or stopped, or its launch is about to say so. `Unloaded` is that nothing runs while
the records are read. `ApartInv` is the argument itself, under `~crossed`: a launch in
flight is the only one and finds nothing running (`Alone`), nothing runs while a
session is abandoned or the forward removed (`GivenUp`, `Taken`), a record that reads
as listening has a listener, a session a reconnect ended, or an abandon that will
correct it (`Tells`), and a listener is shown (`Hears`). `AnsweredIs` takes the answer of Go apart into its
outcomes.

For `Forwards`, `ForwardsInv` has the types and six parts. `FwdListed`: the map holds the
forwards whose loop runs, and a closed `done` means that it is over. `FwdServed` and
`FwdLived`: a connection is of a forward that was served, and none is left when the
loop has waited for them. `FwdAimed`: a StopForward on its way is about a forward that
was in the map, and has closed its listener before it waits; without it the
answer could not be traced to the forward. `FwdSays`: no close event before its
report, nothing after it, which needs `FwdServed`, since an error of a connection would
come later. `FwdDials`: the version a connection was accepted at is no newer than
the forward's, which a Retarget only raises. `CloseLast`, `StopFrees` and `DialsOne` are
read off.

**`TerminalsProofs`** `ShellInv` has three parts: `Local`, what fits together in a
session (a channel is open only of an attempt that dials or is over, one that
is over is attached, an attached one is not disposed); `Whose`, that an attempt nobody stopped
is the one its tab has; `Owned`, that what a tab has was begun for it. `NobodysShell`
is then read off. `Whose` is what makes it inductive: every step that takes an
attempt out of a tab's place disposes of it (`StoppedIs`). `OneMoves` covers all
steps in which one attempt moves and no tab changes hands.

`PodInv` says who will delete a pod, or has tried: the creation that is about to be
answered, the cleanup its session keeps, or one that is queued or failed; and that a
shell nobody stopped keeps its cleanup and has its pod from the dial on, and its
tab's record of it. `SweepInv` relates a sweep to every such shell: until the pods are
listed it has been told to keep the shell's, and after that has not put it down for
deletion, unless the pod is `unlisted`. It is what `PodInv` needs at `Deleted`, and it
rests on the record of the tab at `begin`, which is what a sweep is told. `NoneLeft`,
which speaks of tabs, follows with `Whose` (`NoPodIsLeft`), and `ShellPods` is read off
(`ShellPodsHold`), for every number of tabs, attempts and sweeps in any order and
whichever deletes fail. `RunInv` is the argument of
`RunningIsOpen`: as long as no two sessions of one tab overlapped, the one under way is
the tab's, a stopped one shows nothing any more, and a link that closed before the
attach has left its goodbye to be told. `RunningHolds` holds in every state, and so
says more than that calls leave things in order.

For `Processes`, `ProcessesInv` has the types and five parts. `ProcessListed`: the map
holds a process from its publication until it is reaped, and the reaper takes its
own way with a pseudo terminal and with pipes. `StreamsRead`: a pump of a plain
process ends only when nobody is left to write to its pipe and all was read, and
the reaper goes on only when no pump is left; this is what an exit that is told
last rests on, together with `ExitTold` (`SaysAll`). `KillersAim`: from the signal on
nothing is alive in the group and nothing will be, since a process that has been
started forks only from a living member (`KillsHold`). `WritersAim`: the input of a
process stays open as long as a write to it is under way (`WritesHold`).

**`ManifestEditProofs`** `PlanNamesItsVersion` is the heart of it: a plan that neither
replaces the object nor sends its metadata is one for a document of the same
version, so that whatever a plan sends, the request names the version of the
document. With `EditInv` (the draft is over the version of the object it is drawn
from, through every load, apply, take and discard, unless its version line was typed
over; and all the cluster serves has a version, `Versioned`, so that a request that
names none is one of a retyped draft) the request names the version
the operator had before them, or the one they typed, and `OverwritesNothing`
follows, since the server refuses any other. A reapply is over the version of the
conflict, whatever the draft says. `WrittenIs` says what a sent plan makes of the object, leaf by
leaf: a leaf that a patch cannot take out or that the entity would drop makes
the plan unsupported, and such a plan is not sent (`SendsPlanned`). `DocumentApplied`
follows. Both are theorems for any schema, any leaves and any verbs.

For `ResourceWatch`, `WatchInv` is the largest invariant here. Two parts hold whatever
overlaps: `WatchBorn`, a session has nothing before its coroutine starts it, and
`WatchDead`, its scopes are stopped with it and what is stopped retries and keeps
nothing. `WatchView` is what the view remembers. The others are under `~crossed`.
`WatchAlone`: one coroutine runs at a time, the map is empty until it starts a
session, and whatever is not stopped is in the map. `WatchClaims`: a list is loaded
before it is watched, at the versions its watch starts from, and no claim to be
live outlasts the session that upholds it; while the cluster is connected each scope
has its stream, asks for it, or waits for its timer, unless the list was marked
stale. `WatchKeeps`, with `WatchLasts`: what a scope would resume from is at most the
last change that waits for its namespace, or, if none waits, what the list has.
`NothingSkipped` says the same of what the list will show, and is not inductive
because a flush moves the changes and a later event the version; the invariant
follows the last one that waits (`IsLast`), which a flush puts into the list.
`WatchMove` states the effect of each action once, and each part has its lemma over
all the moves (`ShapesKept` to `KeepsKept`). `WatchHolds` is the induction; `StreamsOwned`,
`LiveHolds` and `SkipsNothing` are the three properties the run checks, with their
exceptions (`crossed` in all; a scope stopped while it waits for its stream in the
first, `early` in the second), for any namespaces and coroutines, any number of
changes and flaps and any limits.

Only model-checked, and why:

* all liveness, under the fairness above, and with it that a state which is left
  is left in the end: out of reach of the prover, as is ENABLED;
* that no state but a declared one is stuck (the deadlock check), for the same
  reason;
* the property of `JsonCollection` is stated to be refuted, and no theorem;
* induction over data is out of reach too, so no theorem says what a recursion over
  a sequence computes. None is needed: the modules and invariants speak of
  sequences by length and position (`Run`, `IsLast`).

## 6. Not modelled

* Payloads, paths, headers, error texts, log and journal lines: no property
  depends on them. A chunk stands for any chunk.
* `KubeService.Send` and everything built of single requests (Helm, Argo CD,
  metrics, resource actions, YAML): the state they change is the cluster's.
* TLS, proxies, websocket framing and `dialer.go`: a dial succeeds or fails.
* Windows' job objects (`process_windows.go`): the Unix process group is modelled.
* Panics: the `recover` handlers of `stream.go:38` and `channel.go:65` guard
  against statements not known to panic.
* Of the connection store, `disconnectAll`, `setNamespaces` and the active
  cluster. The drain of the streams is an await of its own there; `ResourceWatch`,
  `PortForwards` and `Terminals` each have the part of the drain that concerns them.
* Of a list: rows as such (an object is its version), the actions on a row,
  selectors and custom columns, the lengths of the delays, and the stores of
  namespaces, events and nodes, which watch in the same way.
* Of a saved forward: the numbers of ports, the dialog that offers ports and
  names, and `stopAll` at the exit of the window. `Forwards` has the listener and
  its connections, `PortForwards` only whether there is one.
* Of terminals: what is written and printed, sizes, the replay to a view, links,
  the list of containers, `closeAll` at the exit, and the preparation of the local
  shell's environment.
* Of the manifest editor: creating an object, events and relations, the diff
  shown, the schema. Arrays and nesting below a leaf: the planner asks of any
  depth only whether a key that was there is gone.
* Of the files of records: a crash between the truncation and the write, and the
  browser build's local storage.
* Pod logs: a tab over a stream; `StreamBridge` has the stream, and `Terminals` the
  protocol of a tab that is closed while it opens.
* The components that section 2 still plans; `PROJECT.json` lists each, and the
  hazards of the most exposed ones.
* Generated bindings, views, components and routing: no state of their own that
  an order of steps could corrupt.

The definitions stand for a small part of the repository's lines, about one in
twenty-five, and no reasonable number of modules would make it one in three.
Of some fifty-eight thousand lines of the frontend more than a third are views and
components, a sixth the mapping of Kubernetes objects to entities and models, and a
tenth queries, adapters of single calls and events. Services and stores are a
quarter, and the greater part of them are sequences of requests and what is derived
from the answers (Helm, Argo CD, metrics, catalog, kubeconfig, schemas). All of
these have no protocol: what could be stated of them is what they compute, which
their unit tests say. What keeps something alive is mostly modelled, and the plan
names the rest.

## 7. Running

    tlc -workers 2 -config MCKubeStreams.cfg MCKubeStreams
    tlapm KubeStreamsProofs.tla

The module, configuration and expected outcome of each run are in `PROJECT.json`.
