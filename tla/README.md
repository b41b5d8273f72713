# abstraction-config: specifications

TLA+ models of the configuration layer in `go/` and of the Python reader in
`python/`, the TLC configurations that check them, and TLAPS proofs of what
matters most.

## The system

Three places decide what a machine's configuration is: the administrator's
machine file, the user's file and the overrides of one run. Embedded readers
merge them in the caller's process. The service does it for every program of one
account, edits the user's file by compare-and-set, and lets clients wait for the
answer to change.

| component | code | state it keeps | operations | what makes it correct |
| --- | --- | --- | --- | --- |
| merged readers | `config.go`, `user_editor.go`, `abstraction_config.py` | none of their own; two files | `Load`, `LoadWithSources`, `legacy_load` | the nearest location decides each key and is named for it |
| Save, Edit | `config.go` | a file; `asAdministrator`'s directory | `Save`, `Edit` | atomic, announced; a refused machine write leaves nothing |
| user record editor | `service/editor.go`, `user_editor.go` | the user record; per call its base and its attempts | `ReadUser`, `ReplaceUser` | a compare-and-set register |
| invalidation subscription | `watch.go` | `live.invalidations`, `changes`, `closed`, `once` | `WatchInvalidations`, `announce`, `signal`, `Close` | no covered change is lost; no send after close; Close joins |
| notifiers | `notify_linux.go`, `notify_bsd.go`, `notify_windows.go` | the kernel's watches or pending reads, a goroutine or one for each directory, a channel of one | `notifyDirs`, `add`, `refresh`, `arm`, `report`, `stop` | an event is told or coalesced with one that will be; nothing is owned after the stop |
| observer | `service/observer.go` | `observationState`; per call cursor, timer, slot | `PrepareObservation`, `Observe`, dispatcher, `stopObservation` | no lost wakeup, fresh answers, bounded waiters, clean shutdown |
| host | `service/service.go` | listener, 64 call tokens, workers, `ctx` | `Serve`, `Close`, `authorize` | admission stops before the drain; Close is idempotent |
| clients | `client/*.go` | the cursor a caller holds, the edit it has asked for | `Read`, `Replace`, `Observe` | an uncertain edit is never taken for a refusal, and applies once |
| generated protocol | `abstraction/config/rec.go` | none; a frame in each direction | encoders, decoders, dispatchers, clients | what a call returns was said to this very call; a refusal says why |
| Python subscription | `abstraction_config.py` | a queue of one, the threads that fill and empty it, an `abstraction_watch` subscription | `legacy_watch`, `close` | the answer held never rests out of date; the close returns |
| corpus drivers | `cmd/configdriver`, `python/driver.py` | a scratch directory, an environment | one line of a scenario | one transcript in both languages |
| the rest | codecs of other languages, `serve.go`, `datadir.go`, scripts | none | | not modelled, see below |

How they interact: a write of a file by any process becomes a kernel event; the
notifier's goroutine moves it to a channel; the subscription's goroutine settles
it (`watch.Settle`) and signals; an edit of the same process signals directly
(`announce`). The observer's dispatcher receives signals and closes the
`changed` channel; the `Observe` calls that captured that channel wake, read both
files again through the merged reader and compare the answer with their cursor.
`Host.Close` runs against all of it, and a restarted service meets clients with
the old cursors. `observation.mu`, `live.mu` and the subscription's own mutex are
the shared locks; every channel on the way has room for one signal.

What is hard: goroutines that meet at those channels and locks; the order of
capture, read and wait; reads of two files that are not one read; a conditional
write that compares bytes under a revision that compares content; Close against
start; failures half way; crashes and restarts. `PROJECT.json` lists each hazard
at its line.

## The modules

| module | models | checked by |
| --- | --- | --- |
| `ChangeSource` | what the service expects of a notification source (`ObservationSource`): an abstract specification | refined by `Invalidation`, extended by `Observation` |
| `Invalidation`, `MCInvalidation` | `watch.go` over `notify_linux.go`, the writers of both files, the receiver | run `invalidation` |
| `InvalidationProofs` | theorems about `Invalidation`, its refinement of `ChangeSource` included | TLAPS |
| `KqueueNotifier` | `notify_bsd.go`: the watches on inodes, `add`, `refresh`, the goroutine, the stop | run `notifiers` |
| `WindowsNotifier` | `notify_windows.go`: handles, overlapped reads, their goroutines, the stop | run `notifiers` |
| `PythonSubscription` | `legacy_watch` of `abstraction_config.py` with its own notifiers | run `notifiers` |
| `Notifiers` | the three above: a process holds one of them | run `notifiers` |
| `NotifierProofs` | theorems about the three notifiers and their composition | TLAPS |
| `Observation`, `MCObservation` | `service/observer.go` and `Host.Close`, over any `ChangeSource` | runs `observe`, `observe_slots`, `silent_failure`, `stopped_on_close` |
| `ObservationProofs` | theorems about `Observation` | TLAPS |
| `UserRegister` | the promise of the editor (CFG-W7, CFG-W8): a compare-and-set register | refined by `UserEditor` |
| `UserEditor` | `service/editor.go` and `ReplaceUserStore` with other writers and crashes | through `EditorClient` |
| `EditorClient` | `client/editor.go` before those workers: time limit, lost answers, retries | run `editor` |
| `UserEditorProofs` | theorems about `UserEditor` and `EditorClient`, the refinement included | TLAPS |
| `Locations`, `MCLocations` | the three merged readers as functions; every edit of a file | runs `service_calls`, `locations_silent` |
| `LocationsProofs` | theorems about the three readers | TLAPS |
| `Wire` | the records of the contract and their codec (`abstraction/config/rec.go`) | run `service_calls` |
| `Rpc` | arguments, results, envelopes, dispatchers and clients (`rec.go`), the observer client's check (`client/observer.go`) | run `service_calls` |
| `ConfigService` | one call at a time through `Rpc` to handlers over `Locations`, and a frame altered on its way | run `service_calls` |
| `ServiceProofs` | theorems about `Wire`, `Rpc` and `ConfigService`: the codec, one exchange, a call | TLAPS |
| `HostLifecycle`, `MCHostLifecycle` | `Serve` and `Close` of `service/service.go`: tokens, workers, the order of shutdown | run `host` |
| `HostProofs` | theorems about `HostLifecycle` | TLAPS |
| `MachineWrite`, `MCMachineWrite` | `asAdministrator` around `Save` and `Edit` of the machine file, between processes | runs `machine_write`, `machine_leaves` |
| `MachineWriteProofs` | theorems about `MachineWrite` | TLAPS |

Composition goes through the contract. `Observation` does not contain the
notifier: it extends `ChangeSource` and takes its steps (`SourceStarts`,
`SignalTaken`, `SourceEnds`) inside the host's own. `Invalidation` is shown to
implement `ChangeSource` by the refinement `Phase`/`Owed`, by TLC and by proof. So what
holds of the observer holds over the file source and over an injected source that keeps
the contract. `KqueueNotifier` and `WindowsNotifier` are the first two of the four
stages of `Invalidation` on another platform: what they promise its third stage is what
`kernel` and `events` promise there, that a change leads to a signal on the notifier's
channel (`KqueueLeavesNothingUntold`, `WindowsLeavesNothingUntold`).

`EditorClient` extends `UserEditor` and takes its actions inside its own, and
`ConfigService` puts the merged reader of `Locations` behind the protocol of `Rpc`; the
other two services are there as the answers they may give.

### Observation

One action is one stretch of code between two points where another goroutine can
be noticed: taking a lock, a channel operation, a read of a file.

- `starter` is the holder of `observation.mu` inside `startObservation`, where the
  source starts with the lock held; the other critical sections have no such call
  in them and are one step guarded by `Unlocked`.
- `stale[o]` stands for the channel the call captured: it is set when that channel
  is closed. Channels have no other identity.
- `phase` and `owed` are the source: `owed` is a signal in the channel or surely
  on its way to it.
- `cursor[o]` is what the client holds, as service process, overrides and answer.
  The hash of the answer is the answer itself; the random epoch is a number.
- `Capture` is one step from the look at the call's context (observer.go:197) to the captured channel.
- `expired[o]` also stands for `wait_ms = 0`. A timer may fire whenever the call
  is parked.
- `Restart` ends the process between any two steps and starts another one on the
  same files and with the same clients.
- `blind` (changes where no mechanism looks: a directory made later, an owner
  changed) and `touched` (rungs changed since a call began or its timer fired)
  are history variables: no guard reads them.

### Invalidation

`kernel`, `events`, `teller` and `changes` are the four stages a change passes, each
of one place. Every event of the inotify mask is an action of the writer that
causes it. A write in place changes the bytes before its closing event; `open`
is that interval. `AnnounceCopies` and `AnnounceSignals` are the two halves of
`announce`, between which a subscription can be closed. `Close` is its four
statements. A reader that dies on an error (`NativeFails`) and one that dies
because the descriptor was closed (`ReaderStopsOnClose`) are the same code.

### KqueueNotifier

`at` is the file system as far as two paths of each directory go: which inode each
leads to, or none. `opened` is `fds`, `queue` the events of the kqueue, and one action is
one system call of `add`, `refresh` or the loop, because the names move between any two of
them; an inode is used again once nothing holds it. `refused` are the paths whose last
refresh failed, which the code says on stderr. The three deferred calls at the end of the goroutine
(notify_bsd.go:141) are one step, so their order is not examined, nor are the kqueue's and the pipe's own descriptors. Two exemptions are in the history and not in the
code: a directory that is gone has no watch that could bring it back, and one that is
replaced between its `open` and its registration (`astray`) waits for the event of another watch:
"A following event retries" is true of files, whose directory reports the new name. A name
that is no regular file, which `add` passes over, is left out.

### WindowsNotifier

`request` is the overlapped read of each directory, and `buffered` what the system keeps between
two reads of one handle. What runs under a directory's mutex is one step. `report` follows
each goroutine through a completion: told off (closed meanwhile), rearmed before it tells, or telling
for the last time when the next read cannot be asked for. `severed` marks a completion port that
fails, through which nothing can drain any more; the two safety properties leave it out.

### PythonSubscription

One thread (on Windows one for each directory) moves reports to a queue of one, a
second settles them and loads both files again, and the close stops the first and puts an end into
the queue for the second. The library's `settle` takes a notice, waits and calls `reread`;
`push` and `post` set the answer held; `poll` asks again and again. `system` is
`sys.platform`. On macOS the directories alone are watched, so what is written in place is not
reported; on Windows nothing is, before the thread's first read, for which the first load
does not wait. Both are in `missed`, and the property speaks of everything else: the docstring
of `Subscription` says that the directory tells of "every writer", and there it does not. A thread on
Windows that is between two reads when the reads are cancelled is in `unreached`.

### UserEditor

The store holds bytes: a content and a spelling of it, no file, or bytes the
strict parser refuses. The revision is the content (a hash of the normalized
values); the conditional write compares bytes. `moves` counts, as history, the
changes others made since a call began. `Answer` settles the reply and resets
the variables of the call, which are dead from there on.

### EditorClient

`Send` is a call of the client, `TimeOut` its end without an answer (two seconds, the
caller's context, a connection that broke): the worker, whose context is the host's, is
not told. `Retry` sends the same expected revision again, so that several attempts of
one edit are under way together; `serves` remembers whose they are. `told` is what the client
returns: `TimeOut` gives `unresolved`, never a refusal. `wrote` and `standing` are history.
Bounds: `Read` and `Wanted` fix the edits one followed client makes, `Open` the worker that
other callers may use as well.

### Wire, Rpc, ConfigService

A document is what its text says: text, a map, a number, a flag, fields in their order, or a text that
is no value, with the word skipping it gives. Every generated decoder is the same walk over the fields
(`DecodeRecord`), and the records differ in what they declare. Each layer is modelled on both sides:
arguments and results, envelopes with version, service, method and error, the dispatchers with their
recheck of a result (`Invoke`) and of a reply (`ServiceReply`), the clients. The five keys of the
schema are the keys of `Locations`.

`FirstFlaw`, the word skipping a document gives, is known of an object when the object is built (`Object`),
and the alterations of a frame go down its records to the fifth, the deepest any frame has
(`Altered1` to `Altered5`): nothing here is recursive, so that theorems can be proved about all of it.

`ConfigService` lets a handler give any answer it may, and one that has no spelling, and alters one
frame of a call in one place: a field lost, doubled, malformed or invented, another order, another
service, method, version or `ok`. It never puts another legal value into arguments or result: nothing in the
protocol could tell. Bound: while anything but a plain read is called, the files are those of `Quiet`.
The snapshot of an observation is optional in the contract, so the generated client returns an observation that
lost it; `ObserveContext` refuses it (`ObservationHolds`), and `HeardIsSaid` holds of an observation by that check alone.

### Locations

No behaviour of its own, only operators; `MCLocations` puts a file pair and
overrides into variables, so that "an edit never moves a key that a nearer
location decides" can be said of steps. The text keys and the map key
are the two kinds the readers tell apart. The order in which a reader opens the
two files matters to `Observation` and is modelled there.

A text is the members of its object in the order they are written and one of five forms, which say
what the two parsers make of the rest of it. Each language reads it by its own: `Unmarshalled` is
`json.Unmarshal` into a `Config` (names in any letters' case, member by member, a null keeps a string and
drops a map, the entries of a repeated map are joined, half a surrogate pair becomes U+FFFD), with `Decodes` for what it refuses
as a whole; `Loads`, `Got` and `Taken` are `json.loads` into a dict and what `_read_into` takes of it (exact
names, the last of one name, values of the right type one by one). Then Go merges two results, and Python
lays one file over the other key by key.

`LanguagesAgree` says that they come to the same answer and the same origins over *unambiguous* texts:
exact names, values of the right type or null, maps named once, no null after a string, and no text that one
parser takes and the other does not. Text keys may be repeated, and any file may be missing, malformed for
both, untrusted or beyond the bound. Over other texts the languages do differ, and TLC shows it as soon as the
condition is dropped; the differences are listed below (Found while modelling). Two things are left out of the
texts themselves: members that name no key in any letters' case, and an entry of a map that is null. A map is
named at most twice in one text.

`NearestWins` speaks of the service and of a Go process. It leaves out a service that meets a trusted machine file over
its bound: there CONTRACT.md:269 has `Read` answer `storage_unavailable` and the code answers from the files that are left,
which is the finding of `locations_silent`.

### HostLifecycle

`serve` goes through the accept loop and then through Serve's deferred calls, last one
first. `once` is how far the one `Close` inside the `sync.Once` has come, and `closer[a]`
what each goroutine that may call it is doing: Serve's deferred call, the `AfterFunc` of
the caller's context, the embedder's. `conn[c]` follows a connection through the listener
and its worker, whose deferred calls (hang up, give the token back, count out) are
steps of their own. What a worker answers is in the other modules; here it only takes
time. The 35 seconds of a request may pass at any moment and are no help to liveness:
what ends a worker is the host's context. The 64 sessions of the listener are the
library's and are left out.

### MachineWrite

One action per system call, since other processes run between any two: `Stat`, `MkdirAll`,
the ownership check, the write (directory again, lock file, rename), the second check,
and the removals. Who owns the directory and the file is the whole state of the disk;
`trusted` asks nothing else on Windows, and on Unix a file an administrator makes has the
mode it asks for. What an account may create, remove and rename over is the operating
system's: an owner and an administrator may, and anybody may create where the parent is
`open`, as `%ProgramData%` is. The lock file of `cas.Change` stays (`config_test.go:42`) and
keeps its directory from being removed, which the proof of `ReportedIsRead` rests on; who owns
it is not modelled, and `RefusedAlone` speaks of the directory and the file only, since a refused
write in an administrator's directory does leave the lock file.
The lock's mutual exclusion is not used: the writers interleave more than the code lets them.

## The runs

| run | question | bounds | distinct states |
| --- | --- | --- | --- |
| `observe` | no lost wakeup, fresh answers, foreign cursors refused, woken without the timer | 1 client, 2 overrides, absence and a content of each file, 2 changes, 1 slot, 2 processes, file source | 1.9 million |
| `observe_slots` | slots, Close against start, final failure, Close drains | 2 clients, 1 slot, no file changes, all three kinds of source | 454 thousand |
| `invalidation` | nothing forgotten, nothing sent late, delivered, Close returns, implements `ChangeSource` | 2 files, 2 contents and absence, 1 editing call, 2 changes | 239 thousand |
| `editor` | the register, retries, corrupt records, what a client is told, applied once, termination | 1 client with 1 edit again and again, 2 workers, 2 contents, 2 spellings, corrupt and missing, 2 attempts | 239 thousand |
| `service_calls` | nearest wins, both languages, and what a call returns is what was said to it | 2 keys (one text, one map), 2 values, a text for every combination of them and for every kind of text the parsers may differ on (`MCTexts`), every pair of files and overrides; 1 call, 1 alteration | 480 thousand |
| `notifiers` | nothing untold, nothing owned after the stop, the stops return, in three mechanisms | kqueue: 1 directory, 5 inodes; Windows: 2 directories; Python: 2 files that start absent, 2 changes, 3 systems | 561 thousand |
| `host` | tokens, who finds the host closed, shutdown order, Serve ends | 3 connections again and again, 2 tokens, 1 embedder | 24 thousand |
| `machine_write` | a reported write stays read, a lone refusal restores | 2 installers and a process of a person, again and again, 3 accounts, everything that may be there before | 113 thousand |
| `silent_failure`, `stopped_on_close`, `locations_silent`, `machine_leaves` | four statements of the documentation the code does not keep | as the passing runs | |

What each property says, by run:

- `observe`: a parked call is never out of date unnoticed (`NoLostWakeup`), no answer is older than its call or its
  timer (`AnswersAreFresh`), a cursor of another process or other overrides is refused (`ForeignCursorRefused`), and
  a change wakes a waiting call while its timer never fires (`WokenWithoutTimer`).
- `observe_slots`: `SlotsAccounted`, `ClosedLeavesNothing`, `FailureIsFinal`, `CloseDrains`.
- `invalidation`: `NoChangeForgotten`, `NoSendOnClosed`, `ChangeDelivered`, `CloseReturns`, and the refinement
  `ImplementsChangeSource`.
- `editor`: the refinement `ImplementsRegister` with `NoLostUpdate`, `CorruptIsKept` and `RetriesAreInterference`; what
  the client returns is what happened (`ToldTruth`), an edit asked for twice counts once (`AppliedOnce`), `EveryCallReturns`.
- `service_calls`: `NearestWins`, `LanguagesAgree`, `HeardIsSaid`, `OutcomeIsTold`, `AnsweredIfUnderstood`.
- `notifiers`: `KqueueLeavesNothingUntold`, `WindowsLeavesNothingUntold`, `PyLeavesNothingUnread`; `KqueueStoppedOwnsNothing`,
  `WindowsStoppedOwnsNothing`; `KqueueStopReturns`, `WindowsStopReturns`, `PyCloseReturns`.
- `host`: `TokensAccounted`, `CloseMeansClosed`, `StoppedMeansStopped`, `ServeLeavesNothing`, `StopEndsServe`.
- `machine_write`: `ReportedIsRead`, `RefusedAlone`.
- The four violations, in the order of the table: `BrokenSourceSurfaces`, `StoppedReportsFailure`, `IgnoredIsSaid`,
  `LeavesNothing`.

Why the bounds are enough. A lost wakeup needs one client and one change at the
wrong moment; the second change and the second process let a signal be spent on
the wrong one of two and a cursor outlive its process. The observers meet only at the slots,
the lock and the source's start, where two clients and one slot already compete
for each. `changes` and the other channels hold one signal, so two changes fill
every stage and a third would be coalesced like the second. Two attempts make a
retry and its exhaustion; the code's 32 only make it longer. The readers treat
keys one by one, so one key of each kind meets every case. A codec decides about one field at a
time, and one alteration in every place of every frame meets every decision. A rearming of kqueue meets
the inode it had, the one it opens and the one the name leads to next, for the directory and its file: five.
The goroutines of Windows meet only in the stop and in the channel, where two already compete.
Two workers let a retry overtake the attempt it follows; a second client would be one of the other
callers. Three connections over two
tokens have one that is turned away and one that takes a token given back. `machine_write` has no
counters: its calls repeat without bound. A write that ends in a directory another account has
made since takes a second administrator, who unmakes the first directory; a directory that two
refused writers leave (`machine_leaves`) takes two ordinary processes. The theorems are for any number. The proofs remove the bounds for
everything but liveness. The sources that are injected, that fail or that are none are in
`observe_slots`; `observe` has the file source, which may fall silent, and both changes.

The Python reader can miss a change only between two of its own stages, the load at the start among
them: one change before a stage and one during it.

`CHECK_DEADLOCK FALSE` stands where the system may stop: a closed host or
subscription whose writers have used up their changes, a host that has been served, a notifier that was stopped. The editor, the
service calls and the machine writers never stop and are checked for deadlock.

The four disagreements with the documentation are the findings of
`PROJECT.json`:

1. A Linux notifier whose read fails never tells the host; config.thrift promises
   `unavailable` for a notification failure. Waiting calls still end, by their
   timers.
2. An ordinary Close may be reported as a failed source through
   `OnObservationStopped`, which "reports a failed notification source".
3. The service passes over a trusted machine file beyond the bound without a word on stderr,
   which CFG-T2 rules out "for every reason", and without refusing the read, though CONTRACT.md:269 has `Read` answer
   `storage_unavailable` when "A trusted machine or user file could not be read".
4. Two refused writes of the machine file at once may leave the directory, owned by an
   ordinary account, though `asAdministrator` "leaves nothing behind when it refuses": whether
   to undo is decided by a look at the directory that precedes making it. `RefusedAlone` is
   what does hold.

Found while modelling, and left out of a property that names it:

- A text nested deeply enough makes Python's `json.loads` raise `RecursionError`, which `_read_into` does not
  catch. `legacy_load` raises it, though its docstring says "Never fails"; under `legacy_watch` the rereading
  thread dies, the answer held stays as it is, and a close whose end does not fit into the queue waits for good
  (`ReadIntoRaises`; `PyLeavesNothingUnread` and `PyCloseReturns` leave such a subscription out).
- On Windows, a thread that is between two reads when they are cancelled stays (`unreached`), and a change
  before a directory's first read is never reported (`missed`).
- A directory replaced while kqueue rearms it is not watched until another event (`astray`).
- Go and Python read different answers from a text with a name in other letters' case (which Go takes, although CFG-S1
  has an unnamed key ignored), a value of the wrong type (Go passes over the text, Python over the key and, within
  a map, over nothing), a map named twice, a null after a string, half a surrogate pair, bytes that are no UTF-8, a NaN,
  or nested so deeply that Python raises.

## Fairness

`Observation` and `Invalidation`: weak fairness of every goroutine's next step
(the Go scheduler runs what can run), of the library's settling timer and of the
receiver of a source; the dispatcher's two `select` branches get weak fairness
each: a branch that stays ready is eventually taken, because the goroutine
leaves on the other one. The contract of `ObservationSource` ("supply an idempotent stop
which joins its resources") gives fairness of `EndSource` while Close is
stopping it. Nobody is obliged to write, call, hang up, close, or let a timer fire:
`WokenWithoutTimer` would otherwise hold by the timer alone. Nor is a native failure
fair. `UserEditor`: each worker takes its next step; a store and a policy answer,
well or badly; strong fairness is not needed because the loop is bounded; a client is obliged to nothing. `KqueueNotifier`: the goroutine and the return of a stop that has begun. `WindowsNotifier`: each goroutine and each step of the stop; a completion is delivered. `PythonSubscription`: each thread, and the close once it has begun. `HostLifecycle`: Serve,
the goroutines inside `Close`, and a worker whose context is done; nobody has to dial,
send, answer or close. `MachineWrite` and `ConfigService` have no liveness property.

## What is proved

For every value of the constants that their assumptions allow: any number of
clients, workers, keys, contents, slots, attempts, changes, directories and processes. The
type invariants of `Invalidation`, `HostLifecycle`, `MachineWrite` and the notifiers are
theorems and not in the runs.

**Observer** (`ObservationProofs`, over `ObservationSafety`, no fairness). All
seven safety properties of runs `observe` and `observe_slots`. `FailureTold`, that a failure has woken every call
that captured a channel, is a conjunct of `FailureIsFinal` with an induction of its own. None of them is
inductive. The proof goes in three layers:

1. `TypeInv`: the type, with `slots` equal to the number of holders. A return
   takes a slot out of the count, and stays in type only if somebody holds one.
2. `Order`: how far the start, the dispatcher and Close have come. `initialized`
   without a dispatcher means that somebody is inside the start or that it failed;
   calls past the start imply a dispatcher; a host that is stopping has one. With
   the lock held from the look at the context to the publication of the stop
   function, `ClosedLeavesNothing` follows; it is what the comment in
   `startObservation` claims.
3. `Knows(o)`: what a call knows at each of its points. The part that carries
   `NoLostWakeup` is `ReadsCovered`: for each file the call has read since it captured
   the channel, the file is unchanged, or the channel is closed, or a signal that
   will close it is owed or in the dispatcher's hand, or the change was blind. The
   capture establishes it vacuously, *because it comes before the reads*; a change
   keeps it through `owed` and the broadcast through `stale`. Since an answer is a
   function of what was read, a parked call out of date has a changed file.

**Subscription** (`InvalidationProofs`). `NoChangeForgotten`, `NoSendOnClosed`, `ClosedMeansGone` and the
refinement `SubscriptionIsSource`. `NoChangeForgotten` is inductive together with `LifeCycle`, which
says who is there when: the reader before the subscription, the subscription listed until Close begins, its
channel closed by its goroutine alone and only after a cancellation. A signal that is coalesced is
dropped where another is already pending, and the stage it is pending in passes it on.
The refinement sorts the steps into three kinds: those that change a file (`WriteStep`), those that only move a
signal (`QuietStep`), and the few that change the phase; with `ObservationProofs` it makes the observer's
theorems theorems about the file source.

**Notifiers** (`NotifierProofs`). For kqueue no two paths hold one vnode (`Apart`), a
directory is refreshed before its file (`FilesLast`), and each watch is on what its name leads to, or has an event
waiting, or is still to be refreshed (`DirsHeld`, `FilesHeld`). For Windows, `ReadsOwned` says which read a directory can
have where its goroutine stands and `CompletionsExplained` why a read can have failed, so that a change
is in a read, in the buffer or being told, and a pending read has an owner.

For Python, `PyLeavesNothingUnread` speaks of the answer held, but what a step has to keep is what is known
of the load under way: `PyLoaded` says that what a load has read is what the file holds, or a report
of that file is behind it, in the kernel, in a thread's hand or in the queue. The first load and every later one keep it
alike, and it becomes the property when `push` or `post` puts the load into the subscription. During the first load the
report may wait in a queue nobody takes from yet, which is enough because the settling thread starts after the load and finds it there.
`PyHeard` says that whatever is reported on has a thread that will read the report, and `PyShape` who is there when,
up to a thread that a file has killed.

`NotifiersInvariance` puts the three together: no step of one touches the variables of another, so each
invariant is one of the whole, and with it `NotifiersTellAll` and `NotifiersOwnNothing`.

**Protocol and calls** (`ServiceProofs`). The three properties of a call, for any finite schema, any values,
any files and overrides. The argument follows the layers of the code from the inside out:

1. *Fields.* `RecordTaken` and `RecordDecides` say what the one walk over the fields does, whatever readers
   it has: it takes a record only if every field is known, comes once and is taken itself and none is missing, and otherwise
   it refuses with one of seven words (`RefusalWords`), each of which can be sent. `RoundTrip` is the unaltered case.
2. *Forms.* `Forms(d)` is everything one alteration can make of `d`, and `Reads(f, d, x)` says
   that the reader `f` takes none of it for another value than `x`. `RecordReads` carries `Reads` from the fields of a
   record to the record, so that one lemma for each record of the contract (`TextsRead`, `OriginsRead`, `SnapshotRead`,
   ... `ResultRead`, `ArgumentsRead`) follows the declaration. The exception is the optional snapshot:
   `ConfigObservationRead` concludes `OrWithout`, and only `ObserveContext`'s check makes it equality.
3. *Envelopes.* `RequestRead` and `ReplyRead`: an altered envelope that is accepted still carries
   one of the forms of its payload.
4. *Exchange.* `ServiceAnswers` says what `ServeEndpoint` makes of whatever a request arrives as and
   of any answer of the handler: nothing if
   the envelope cannot be read or the diagnostic has no spelling; otherwise a reply under the request's own service and
   method, with a result that decodes or an error with a code. A request whose label was altered may
   reach another handler with arguments that decode; the reply then names that method and the client refuses it.
5. *Calls.* `ServiceInv` ties a call to its frames: what is under way could be sent (`SentInv`), the handler was
   asked what the request that arrived asks, and the reply is what the service made of what it said (`ServedInv`). It is needed because
   the properties speak of the end of a call and the frames are gone by then. TLC has checked it over all
   states of run `service_calls`.

`AnsweredIfUnderstood` follows from `ServedInv`; `HeardIsSaid` and `OutcomeIsTold` are conjuncts of `ServiceInv`, established by
`Receive` alone. `ServiceLeavesFiles` is a refinement: a service with its calls implements the specification of its
files, so the theorems of `LocationsProofs` hold of what it reads (`ServiceReadsNearest`).

The constants are bound by three assumptions, which TLC evaluates in the run:

- `SchemaAssumption`: the schema is finite and has no key named `origins` or `stamp`; the generated
  `Snapshot` has these two next to its five keys, and Go does not compile a field twice.
- `InventedAssumption`: the field an alteration invents is in no schema. It would be no invention otherwise.
- `SpellingAssumption`: `BadText` stands for a string that is not UTF-8, so it is none of the literals of the protocol
  nor anything `encoding/json` gives, which replaces invalid bytes; no literal is empty; a cursor the observer
  makes is neither empty nor longer than a client may send; an absent snapshot is a nil pointer, so it is no snapshot; there is a key.

**Editor** (`UserEditorProofs`). Types, `NoLostUpdate`, `CorruptIsKept`,
`RetriesAreInterference` and the refinement `EditorIsRegister`: the initial states map
to initial states and every step to a step of `UserRegister` or a stutter, with the
write as the linearization point of an applied replacement and the read as that of a
conflict. The invariant that does the work is `BaseIsExpected`: at the conditional
write the base has the expected content, so equal bytes have it too.
`RetriesAreInterference` needs `AttemptsLeft`, because the history counter is capped at
the same bound as the attempts. With the clients before it, `ClientsDriveEditor` shows that every
step of `EditorClient` is one of `UserEditor` or none; `TellsTheTruth` and `EditsApplyOnce` follow from
`ClientInv`: a worker carries the edit of the client it serves, waited for or left behind, and where the edit
stands the record has its content, so a second write over the expected content would change nothing.

**Locations** (`LocationsProofs`). `NearestIsRead`: the merge, the trust fallback and the overrides
compute, for every key, the nearest location that sets it and its value; `GoReadersAgree` carries it to the service where the
bound does not matter, which gives `NearestWins`, and `NearerHides` follows from it.
`LanguagesAlwaysAgree` compares the two languages, parsers included: `ParsersAgree` says that each key of an unambiguous text
has one value in both (`LatestIsOne` that repeated names do), and `ReadIntoMerges` that Python's overlay in place is Go's merge.
Two assumptions bind the texts, and TLC evaluates them: what two maps are joined to is a map (`JoinedAssumption`), and the
texts of the files are texts (`TextsAssumption`).

**Host** (`HostProofs`). The five safety properties of run `host`. `CloseProgress` ties what
`Close` has done to how far its `Once` has come, so that whoever waited at the `Once` finds
everything done; `ConnProgress` says that at most one connection is between the listener
and its worker, that it is only while Serve decides about it, and that a drained host has
none. The counts are kept by `OneComes` and `OneGoes`.

**Machine writes** (`MachineWriteProofs`). `ReportedIsRead` needs `Undoing`: an administrator's
process reaches `os.Remove(path)` only in a directory that is somebody else's, and the lock file
keeps that directory as it is, so the file it removes is never one that was reported. `RefusedAlone`
needs `Knows`: what a call that nobody overlaps knows, at each of its steps, of what it found.

Only model-checked: liveness (`WokenWithoutTimer`, `CloseDrains`, `ChangeDelivered`,
`CloseReturns`, `EveryCallReturns`, `StopEndsServe`, `KqueueStopReturns`, `WindowsStopReturns`, `PyCloseReturns`),
which needs fairness and ENABLED, out of reach of the prover, and the four statements that the code does not keep. Every safety invariant,
action property and refinement that a passing run checks is a theorem.

## Assumptions about what is outside

- `cas.Store.Write` compares the bytes and replaces them in one step against every
  writer; `ListenWithStore` demands "atomic compare/set" of a store. A program that
  ignores the store's lock and writes inside that step is not modelled. A `Write` that returns an
  error has changed nothing (`WriteFails`); `ToldTruth` rests on it.
- `watch.Settle` delivers after the events it has taken have settled, prolongs on new
  ones and returns on cancellation, with or without a last signal.
- A read of one file sees one content. The two files are read apart.
- The frame transport delivers a frame whole or not at all; what is altered is altered by a program.
- `abstraction_watch.settle` ends on the end of its queue and calls its function otherwise.
- Windows buffers what happens between two reads of one handle; kqueue reports a vnode that is registered and
  forgets the events of one that is closed.
- Callbacks (`OnObservationStopped`) and the edit policy return.
- The inotify queue overflows into an event, which the reader treats like any other.

## What is not modelled, and why

- The codecs of other languages (`rec.h`, `_codec.py`, `rec.rs`, `internal.mjs`) and the
  thin C++ clients over them: the records of `Wire`, produced from `config.thrift` elsewhere.
- The spelling of a document in `rec.go`: escapes, whitespace, the nesting limit, the range of an
  integer. `WriteFrame`, which refuses every method, and `ServiceName`, which the service does not call.
- `notify_other.go`: refuses at once, as the source of `Observation` that cannot start.
- The corpus drivers: scripted test instruments without concurrency.
- `datadir.go`, `serve.go`: path computation and flags.
- How ownership is read from the system (`trust_*.go`): one bit per file in
  `Locations`, the owners in `MachineWrite`.
- Packaging, regression tooling, tests.

## Plan

Done: everything in the table of modules. Next, in this order:

1. An abstract notifier, of which `KqueueNotifier`, `WindowsNotifier` and the Linux stages of `Invalidation` are
   refinements: a change leads to a signal on one channel, and nothing is owned after the stop.
2. The configuration calls of a host (`EnableObservation`, `EnableEditPolicy`,
   `OmitMachineRung`) against Serve: nothing is configured while serving.
3. `KqueueNotifier` and `WindowsNotifier` under the subscription of `Invalidation` in place of
   its Linux stages, through that abstraction, so that `SubscriptionIsSource` holds on every platform.
4. The integer reader of the codec with its overflow and its nesting limit.
5. `ConfigDriver`: the Go and the Python corpus drivers over `Locations`.
