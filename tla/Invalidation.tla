---------------------------- MODULE Invalidation ----------------------------
(***************************************************************************)
(* How a change to a configuration file becomes a signal: one              *)
(* InvalidationSubscription (go/watch.go) over the Linux notifier          *)
(* (go/notify_linux.go), the writers of the two files, and the receiver of *)
(* the signals.                                                            *)
(*                                                                         *)
(* A change travels   kernel -> events -> settling -> changes -> receiver  *)
(* and every stage coalesces: a stage holds at most one pending signal.    *)
(* An edit made by this process takes a second route: the edit announces   *)
(* itself to the subscription after its write.                             *)
(*                                                                         *)
(* It implements ChangeSource, which is all that Observation relies on.    *)
(***************************************************************************)
EXTENDS Naturals

CONSTANTS
  Contents,    \* what a file may hold, its absence and its ownership included
  Absent,      \* no file
  Editors,     \* calls of this process that write the user file
  MaxWrites    \* bound on the changes made to the files

ASSUME ContentsAssumption == Absent \in Contents
ASSUME MaxWritesAssumption == MaxWrites \in Nat

Machine == "machine"
User    == "user"
Rungs   == {Machine, User}

VARIABLES
  files,       \* the content of each rung's file
  dirs,        \* the rungs whose directory exists
  open,        \* the rungs whose file a foreign writer holds open, written to
  writes,      \* how many changes were made
  watched,     \* the rungs whose directory the kernel watches
  reader,      \* the goroutine that reads the kernel's queue
  kernel,      \* the kernel's queue holds an event
  events,      \* the notifier's channel holds a signal
  teller,      \* the subscription's goroutine, which runs watch.Settle
  changes,     \* how many signals the subscription's channel holds
  closed,      \* the subscription is closed and so is its channel
  live,        \* the subscription is in live.invalidations
  announcing,  \* where each edit of this process stands
  closing,     \* how far the subscription's Close has gone
  unseen,      \* history: rungs changed since the last receive
  blind        \* history: rungs changed where no mechanism looks

disk       == <<files, dirs, open, writes>>
pipeline   == <<reader, kernel, events, teller, changes>>
membership == <<closed, live, closing>>
history    == <<unseen, blind>>

invalidationVars ==
  <<disk, watched, pipeline, membership, announcing, history>>

InvalidationTypeOK ==
  /\ files \in [Rungs -> Contents]
  /\ dirs \subseteq Rungs
  /\ open \subseteq Rungs
  /\ writes \in 0 .. MaxWrites
  /\ watched \subseteq Rungs
  /\ reader \in {"none", "reading", "stopped"}
  /\ kernel \in BOOLEAN
  /\ events \in BOOLEAN
  /\ teller \in {"none", "waiting", "settling", "done"}
  /\ changes \in 0 .. 1
  /\ closed \in BOOLEAN
  /\ live \in BOOLEAN
  /\ announcing \in [Editors -> {"idle", "wrote", "signalling"}]
  /\ closing \in {"no", "unlisted", "cancelled", "stopped", "closed"}
  /\ unseen \subseteq Rungs
  /\ blind \subseteq Rungs

InvalidationInit ==
  /\ dirs \in SUBSET Rungs
  /\ files \in {f \in [Rungs -> Contents] : \A r \in Rungs \ dirs : f[r] = Absent}
  /\ open = {}
  /\ writes = 0
  /\ watched = {}
  /\ reader = "none"
  /\ kernel = FALSE
  /\ events = FALSE
  /\ teller = "none"
  /\ changes = 0
  /\ closed = FALSE
  /\ live = FALSE
  /\ announcing = [e \in Editors |-> "idle"]
  /\ closing = "no"
  /\ unseen = {}
  /\ blind = {}

-----------------------------------------------------------------------------
(* The files.  The events are those of the inotify mask: close after a     *)
(* write, a rename onto the name, a creation, a deletion.                  *)

\* The content of a rung changes; `seenBy` says whether some mechanism looks.
Change(r, c, seenBy) ==
  /\ writes < MaxWrites
  /\ c # files[r]
  /\ files' = [files EXCEPT ![r] = c]
  /\ writes' = writes + 1
  /\ unseen' = IF seenBy THEN unseen \cup {r} ELSE unseen
  /\ blind' = IF seenBy THEN blind ELSE blind \cup {r}

\* The kernel queues an event for a watched directory.
Event(r) == kernel' = (kernel \/ r \in watched)

\* A bug the run rules out: the mask lacks IN_MOVED_TO.
ForeignReplaceUnheard(r, c) ==
  /\ Change(r, c, r \in watched)
  /\ dirs' = dirs \cup {r}
  /\ UNCHANGED <<open, watched, pipeline, membership, announcing>>

\* Another process replaces the file by a rename, or removes it.
ForeignReplace(r, c) ==
  /\ Change(r, c, r \in watched)
  /\ dirs' = dirs \cup {r}
  /\ Event(r)
  /\ UNCHANGED <<open, watched, reader, events, teller, changes, membership,
                 announcing>>

\* Another process writes in place: a new file has an event when it is created,
\* but the bytes are there before the event of their closing.
ForeignWriteInPlace(r, c) ==
  /\ c # Absent
  /\ Change(r, c, r \in watched)
  /\ dirs' = dirs \cup {r}
  /\ open' = open \cup {r}
  /\ IF files[r] = Absent THEN Event(r) ELSE UNCHANGED kernel
  /\ UNCHANGED <<watched, reader, events, teller, changes, membership, announcing>>

ForeignCloseFile(r) ==
  /\ r \in open
  /\ open' = open \ {r}
  /\ Event(r)
  /\ UNCHANGED <<files, dirs, writes, watched, reader, events, teller, changes,
                 membership, announcing, history>>

\* The machine file changes owner: its answer changes and the mask of the
\* watch does not cover attributes.
ForeignChown(c) ==
  /\ files[Machine] # Absent /\ c # Absent
  /\ Change(Machine, c, FALSE)
  /\ UNCHANGED <<dirs, open, watched, pipeline, membership, announcing>>

\* An empty directory is removed, and its watch with it.
ForeignRemoveDir(r) ==
  /\ r \in dirs /\ files[r] = Absent
  /\ dirs' = dirs \ {r}
  /\ watched' = watched \ {r}
  /\ Event(r)
  /\ UNCHANGED <<files, open, writes, reader, events, teller, changes,
                 membership, announcing, history>>

\* A bug the run rules out: the edit does not announce itself.
EditWriteUntold(e, c) ==
  /\ announcing[e] = "idle"
  /\ c # Absent
  /\ Change(User, c, TRUE)
  /\ dirs' = dirs \cup {User}
  /\ Event(User)
  /\ UNCHANGED <<open, watched, reader, events, teller, changes, membership,
                 announcing>>

\* ReplaceUserStore, Save and Edit write by an atomic rename...
EditWrite(e, c) ==
  /\ announcing[e] = "idle"
  /\ c # Absent
  /\ Change(User, c, TRUE)
  /\ dirs' = dirs \cup {User}
  /\ Event(User)
  /\ announcing' = [announcing EXCEPT ![e] = "wrote"]
  /\ UNCHANGED <<open, watched, reader, events, teller, changes, membership>>

\* ... and then announce: first the subscriptions are copied under live.mu,
AnnounceCopies(e) ==
  /\ announcing[e] = "wrote"
  /\ announcing' = [announcing EXCEPT ![e] = IF live THEN "signalling" ELSE "idle"]
  /\ UNCHANGED <<disk, watched, pipeline, membership, history>>

\* A bug the run rules out: the channel is sent to without a look at `closed`.
SignalUnguarded == changes' = 1

\* InvalidationSubscription.signal: nothing once closed, and never blocks.
Signal == changes' = IF closed THEN changes ELSE 1

\* then each of them is signalled, without live.mu.
AnnounceSignals(e) ==
  /\ announcing[e] = "signalling"
  /\ announcing' = [announcing EXCEPT ![e] = "idle"]
  /\ Signal
  /\ UNCHANGED <<disk, watched, reader, kernel, events, teller, membership,
                 history>>

-----------------------------------------------------------------------------
(* WatchInvalidations.                                                     *)

\* notifyDirs(watchable()): every directory that exists is tried, a failing
\* one is skipped, and at least one must be watched.
WatchDirectories ==
  /\ reader = "none"
  /\ \E W \in SUBSET dirs :
       /\ W # {}
       /\ watched' = W
  /\ reader' = "reading"
  /\ UNCHANGED <<disk, kernel, events, teller, changes, membership, announcing,
                 history>>

\* The subscription joins live.invalidations and its goroutine starts.
\* The history starts here: nobody has read a value to be told about.
Register ==
  /\ reader # "none" /\ teller = "none"
  /\ live' = TRUE
  /\ teller' = "waiting"
  /\ unseen' = {}
  /\ blind' = {}
  /\ UNCHANGED <<disk, watched, reader, kernel, events, changes, closed, closing,
                 announcing>>

\* A bug the run rules out: the reader drains the queue and tells nobody.
ReaderSwallows ==
  /\ reader = "reading" /\ kernel
  /\ kernel' = FALSE
  /\ UNCHANGED <<disk, watched, reader, events, teller, changes, membership,
                 announcing, history>>

\* The reader moves an event of the kernel to the channel, or coalesces it.
ReaderReads ==
  /\ reader = "reading" /\ kernel
  /\ kernel' = FALSE
  /\ events' = TRUE
  /\ UNCHANGED <<disk, watched, reader, teller, changes, membership, announcing,
                 history>>

\* A read that fails ends the reader; the channel stays open.  After Close
\* every read fails; NativeFails is a failure of the mechanism itself.
ReaderStops ==
  /\ reader = "reading"
  /\ reader' = "stopped"
  /\ UNCHANGED <<disk, watched, kernel, events, teller, changes, membership,
                 announcing, history>>

ReaderStopsOnClose == closing \in {"stopped", "closed"} /\ ReaderStops
NativeFails        == closing \notin {"stopped", "closed"} /\ ReaderStops

\* watch.Settle takes a signal and waits for the directory to be still; a
\* signal that arrives meanwhile only prolongs the wait.
SettleHears ==
  /\ teller \in {"waiting", "settling"} /\ events
  /\ events' = FALSE
  /\ teller' = "settling"
  /\ UNCHANGED <<disk, watched, reader, kernel, changes, membership, announcing,
                 history>>

SettleSignals ==
  /\ teller = "settling"
  /\ teller' = "waiting"
  /\ Signal
  /\ UNCHANGED <<disk, watched, reader, kernel, events, membership, announcing,
                 history>>

\* watch.Settle returns once its context is cancelled, and the goroutine's
\* defers close the channel under the subscription's mutex.
TellerCloses ==
  /\ teller' = "done"
  /\ closed' = TRUE
  /\ UNCHANGED <<disk, watched, reader, kernel, events, changes, live, closing,
                 announcing, history>>

\* A bug the run rules out: the end of the context is noticed only when a
\* signal arrives.
TellerStopsOnSignal ==
  /\ teller = "settling"
  /\ closing \in {"cancelled", "stopped"}
  /\ TellerCloses

TellerStops ==
  /\ teller \in {"waiting", "settling"}
  /\ closing \in {"cancelled", "stopped"}
  /\ TellerCloses

-----------------------------------------------------------------------------
(* InvalidationSubscription.Close, statement by statement.                 *)

CloseStep(from, to) ==
  /\ closing = from
  /\ closing' = to
  /\ UNCHANGED <<disk, watched, pipeline, closed, announcing, history>>

CloseUnlists == teller # "none" /\ CloseStep("no", "unlisted") /\ live' = FALSE
CloseCancels == CloseStep("unlisted", "cancelled") /\ UNCHANGED live
CloseStops   == CloseStep("cancelled", "stopped") /\ UNCHANGED live

CloseJoins == teller = "done" /\ CloseStep("stopped", "closed") /\ UNCHANGED live

-----------------------------------------------------------------------------
(* The receiver of Changes().                                              *)

\* A signal is received: what changed before it will now be reread.
Receive ==
  /\ changes = 1
  /\ changes' = 0
  /\ unseen' = {}
  /\ UNCHANGED <<disk, watched, reader, kernel, events, teller, membership,
                 announcing, blind>>

-----------------------------------------------------------------------------
ForeignStep ==
  \/ \E r \in Rungs : \/ ForeignCloseFile(r)
                      \/ ForeignRemoveDir(r)
                      \/ \E c \in Contents : \/ ForeignReplace(r, c)
                                             \/ ForeignWriteInPlace(r, c)
  \/ \E c \in Contents : ForeignChown(c)

EditStep ==
  \E e \in Editors : \/ AnnounceCopies(e)
                     \/ AnnounceSignals(e)
                     \/ \E c \in Contents : EditWrite(e, c)

PipelineStep ==
  \/ ReaderReads \/ ReaderStopsOnClose \/ NativeFails
  \/ SettleHears \/ SettleSignals \/ TellerStops

CloseSubscription == CloseUnlists \/ CloseCancels \/ CloseStops \/ CloseJoins

InvalidationNext ==
  \/ ForeignStep \/ EditStep \/ PipelineStep
  \/ WatchDirectories \/ Register \/ CloseSubscription
  \/ Receive

\* The goroutines run; nobody is obliged to write, to subscribe or to close.
InvalidationFairness ==
  /\ WF_invalidationVars(ReaderReads)
  /\ WF_invalidationVars(SettleHears)
  /\ WF_invalidationVars(SettleSignals)
  /\ WF_invalidationVars(TellerStops)
  /\ WF_invalidationVars(CloseCancels \/ CloseStops \/ CloseJoins)
  /\ WF_invalidationVars(Receive)
  /\ \A e \in Editors : WF_invalidationVars(AnnounceCopies(e) \/ AnnounceSignals(e))

InvalidationSpec ==
  InvalidationInit /\ [][InvalidationNext]_invalidationVars /\ InvalidationFairness

-----------------------------------------------------------------------------
(* Properties.                                                             *)

\* Every stage of the pipeline is up.
Delivering ==
  /\ reader = "reading"
  /\ teller \in {"waiting", "settling"}
  /\ live
  /\ closing = "no"

\* Some stage holds a signal that has not been received.
Pending ==
  \/ open \cap watched # {}
  \/ kernel
  \/ events
  \/ teller = "settling"
  \/ changes = 1
  \/ \E e \in Editors : announcing[e] # "idle"

\* A change a mechanism covers is never dropped on the way: however the
\* stages coalesce, while nothing was received since the change some stage
\* still holds a signal (watch.go: "Signals coalesce; they cover
\* existing native watcher locations and in-process edits").
NoChangeForgotten == Delivering /\ unseen # {} => Pending

\* Once the channel is closed nobody sends on it, whatever announcement was
\* on its way when Close ran: a send would panic the service.
NoSendOnClosed == [][closed => changes' <= changes]_invalidationVars

\* Close returns only when the subscription's goroutine is gone and announce
\* can no longer find the subscription.
ClosedMeansGone == closing = "closed" => teller = "done" /\ closed /\ ~live

\* A covered change reaches the receiver without any other change happening.
ChangeDelivered ==
  (unseen # {} /\ open = {}) ~> (unseen = {} \/ open # {} \/ ~Delivering)

\* A Close that has begun returns.
CloseReturns == closing # "no" ~> closing = "closed"

\* The source as its receiver sees it: while it is up every pending signal
\* counts; once it is closed only the one left in the channel does.
Phase ==
  CASE teller = "none" -> "none"
    [] teller = "done" -> "ended"
    [] teller \in {"waiting", "settling"} ->
         IF reader = "reading" /\ closing = "no" THEN "up" ELSE "silent"

Owed ==
  CASE Phase = "none"           -> FALSE
    [] Phase = "ended"          -> changes = 1
    [] Phase \in {"up", "silent"} -> Pending

Source == INSTANCE ChangeSource WITH phase <- Phase, owed <- Owed

\* The subscription keeps the contract of a notification source: a covered
\* change is owed a signal until one is received, and a closed channel neither
\* reopens nor gains a signal.
ImplementsChangeSource == Source!SourceSpec
=============================================================================
