----------------------------- MODULE Observation -----------------------------
(***************************************************************************)
(* The long-poll observer of the config service (go/service/observer.go):  *)
(* the start of the notification source, the goroutine that turns its      *)
(* signals into a closed channel, concurrent Observe calls with their      *)
(* cursors, timers and waiter slots, Host.Close (go/service/service.go)    *)
(* against all of them, and the restart of the service process.            *)
(*                                                                         *)
(* The notification source is any that keeps the contract of ChangeSource, *)
(* as module Invalidation does; the dispatcher is the goroutine started by *)
(* startObservation, its receiver.                                         *)
(***************************************************************************)
EXTENDS ChangeSource, FiniteSets

CONSTANTS
  Observers,       \* clients, each with at most one Observe call at a time
  Prepare,         \* the runtime, calling PrepareObservation
  NoOne,           \* nobody holds observation.mu across steps
  Overrides,       \* the run overrides a call may carry
  Answer(_, _, _), \* the snapshot read from machine file, user file, overrides
  NoCursor,        \* the empty cursor
  BadCursor,       \* a cursor of the wrong form
  Sources,         \* which notification sources a host may have
  MaxSlots,        \* capacity of observation.slots (32 in the code)
  MaxInstances     \* bound on the service processes that run in turn

ASSUME ObserversAssumption ==
  /\ IsFiniteSet(Observers)
  /\ Prepare \notin Observers
  /\ NoOne \notin Observers \cup {Prepare}
ASSUME SourcesAssumption == Sources \subseteq {"nil", "file", "injected"}
ASSUME MaxSlotsAssumption == MaxSlots \in Nat \ {0}
ASSUME MaxInstancesAssumption == MaxInstances \in Nat \ {0}
ASSUME OverridesAssumption == Overrides # {}

VARIABLES
  dispatcher,   \* the goroutine that receives from the source
  source,       \* observation.source: none, the file source, an injected one
  host,         \* how far Host.Close has gone
  starter,      \* who is inside startObservation with observation.mu held
  initialized,  \* observation.initialized
  failed,       \* observation.failed
  epoch,        \* the service process; observation.epoch names it at random
  pc,           \* where each call stands
  cursor,       \* the cursor each client holds, and its call carries
  over,         \* the overrides of each call
  expired,      \* the call's timer has fired, or wait_ms is 0
  slots,        \* tokens in observation.slots
  held,         \* the call holds a slot
  stale,        \* the channel the call captured has been closed since
  seen,         \* what the call read of each file, last time it read it
  outcome,      \* how the client's last call ended
  touched       \* history: rungs changed since the call began or its timer fired

hostVars == <<dispatcher, source, host, starter, initialized, failed, epoch>>
callVars == <<pc, cursor, over, expired, held, slots, stale, seen, outcome, touched>>
vars     == <<sourceVars, hostVars, callVars>>

Answers == {Answer(m, u, v) : m \in Contents, u \in Contents, v \in Overrides}
Cursors == [epoch : 1 .. MaxInstances, over : Overrides, answer : Answers]

ASSUME CursorsAssumption ==
  NoCursor # BadCursor /\ NoCursor \notin Cursors /\ BadCursor \notin Cursors

Steps    == {"idle", "start", "cursor", "loop", "readUser", "readMachine",
             "decide", "parked"}
Captured == {"readUser", "readMachine", "decide", "parked"}
Outcomes == {"none", "snapshot", "unchanged", "gap", "unavailable",
             "unsupported", "invalid", "error"}

ObservationTypeOK ==
  /\ SourceTypeOK
  /\ dispatcher \in {"none", "waiting", "ringing", "failing", "reporting", "done"}
  /\ source \in Sources
  /\ host \in {"open", "cancelled", "stopping", "closed"}
  /\ starter \in Observers \cup {Prepare, NoOne}
  /\ initialized \in BOOLEAN
  /\ failed \in BOOLEAN
  /\ epoch \in 1 .. MaxInstances
  /\ pc \in [Observers -> Steps]
  /\ cursor \in [Observers -> Cursors \cup {NoCursor, BadCursor}]
  /\ over \in [Observers -> Overrides]
  /\ expired \in [Observers -> BOOLEAN]
  /\ slots \in 0 .. MaxSlots
  /\ held \in [Observers -> BOOLEAN]
  /\ stale \in [Observers -> BOOLEAN]
  /\ seen \in [Observers -> [Rungs -> Contents]]
  /\ outcome \in [Observers -> Outcomes]
  /\ touched \in [Observers -> SUBSET Rungs]

\* What the variables of a client say between two of its calls.
Unread      == [r \in Rungs |-> Absent]
NoOverrides == CHOOSE v \in Overrides : TRUE

ObservationInit ==
  /\ SourceInit
  /\ dispatcher = "none"
  /\ source \in Sources
  /\ host = "open"
  /\ starter = NoOne
  /\ initialized = FALSE
  /\ failed = FALSE
  /\ epoch = 1
  /\ pc = [o \in Observers |-> "idle"]
  /\ cursor = [o \in Observers |-> NoCursor]
  /\ over = [o \in Observers |-> NoOverrides]
  /\ expired = [o \in Observers |-> FALSE]
  /\ slots = 0
  /\ held = [o \in Observers |-> FALSE]
  /\ stale = [o \in Observers |-> FALSE]
  /\ seen = [o \in Observers |-> Unread]
  /\ outcome = [o \in Observers |-> "none"]
  /\ touched = [o \in Observers |-> {}]

-----------------------------------------------------------------------------
(* The ends of an Observe call.                                            *)

\* The call moves on; what it does besides is said beside it.
Proceed(o, from, to) == pc[o] = from /\ pc' = [pc EXCEPT ![o] = to]

\* A bug the runs rule out: the deferred function never gives a slot back.
ReturnKeepsSlot(o, out) ==
  /\ pc' = [pc EXCEPT ![o] = "idle"]
  /\ outcome' = [outcome EXCEPT ![o] = out]
  /\ held' = [held EXCEPT ![o] = FALSE]
  /\ stale' = [stale EXCEPT ![o] = FALSE]
  /\ UNCHANGED <<slots, expired, over, seen, touched>>

\* The call returns `out`; its deferred function gives back a slot it holds.
Return(o, out) ==
  /\ pc' = [pc EXCEPT ![o] = "idle"]
  /\ outcome' = [outcome EXCEPT ![o] = out]
  /\ slots' = IF held[o] THEN slots - 1 ELSE slots
  /\ held' = [held EXCEPT ![o] = FALSE]
  /\ stale' = [stale EXCEPT ![o] = FALSE]
  /\ expired' = [expired EXCEPT ![o] = FALSE]
  /\ over' = [over EXCEPT ![o] = NoOverrides]
  /\ seen' = [seen EXCEPT ![o] = Unread]
  /\ touched' = [touched EXCEPT ![o] = {}]

\* A refusal preserves the cursor the client supplied.
Refuse(o, out) == Return(o, out) /\ UNCHANGED cursor

-----------------------------------------------------------------------------
(* Observe up to its loop, startObservation included.                      *)

\* A client calls with its last cursor, with none, or with a broken one, and
\* with wait_ms zero or positive.  The listener admits it until Close.
Call(o) ==
  /\ host = "open"
  /\ Proceed(o, "idle", "start")
  /\ \E c \in {cursor[o], NoCursor, BadCursor} : cursor' = [cursor EXCEPT ![o] = c]
  /\ \E v \in Overrides : over' = [over EXCEPT ![o] = v]
  /\ \E zero \in BOOLEAN : expired' = [expired EXCEPT ![o] = zero]
  /\ outcome' = [outcome EXCEPT ![o] = "none"]
  /\ UNCHANGED <<sourceVars, hostVars, held, slots, stale, seen, touched>>

\* The caller is not the owner, or a bound of the request is exceeded.
CallRefused(o) ==
  /\ pc[o] = "start" /\ starter # o
  /\ \E out \in {"error", "invalid"} : Refuse(o, out)
  /\ UNCHANGED <<sourceVars, hostVars>>

\* observation.mu is free, so a critical section of one step may run.
Unlocked == starter = NoOne

\* Nothing to start: no source, the host is closing, or it was done before.
StartReturns(o) ==
  /\ pc[o] = "start" /\ Unlocked
  /\ \/ source = "nil" /\ Refuse(o, "unsupported")
     \/ source # "nil" /\ (host # "open" \/ failed) /\ Refuse(o, "unavailable")
     \/ /\ source # "nil" /\ host = "open" /\ initialized /\ ~failed
        /\ Proceed(o, "start", "cursor")
        /\ UNCHANGED <<cursor, over, expired, held, slots, stale, seen, outcome, touched>>
  /\ UNCHANGED <<sourceVars, hostVars>>

\* A bug the runs rule out: the start does not look whether Close has begun.
StartBeginsLate(p) ==
  /\ p \in Observers => pc[p] = "start"
  /\ Unlocked /\ source # "nil" /\ ~initialized
  /\ starter' = p
  /\ initialized' = TRUE
  /\ UNCHANGED <<sourceVars, dispatcher, source, host, failed, epoch, callVars>>

\* The first caller, an Observe call or PrepareObservation, takes the lock and
\* calls the source, which takes its steps while the lock is held.
StartBegins(p) ==
  /\ p \in Observers => pc[p] = "start"
  /\ Unlocked /\ source # "nil" /\ host = "open" /\ ~initialized
  /\ starter' = p
  /\ initialized' = TRUE
  /\ UNCHANGED <<sourceVars, dispatcher, source, host, failed, epoch, callVars>>

StartSource ==
  /\ ~Unlocked /\ dispatcher = "none" /\ SourceStarts
  /\ UNCHANGED <<hostVars, callVars>>

\* The source refuses: no directory can be watched.  It is not asked again.
StartFails ==
  /\ ~Unlocked /\ phase = "none"
  /\ starter' = NoOne
  /\ failed' = TRUE
  /\ IF starter = Prepare THEN UNCHANGED callVars ELSE Refuse(starter, "unavailable")
  /\ UNCHANGED <<sourceVars, dispatcher, source, host, initialized, epoch>>

\* The stop function is published and the dispatcher starts.
StartPublishes ==
  /\ ~Unlocked /\ phase # "none"
  /\ dispatcher' = "waiting"
  /\ starter' = NoOne
  /\ pc' = IF starter = Prepare THEN pc ELSE [pc EXCEPT ![starter] = "cursor"]
  /\ UNCHANGED <<sourceVars, source, host, initialized, failed, epoch, cursor, over, expired,
                 held, slots, stale, seen, outcome, touched>>

\* A bug the runs rule out: the cursor of an earlier process is taken.
CheckCursorOfAnyEpoch(o) ==
  /\ pc[o] = "cursor"
  /\ \/ cursor[o] = BadCursor /\ Refuse(o, "invalid")
     \/ cursor[o] \in Cursors /\ cursor[o].over # over[o] /\ Refuse(o, "gap")
     \/ /\ cursor[o] # BadCursor
        /\ cursor[o] \in Cursors => cursor[o].over = over[o]
        /\ Proceed(o, "cursor", "loop")
        /\ UNCHANGED <<cursor, over, expired, held, slots, stale, seen, outcome, touched>>
  /\ UNCHANGED <<sourceVars, hostVars>>

\* The cursor must be of this process and of these overrides.
CheckCursor(o) ==
  /\ pc[o] = "cursor"
  /\ \/ cursor[o] = BadCursor /\ Refuse(o, "invalid")
     \/ /\ cursor[o] \in Cursors
        /\ cursor[o].epoch # epoch \/ cursor[o].over # over[o]
        /\ Refuse(o, "gap")
     \/ /\ \/ cursor[o] = NoCursor
           \/ /\ cursor[o] \in Cursors
              /\ cursor[o].epoch = epoch /\ cursor[o].over = over[o]
        /\ Proceed(o, "cursor", "loop")
        /\ UNCHANGED <<cursor, over, expired, held, slots, stale, seen, outcome, touched>>
  /\ UNCHANGED <<sourceVars, hostVars>>

-----------------------------------------------------------------------------
(* The loop of Observe.                                                    *)

\* A bug the runs rule out: the failure is not captured with the channel.
CaptureUnaware(o) ==
  /\ pc[o] = "loop" /\ Unlocked /\ host = "open"
  /\ Proceed(o, "loop", "readUser")
  /\ stale' = [stale EXCEPT ![o] = FALSE]
  /\ UNCHANGED <<sourceVars, hostVars, cursor, over, expired, held, slots, seen,
                 outcome, touched>>

\* While the wait context lives, the channel and the failure are captured
\* together, before the files are read.
Capture(o) ==
  /\ pc[o] = "loop" /\ Unlocked /\ host = "open"
  /\ \/ failed /\ Refuse(o, "unavailable")
     \/ /\ ~failed
        /\ Proceed(o, "loop", "readUser")
        /\ stale' = [stale EXCEPT ![o] = FALSE]
        /\ UNCHANGED <<cursor, over, expired, held, slots, seen, outcome, touched>>
  /\ UNCHANGED <<sourceVars, hostVars>>

\* LoadWithSources reads the user's store first, then the machine file.
ReadFile(o, r, from, to) ==
  /\ Proceed(o, from, to)
  /\ seen' = [seen EXCEPT ![o][r] = files[r]]
  /\ UNCHANGED <<sourceVars, hostVars, cursor, over, expired, held, slots,
                 stale, outcome, touched>>

ReadUserFile(o)    == ReadFile(o, User, "readUser", "readMachine")
ReadMachineFile(o) == ReadFile(o, Machine, "readMachine", "decide")

\* The storage fails, or the caller is no longer the owner when it is asked
\* before and after the read.
ReadFails(o) ==
  /\ pc[o] \in {"readUser", "decide"}
  /\ Refuse(o, "error")
  /\ UNCHANGED <<sourceVars, hostVars>>

\* The cursor of the answer just read.
NextCursor(o) ==
  [epoch |-> epoch, over |-> over[o],
   answer |-> Answer(seen[o][Machine], seen[o][User], over[o])]

ReplySnapshot(o) ==
  /\ NextCursor(o) # cursor[o]
  /\ cursor' = [cursor EXCEPT ![o] = NextCursor(o)]
  /\ Return(o, "snapshot")

ReplyUnchanged(o) ==
  /\ NextCursor(o) = cursor[o] /\ expired[o]
  /\ Refuse(o, "unchanged")

\* A call that would wait for the first time needs a slot.
NoSlotLeft(o) ==
  /\ NextCursor(o) = cursor[o] /\ ~expired[o] /\ ~held[o] /\ slots = MaxSlots
  /\ Refuse(o, "unavailable")

\* A bug the runs rule out: the channel is captured when the call parks.
ParkRecaptures(o) ==
  /\ NextCursor(o) = cursor[o] /\ ~expired[o]
  /\ held[o] \/ slots < MaxSlots
  /\ held' = [held EXCEPT ![o] = TRUE]
  /\ slots' = IF held[o] THEN slots ELSE slots + 1
  /\ stale' = [stale EXCEPT ![o] = FALSE]
  /\ Proceed(o, "decide", "parked")
  /\ UNCHANGED <<cursor, over, expired, seen, outcome, touched>>

Park(o) ==
  /\ NextCursor(o) = cursor[o] /\ ~expired[o]
  /\ held[o] \/ slots < MaxSlots
  /\ held' = [held EXCEPT ![o] = TRUE]
  /\ slots' = IF held[o] THEN slots ELSE slots + 1
  /\ Proceed(o, "decide", "parked")
  /\ UNCHANGED <<cursor, over, expired, stale, seen, outcome, touched>>

Decide(o) ==
  /\ pc[o] = "decide"
  /\ ReplySnapshot(o) \/ ReplyUnchanged(o) \/ NoSlotLeft(o) \/ Park(o)
  /\ UNCHANGED <<sourceVars, hostVars>>

\* The captured channel is closed.
Wake(o) ==
  /\ stale[o]
  /\ Proceed(o, "parked", "loop")
  /\ UNCHANGED <<sourceVars, hostVars, cursor, over, expired, held, slots,
                 stale, seen, outcome, touched>>

\* A bug the runs rule out: the timer answers with what was read before it.
ExpireAnswers(o) ==
  /\ Proceed(o, "parked", "decide")
  /\ expired' = [expired EXCEPT ![o] = TRUE]
  /\ touched' = [touched EXCEPT ![o] = {}]
  /\ UNCHANGED <<sourceVars, hostVars, cursor, over, held, slots, stale,
                 seen, outcome>>

\* The timer fires: one more turn of the loop, which will not wait again.
Expire(o) ==
  /\ Proceed(o, "parked", "loop")
  /\ expired' = [expired EXCEPT ![o] = TRUE]
  /\ touched' = [touched EXCEPT ![o] = {}]
  /\ UNCHANGED <<sourceVars, hostVars, cursor, over, held, slots, stale,
                 seen, outcome>>

\* A bug the runs rule out: a parked call does not listen to its context.
AbortOutsideWait(o) ==
  /\ pc[o] = "loop"
  /\ Refuse(o, "error")
  /\ UNCHANGED <<sourceVars, hostVars>>

\* The wait context ends: with the host, or because the client went away.
Abort(o) ==
  /\ pc[o] \in {"loop", "parked"}
  /\ Refuse(o, "error")
  /\ UNCHANGED <<sourceVars, hostVars>>

AbortOnClose(o) == host # "open" /\ Abort(o)
Disconnect(o)   == host = "open" /\ Abort(o)

-----------------------------------------------------------------------------
(* The dispatcher goroutine.                                               *)

DispatchStep(from, to) ==
  /\ dispatcher = from
  /\ dispatcher' = to
  /\ UNCHANGED <<source, host, starter, initialized, epoch>>

\* A bug the runs rule out: a broadcast that only sleeping calls hear.
CloseChangedForSleepers ==
  /\ stale' = [o \in Observers |-> pc[o] = "parked"]
  /\ UNCHANGED <<pc, cursor, over, expired, held, slots, seen, outcome, touched>>

\* The changed channel is closed under every call that captured it.
CloseChanged ==
  /\ stale' = [o \in Observers |-> pc[o] \in Captured]
  /\ UNCHANGED <<pc, cursor, over, expired, held, slots, seen, outcome, touched>>

DispatchReceives ==
  /\ DispatchStep("waiting", "ringing") /\ SignalTaken
  /\ UNCHANGED <<failed, callVars>>

DispatchFindsClosed ==
  /\ DispatchStep("waiting", "failing")
  /\ phase = "ended" /\ ~owed
  /\ UNCHANGED <<sourceVars, failed, callVars>>

DispatchRings ==
  /\ Unlocked /\ DispatchStep("ringing", "waiting")
  /\ CloseChanged
  /\ UNCHANGED <<sourceVars, failed>>

\* A closed source has failed.
DispatchFails ==
  /\ Unlocked /\ DispatchStep("failing", "reporting")
  /\ CloseChanged
  /\ failed' = TRUE
  /\ UNCHANGED sourceVars

\* OnObservationStopped returns.
DispatchReported ==
  /\ DispatchStep("reporting", "done")
  /\ UNCHANGED <<sourceVars, failed, callVars>>

\* select may take the end of the host's context whenever it waits.
DispatchStops ==
  /\ host # "open" /\ DispatchStep("waiting", "done")
  /\ UNCHANGED <<sourceVars, failed, callVars>>

-----------------------------------------------------------------------------
(* Host.Close, and the end of a process.                                   *)

HostStep(from, to) ==
  /\ host = from
  /\ host' = to
  /\ UNCHANGED <<sourceVars, dispatcher, source, starter, initialized, failed,
                 epoch, callVars>>

HostCancels == HostStep("open", "cancelled")

\* stopObservation takes the published stop, if there is one, under the lock,
HostStops ==
  /\ Unlocked
  /\ \/ dispatcher = "none" /\ HostStep("cancelled", "closed")
     \/ dispatcher # "none" /\ HostStep("cancelled", "stopping")

\* calls it, and waits for the dispatcher after it.
HostJoins ==
  /\ phase = "ended" /\ dispatcher = "done"
  /\ HostStep("stopping", "closed")

\* The source ends because it is stopped, or reports its own failure.
EndSource ==
  /\ host = "stopping" \/ source = "injected"
  /\ dispatcher # "none" /\ SourceEnds
  /\ UNCHANGED <<hostVars, callVars>>

\* The process ends, at whatever point, and another one starts on the same
\* disk; its clients keep their cursors.
Restart ==
  /\ epoch < MaxInstances
  /\ epoch' = epoch + 1
  /\ phase' = "none" /\ owed' = FALSE /\ blind' = {}
  /\ dispatcher' = "none" /\ host' = "open" /\ starter' = NoOne
  /\ initialized' = FALSE /\ failed' = FALSE
  /\ slots' = 0
  /\ pc' = [o \in Observers |-> "idle"]
  /\ over' = [o \in Observers |-> NoOverrides]
  /\ expired' = [o \in Observers |-> FALSE]
  /\ held' = [o \in Observers |-> FALSE]
  /\ stale' = [o \in Observers |-> FALSE]
  /\ seen' = [o \in Observers |-> Unread]
  /\ touched' = [o \in Observers |-> {}]
  /\ outcome' = [o \in Observers |-> "error"]
  /\ UNCHANGED <<files, writes, source, cursor>>

-----------------------------------------------------------------------------
\* What happens to the files and in the source, whoever observes.
Environment ==
  /\ SourceWrite \/ SpuriousSignal \/ GoesSilent \/ SilentDrift
  /\ touched' = [o \in Observers |->
       IF pc[o] = "idle" THEN {}
       ELSE touched[o] \cup {r \in Rungs : files'[r] # files[r]}]
  /\ UNCHANGED <<hostVars, pc, cursor, over, expired, held, slots, stale, seen, outcome>>

CallStep(o) ==
  \/ StartReturns(o) \/ CheckCursor(o) \/ Capture(o)
  \/ ReadUserFile(o) \/ ReadMachineFile(o) \/ Decide(o)
  \/ Wake(o) \/ AbortOnClose(o)

StartStep == StartSource \/ StartFails \/ StartPublishes

DispatcherStep ==
  \/ DispatchReceives \/ DispatchFindsClosed \/ DispatchRings \/ DispatchFails
  \/ DispatchReported \/ DispatchStops

ObservationNext ==
  \/ Environment
  \/ \E o \in Observers : \/ Call(o) \/ CallRefused(o) \/ CallStep(o)
                          \/ ReadFails(o) \/ Expire(o) \/ Disconnect(o)
  \/ \E p \in Observers \cup {Prepare} : StartBegins(p)
  \/ StartStep \/ DispatcherStep
  \/ HostCancels \/ HostStops \/ HostJoins \/ EndSource \/ Restart

ObservationSafety == ObservationInit /\ [][ObservationNext]_vars

\* Every goroutine that can move does, and the source delivers what it owes
\* and ends when it is stopped.  Nobody is obliged to write, to call, to hang
\* up, to close or to let a timer fire.
ObservationFairness ==
  /\ WF_vars(StartStep)
  /\ WF_vars(DispatchReceives \/ DispatchFindsClosed)
  /\ WF_vars(DispatchRings \/ DispatchFails \/ DispatchReported)
  /\ WF_vars(DispatchStops)
  /\ WF_vars(HostStops \/ HostJoins)
  /\ WF_vars(host = "stopping" /\ EndSource)
  /\ \A o \in Observers : WF_vars(CallStep(o) \/ StartBegins(o))

ObservationSpec == ObservationSafety /\ ObservationFairness

-----------------------------------------------------------------------------
(* Properties.                                                             *)

\* What Read would answer now.
Current(v) == Answer(files[Machine], files[User], v)

\* The source, its pipeline and the dispatcher are all up.
Serving == phase = "up" /\ dispatcher \in {"waiting", "ringing"} /\ host = "open"

\* No wakeup is lost.  A parked call whose answer is out of date has a closed
\* channel to wake on, or a signal is still on its way to close it, unless
\* the change is one that no mechanism looks at.  This is what the capture of
\* the channel before the read is for (observer.go, the loop of Observe).
NoLostWakeup ==
  \A o \in Observers :
    /\ pc[o] = "parked" /\ Serving
    /\ Current(over[o]) # cursor[o].answer
    => stale[o] \/ owed \/ dispatcher = "ringing" \/ blind # {}

\* The slots in use are those of the calls that hold one: no return, error or
\* restart leaks a slot, and no call waits without one.
SlotsAccounted ==
  /\ slots = Cardinality({o \in Observers : held[o]})
  /\ \A o \in Observers : pc[o] = "parked" => held[o]

\* What a call is about to answer was read since it began and, after a wait
\* that expired, since the expiry: a file that differs from what the call read
\* was changed after that.
AnswersAreFresh ==
  \A o \in Observers : pc[o] = "decide" =>
    \A r \in Rungs : seen[o][r] = files[r] \/ r \in touched[o]

\* After Close has returned nothing of the source is left, and nothing will be
\* started: a start under way when Close ran was waited for and undone.
ClosedLeavesNothing ==
  host = "closed" =>
    /\ dispatcher \in {"none", "done"}
    /\ phase \in {"none", "ended"}
    /\ Unlocked

\* A client never takes the values of one service process, or of other
\* overrides, for a continuation of what it holds: a call with such a cursor
\* ends without a snapshot and without `unchanged`.
ForeignCursorRefused ==
  [][\A o \in Observers :
       /\ cursor[o] \in Cursors /\ pc[o] # "idle"
       /\ outcome'[o] \in {"snapshot", "unchanged"}
       => cursor[o].epoch = epoch /\ cursor[o].over = over[o]]_vars

\* Observation that has failed in a process does not come back; a call that has
\* not yet begun its round ends without reading a file, and the failure wakes
\* every call that has begun one, wherever in it the call stands.
FailureIsFinal ==
  [][/\ failed /\ epoch' = epoch =>
          /\ failed'
          /\ \A o \in Observers :
               pc[o] \in {"start", "loop"} => pc'[o] \in {pc[o], "idle"}
     /\ failed' => \A o \in Observers : pc'[o] \in Captured => stale'[o]]_vars

\* A parked call whose answer is no longer the current one, in a host that is
\* being notified.
OutOfDate(o) ==
  /\ pc[o] = "parked" /\ Serving
  /\ Current(over[o]) # cursor[o].answer
  /\ blind = {}

\* Every call that parked on an answer which then went out of date leaves that
\* wait although its timer never fires and its client never hangs up.
WokenWithoutTimer ==
  \A o \in Observers : OutOfDate(o) ~> ~OutOfDate(o)

\* Close ends every call and returns.
CloseDrains ==
  host = "cancelled" ~>
    \/ host = "open"
    \/ host = "closed" /\ \A o \in Observers : pc[o] = "idle"

\* config.thrift says of Observe that "provider notification failure gives
\* unavailable": a source whose mechanism broke is eventually marked failed.
BrokenSourceSurfaces ==
  (phase = "silent" /\ host = "open") ~> (failed \/ host # "open")

\* Host.OnObservationStopped "reports a failed notification source".  The file
\* source closes its channel only when it is stopped, so it is never reported.
StoppedReportsFailure == dispatcher = "reporting" => source = "injected"
=============================================================================
