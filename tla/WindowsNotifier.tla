--------------------------- MODULE WindowsNotifier --------------------------
(***************************************************************************)
(* notifyDirs on Windows (go/notify_windows.go).  Each directory has a     *)
(* handle, a completion port, one overlapped read of its changes and a     *)
(* goroutine.  The system writes into the memory of a pending read, and    *)
(* buffers what changes between two reads of one handle.                   *)
(*                                                                         *)
(* What a goroutine or the stop does under a directory's mutex is one      *)
(* step: nothing else under it can come in between.                        *)
(***************************************************************************)
CONSTANTS
  Folders   \* the configuration directories

VARIABLES
  handle,    \* the folders with an open handle
  request,   \* each folder's read: none, pending, or how it completed
  buffered,  \* the folders with a change the system holds for the next read
  gone,      \* the folders that were removed
  shut,      \* directoryNotification.closed
  report,    \* each folder's goroutine
  next,      \* where the opening of the folders stands: those not tried yet
  up,        \* notifyDirs: not called, opening, returned, failed
  signal,    \* the notifier's channel holds a signal
  stop,      \* the function that stops: not called, cancelling, returned
  uncut,     \* the folders the stop has not cancelled yet
  unheard,   \* history: folders with a change since the last signal taken
  severed    \* history: folders whose completion port has failed

winVars == <<handle, request, buffered, gone, shut, report, next, up, signal,
             stop, uncut, unheard, severed>>

WindowsInit ==
  /\ handle = {}
  /\ request = [f \in Folders |-> "none"]
  /\ buffered = {} /\ gone = {} /\ shut = {}
  /\ report = [f \in Folders |-> "none"]
  /\ next = {} /\ up = "no"
  /\ signal = FALSE /\ stop = "no" /\ uncut = {}
  /\ unheard = {} /\ severed = {}

-----------------------------------------------------------------------------
(* The system.                                                             *)

\* A change is heard of by a read of the folder, now or at the next one.
FolderChanges(f) ==
  /\ f \notin gone
  /\ request' = [request EXCEPT ![f] = IF @ = "pending" THEN "changed" ELSE @]
  /\ buffered' = IF f \in handle /\ request[f] # "pending" THEN buffered \cup {f} ELSE buffered
  /\ unheard' = IF report[f] \in {"waiting", "woken", "telling"} /\ f \notin severed
                  THEN unheard \cup {f} ELSE unheard
  /\ UNCHANGED <<handle, gone, shut, report, next, up, signal, stop, uncut, severed>>

\* The folder is removed; its pending read fails, and every later one.
FolderGoes(f) ==
  /\ f \notin gone
  /\ gone' = gone \cup {f}
  /\ request' = [request EXCEPT ![f] = IF @ = "pending" THEN "failed" ELSE @]
  /\ UNCHANGED <<handle, buffered, shut, report, next, up, signal, stop, uncut,
                 unheard, severed>>

\* arm: a read is asked for; what was buffered completes it at once.  It may
\* be refused.
Arms(f) ==
  /\ f \notin gone
  /\ request' = [request EXCEPT ![f] = IF f \in buffered THEN "changed" ELSE "pending"]
  /\ buffered' = buffered \ {f}

ArmRefused == UNCHANGED <<request, buffered>>

-----------------------------------------------------------------------------
(* notifyDirs.                                                             *)

StartOpening ==
  /\ up = "no"
  /\ up' = "opening" /\ next' = Folders \ gone
  /\ UNCHANGED <<handle, request, buffered, gone, shut, report, signal, stop, uncut,
                 unheard, severed>>

\* A read is pending before the folder's goroutine starts, and before anyone
\* reads the configuration.
OpenFolder(f) ==
  /\ up = "opening" /\ f \in next
  /\ next' = next \ {f}
  /\ handle' = handle \cup {f}
  /\ Arms(f)
  /\ report' = [report EXCEPT ![f] = "waiting"]
  /\ UNCHANGED <<gone, shut, up, signal, stop, uncut, unheard, severed>>

\* No handle, no port or no read: what there was is closed again.
SkipFolder(f) ==
  /\ up = "opening" /\ f \in next
  /\ next' = next \ {f}
  /\ UNCHANGED <<handle, request, buffered, gone, shut, report, up, signal, stop,
                 uncut, unheard, severed>>

Opened ==
  /\ up = "opening" /\ next = {}
  /\ up' = IF handle = {} /\ \A f \in Folders : report[f] = "none" THEN "failed" ELSE "returned"
  /\ UNCHANGED <<handle, request, buffered, gone, shut, report, next, signal, stop,
                 uncut, unheard, severed>>

-----------------------------------------------------------------------------
(* report, one goroutine of each folder.                                   *)

\* GetQueuedCompletionStatus returns the completion of the read.
Dequeues(f) ==
  /\ report[f] = "waiting" /\ request[f] \notin {"none", "pending"}
  /\ request' = [request EXCEPT ![f] = "none"]
  /\ report' = [report EXCEPT ![f] = IF request[f] = "changed" THEN "woken" ELSE "told off"]
  /\ UNCHANGED <<handle, buffered, gone, shut, next, up, signal, stop, uncut, unheard,
                 severed>>

\* Under the mutex: a folder that is closed, or whose read has failed, is left.
Leaves(f) ==
  /\ \/ report[f] = "told off"
     \/ report[f] = "woken" /\ f \in shut
  /\ report' = [report EXCEPT ![f] = "leaving"]
  /\ UNCHANGED <<handle, request, buffered, gone, shut, next, up, signal, stop, uncut,
                 unheard, severed>>

\* A bug the run rules out: Close is noticed when the read has been asked for.
RearmsUnasked(f) ==
  /\ report[f] = "woken"
  /\ Arms(f)
  /\ report' = [report EXCEPT ![f] = "telling"]
  /\ UNCHANGED <<handle, gone, shut, next, up, signal, stop, uncut, unheard, severed>>

\* ... and any other read is asked for again, Close being kept out meanwhile.
Rearms(f) ==
  /\ report[f] = "woken" /\ f \notin shut
  /\ Arms(f)
  /\ report' = [report EXCEPT ![f] = "telling"]
  /\ UNCHANGED <<handle, gone, shut, next, up, signal, stop, uncut, unheard, severed>>

\* A bug the run rules out: nothing is told where no read could be asked for.
RearmFailsUntold(f) ==
  /\ report[f] = "woken" /\ f \notin shut
  /\ ArmRefused
  /\ report' = [report EXCEPT ![f] = "leaving"]
  /\ UNCHANGED <<handle, gone, shut, next, up, signal, stop, uncut, unheard, severed>>

RearmFails(f) ==
  /\ report[f] = "woken" /\ f \notin shut
  /\ ArmRefused
  /\ report' = [report EXCEPT ![f] = "telling last"]
  /\ UNCHANGED <<handle, gone, shut, next, up, signal, stop, uncut, unheard, severed>>

Tells(f) ==
  /\ report[f] \in {"telling", "telling last"}
  /\ signal' = TRUE
  /\ report' = [report EXCEPT ![f] = IF @ = "telling" THEN "waiting" ELSE "leaving"]
  /\ UNCHANGED <<handle, request, buffered, gone, shut, next, up, stop, uncut, unheard,
                 severed>>

\* The port itself fails, and no completion can arrive through it.
PortFails(f) ==
  /\ report[f] = "waiting"
  /\ severed' = severed \cup {f}
  /\ report' = [report EXCEPT ![f] = "leaving"]
  /\ UNCHANGED <<handle, request, buffered, gone, shut, next, up, signal, stop, uncut, unheard>>

\* The defers: handle and port are closed under the mutex, then done.
Goes(f) ==
  /\ report[f] = "leaving"
  /\ report' = [report EXCEPT ![f] = "gone"]
  /\ handle' = handle \ {f} /\ buffered' = buffered \ {f}
  /\ UNCHANGED <<request, gone, shut, next, up, signal, stop, uncut, unheard, severed>>

-----------------------------------------------------------------------------
(* The function that stops.                                                *)

StopBegins ==
  /\ up = "returned" /\ stop = "no"
  /\ stop' = "cancelling"
  /\ uncut' = {f \in Folders : report[f] # "none"}
  /\ UNCHANGED <<handle, request, buffered, gone, shut, report, next, up, signal, unheard,
                 severed>>

\* Under the mutex: closed, and a pending read is cancelled.
StopCuts(f) ==
  /\ f \in uncut
  /\ uncut' = uncut \ {f}
  /\ shut' = shut \cup {f}
  /\ request' = [request EXCEPT ![f] =
                   IF f \in handle /\ @ = "pending" THEN "aborted" ELSE @]
  /\ UNCHANGED <<handle, buffered, gone, report, next, up, signal, stop, unheard, severed>>

\* A bug the run rules out: the stop does not wait for the completions.
StopHurries ==
  /\ stop = "cancelling" /\ uncut = {}
  /\ stop' = "returned"
  /\ UNCHANGED <<handle, request, buffered, gone, shut, report, next, up, signal, uncut,
                 unheard, severed>>

\* It waits for every goroutine.
StopDone ==
  /\ stop = "cancelling" /\ uncut = {}
  /\ \A f \in Folders : report[f] \in {"none", "gone"}
  /\ stop' = "returned"
  /\ UNCHANGED <<handle, request, buffered, gone, shut, report, next, up, signal, uncut,
                 unheard, severed>>

TakeSignal ==
  /\ signal
  /\ signal' = FALSE /\ unheard' = {}
  /\ UNCHANGED <<handle, request, buffered, gone, shut, report, next, up, stop, uncut, severed>>

-----------------------------------------------------------------------------
ReportStep(f) ==
  Dequeues(f) \/ Leaves(f) \/ Rearms(f) \/ RearmFails(f) \/ Tells(f) \/ Goes(f)

StopStep == (\E f \in Folders : StopCuts(f)) \/ StopDone

WindowsNext ==
  \/ StartOpening \/ Opened \/ StopBegins \/ StopStep \/ TakeSignal
  \/ \E f \in Folders :
       \/ FolderChanges(f) \/ FolderGoes(f) \/ OpenFolder(f) \/ SkipFolder(f)
       \/ ReportStep(f) \/ PortFails(f)

\* The goroutines and the stop run, and what completes is delivered.
WindowsFairness ==
  WF_winVars(StopStep) /\ \A f \in Folders : WF_winVars(ReportStep(f))

WindowsSpec == WindowsInit /\ [][WindowsNext]_winVars /\ WindowsFairness

-----------------------------------------------------------------------------
WindowsTypeOK ==
  /\ handle \subseteq Folders /\ buffered \subseteq Folders /\ gone \subseteq Folders
  /\ request \in [Folders -> {"none", "pending", "changed", "failed", "aborted"}]
  /\ shut \subseteq Folders /\ next \subseteq Folders /\ uncut \subseteq Folders
  /\ report \in [Folders -> {"none", "waiting", "woken", "told off", "telling",
                             "telling last", "leaving", "gone"}]
  /\ up \in {"no", "opening", "returned", "failed"}
  /\ signal \in BOOLEAN
  /\ stop \in {"no", "cancelling", "returned"}
  /\ unheard \subseteq Folders /\ severed \subseteq Folders

\* Until the stop is called a change in a folder whose goroutine was listening
\* has been told, or a completion, a buffer or the goroutine still holds it: the
\* interval between a completion and the next read loses nothing, a read that
\* cannot be asked for again included.
WindowsLeavesNothingUntold ==
  \A f \in unheard \ severed :
    \/ signal \/ stop # "no"
    \/ request[f] = "changed" /\ report[f] # "gone"
    \/ report[f] \in {"woken", "telling", "telling last"}

\* "A handle and its OVERLAPPED storage remain owned until completion drains":
\* where the goroutine is gone no read is pending in its memory, and where the
\* stop has returned every goroutine is gone.  A failed port, through which
\* nothing can drain, is the exception.
WindowsStoppedOwnsNothing ==
  /\ \A f \in Folders \ severed : report[f] \in {"none", "gone"} => request[f] # "pending"
  /\ stop = "returned" => handle = {}

\* A stop that has begun returns.
WindowsStopReturns == stop = "cancelling" ~> stop = "returned"
=============================================================================
