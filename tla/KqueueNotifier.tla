--------------------------- MODULE KqueueNotifier ---------------------------
(***************************************************************************)
(* notifyDirs on the BSDs and macOS (go/notify_bsd.go).  kqueue watches    *)
(* what a name led to when it was opened, never the name: a directory      *)
(* reports the names that come and go in it, a file the bytes written into *)
(* it, and a save that renames a new file into place leaves the watch on   *)
(* the old one until the goroutine opens the name again.                   *)
(*                                                                         *)
(* Every system call of the goroutine is a step, and the files change      *)
(* between any two of them.  Each directory holds one configuration file.  *)
(***************************************************************************)
CONSTANTS
  Dirs,     \* the configuration directories
  Inodes,   \* what a name may lead to; a number is used again once it is free
  None

ASSUME NoneAssumption == None \notin Inodes

DirPath(d)  == [kind |-> "dir", dir |-> d]
FilePath(d) == [kind |-> "file", dir |-> d]
Paths       == [kind : {"dir", "file"}, dir : Dirs]

VARIABLES
  at,        \* what each path leads to
  opened,    \* the vnode of each path that is held open and registered
  queue,     \* the vnodes with an event in the kqueue
  paths,     \* the paths the notifier keeps watched
  stage,     \* how far notifyDirs and its goroutine are
  step,      \* where add, refresh and the goroutine's loop stand
  turn,      \* the path add is at
  fd,        \* the vnode add has opened and not yet registered
  todo,      \* the paths still to be added or refreshed
  refused,   \* the paths whose last refresh failed
  events,    \* the notifier's channel holds a signal
  wake,      \* the writing end of the pipe is closed
  stopping,  \* the function that stops: not called, waiting, returned
  untold,    \* history: directories with a change since the last signal taken
  astray     \* history: directories replaced while add was at them

watches    == <<opened, queue, paths, refused>>
goroutine  == <<stage, step, turn, fd, todo>>
channels   == <<events, wake, stopping>>
kqueueVars == <<at, watches, goroutine, channels, untold, astray>>

KqueueInit ==
  /\ at = [p \in Paths |-> None]
  /\ opened = [p \in Paths |-> None]
  /\ queue = {} /\ paths = {}
  /\ stage = "none" /\ step = "choose"
  /\ turn \in Paths /\ fd = None
  /\ todo = {} /\ refused = {}
  /\ events = FALSE /\ wake = FALSE /\ stopping = "no"
  /\ untold = {} /\ astray = {}

-----------------------------------------------------------------------------
(* The files.                                                              *)

Free == Inodes \ ({at[p] : p \in Paths} \cup {opened[p] : p \in Paths} \cup {fd})

\* What happens to a registered vnode is an event, whatever its name is now.
Event(vnodes) ==
  queue' = queue \cup ((vnodes \cap {opened[p] : p \in Paths}) \ {None})

\* The notifier answers for a directory whose watch it has, or is renewing; it
\* says on stderr what it cannot open, and a directory that is gone, or that
\* was replaced while add was at it, has no event that would bring it back.
Sighted(d) ==
  /\ stage = "serving" /\ DirPath(d) \in paths
  /\ DirPath(d) \notin refused /\ FilePath(d) \notin refused
  /\ opened[DirPath(d)] # None \/ step # "wait"
  /\ d \notin astray

Change(d) == untold' = IF Sighted(d) THEN untold \cup {d} ELSE untold

\* A rename into place, Save and Edit included; a new file.
SaveFile(d) ==
  /\ at[DirPath(d)] # None
  /\ \E n \in Free : at' = [at EXCEPT ![FilePath(d)] = n]
  /\ Event({at[DirPath(d)], at[FilePath(d)]})
  /\ Change(d)
  /\ UNCHANGED <<opened, paths, refused, goroutine, channels, astray>>

WriteFile(d) ==
  /\ at[FilePath(d)] # None
  /\ Event({at[FilePath(d)]})
  /\ Change(d)
  /\ UNCHANGED <<at, opened, paths, refused, goroutine, channels, astray>>

RemoveFile(d) ==
  /\ at[FilePath(d)] # None
  /\ at' = [at EXCEPT ![FilePath(d)] = None]
  /\ Event({at[DirPath(d)], at[FilePath(d)]})
  /\ Change(d)
  /\ UNCHANGED <<opened, paths, refused, goroutine, channels, astray>>

\* The directory goes, with its file, or another takes its place.
MoveDir(d) ==
  /\ \E n \in Free \cup {None} : \E m \in IF n = None THEN {None} ELSE (Free \ {n}) \cup {None} :
       at' = [at EXCEPT ![DirPath(d)] = n, ![FilePath(d)] = m]
  /\ at' # at
  /\ Event({at[DirPath(d)]})
  /\ Change(d)
  /\ astray' = IF turn = DirPath(d) /\ step \in {"open", "register"} THEN astray \cup {d} ELSE astray
  /\ UNCHANGED <<opened, paths, refused, goroutine, channels>>

-----------------------------------------------------------------------------
(* add and refresh, before notifyDirs returns and in the goroutine.         *)

\* The directories that are there are added.
StartAdding ==
  /\ stage = "none"
  /\ stage' = "adding"
  /\ todo' = {DirPath(d) : d \in {e \in Dirs : at[DirPath(e)] # None}}
  /\ UNCHANGED <<at, watches, step, turn, fd, channels, untold, astray>>

\* Path p has its turn: directories come before files.
Takes(p) ==
  /\ step = "choose" /\ p \in todo
  /\ p.kind = "file" => \A q \in todo : q.kind = "file"
  /\ turn' = p /\ todo' = todo \ {p}
  /\ UNCHANGED <<at, paths, stage, fd, channels, untold, astray>>

AddBegins(p) ==
  /\ stage = "adding" /\ Takes(p)
  /\ step' = "open"
  /\ UNCHANGED <<opened, queue, refused>>

Refreshing == stage \in {"first", "serving"}

\* os.Stat fails, and not because the path is gone: its watch is left alone.
LookFails(p) ==
  /\ Refreshing /\ Takes(p)
  /\ refused' = refused \cup {p}
  /\ UNCHANGED <<step, opened, queue>>

\* os.SameFile: the watch is on what the path leads to.
LookFindsSame(p) ==
  /\ Refreshing /\ Takes(p) /\ at[p] = opened[p] /\ opened[p] # None
  /\ refused' = refused \ {p}
  /\ UNCHANGED <<step, opened, queue>>

\* Closing a vnode takes its events out of the kqueue.
LookFindsOther(p) ==
  /\ Refreshing /\ Takes(p)
  /\ at[p] # opened[p] \/ at[p] = None
  /\ opened' = [opened EXCEPT ![p] = None]
  /\ queue' = queue \ {opened[p]}
  /\ refused' = refused \ {p}
  /\ step' = IF at[p] = None THEN "choose" ELSE "open"

Opens ==
  /\ step = "open" /\ at[turn] # None
  /\ fd' = at[turn] /\ step' = "register"
  /\ UNCHANGED <<at, watches, stage, turn, todo, channels, untold, astray>>

\* The path is gone before it is opened, which is no failure of a refresh.
OpenFindsNothing ==
  /\ step = "open" /\ at[turn] = None
  /\ step' = "choose"
  /\ UNCHANGED <<at, watches, stage, turn, fd, todo, channels, untold, astray>>

\* Another error of open, fstat or kevent.  A directory that cannot be added
\* is skipped, a refresh says so.
AddFails ==
  /\ step \in {"open", "register"}
  /\ fd' = None /\ step' = "choose"
  /\ refused' = IF stage = "adding" THEN refused ELSE refused \cup {turn}
  /\ UNCHANGED <<at, opened, queue, paths, stage, turn, todo, channels, untold, astray>>

Registers ==
  /\ step = "register"
  /\ opened' = [opened EXCEPT ![turn] = fd]
  /\ fd' = None /\ step' = "choose"
  /\ paths' = IF stage = "adding" THEN paths \cup {turn} ELSE paths
  /\ UNCHANGED <<at, queue, refused, stage, turn, todo, channels, untold, astray>>

\* cleanup
Cleanup ==
  /\ opened' = [p \in Paths |-> None]
  /\ queue' = {} /\ fd' = None

\* With a directory added, the files of those added are watched too.
Added ==
  /\ stage = "adding" /\ step = "choose" /\ todo = {} /\ paths # {}
  /\ stage' = "first"
  /\ paths' = {p \in Paths : DirPath(p.dir) \in paths}
  /\ todo' = paths'
  /\ UNCHANGED <<at, opened, queue, refused, step, turn, fd, channels, untold, astray>>

\* No directory, a failed refresh, or a pipe that cannot be registered.
StartFails ==
  /\ step = "choose" /\ todo = {}
  /\ \/ stage = "adding" /\ paths = {}
     \/ stage = "first"
  /\ stage' = "failed" /\ Cleanup
  /\ UNCHANGED <<at, paths, refused, step, turn, todo, channels, untold, astray>>

\* The goroutine starts and notifyDirs returns.
StartServing ==
  /\ stage = "first" /\ step = "choose" /\ todo = {} /\ refused = {}
  /\ stage' = "serving" /\ step' = "wait"
  /\ UNCHANGED <<at, watches, turn, fd, todo, channels, untold, astray>>

-----------------------------------------------------------------------------
(* The goroutine's loop and the function that stops it.                    *)

\* A bug the run rules out: the notice is passed on and nothing is rearmed.
HearsOnly ==
  /\ stage = "serving" /\ step = "wait" /\ ~wake /\ queue # {}
  /\ queue' = {} /\ step' = "choose"
  /\ UNCHANGED <<at, opened, paths, refused, stage, turn, fd, todo, channels, untold, astray>>

\* Kevent returns what there is (EV_CLEAR); the watches are refreshed ...
Hears ==
  /\ stage = "serving" /\ step = "wait" /\ ~wake /\ queue # {}
  /\ queue' = {} /\ step' = "choose" /\ todo' = paths
  /\ astray' = {}
  /\ UNCHANGED <<at, opened, paths, refused, stage, turn, fd, channels, untold>>

\* ... before the receiver is told.
Announces ==
  /\ stage = "serving" /\ step = "choose" /\ todo = {}
  /\ events' = TRUE /\ step' = "wait"
  /\ UNCHANGED <<at, watches, stage, turn, fd, todo, wake, stopping, untold, astray>>

\* The goroutine's defers: the pipe, the watches, done.
Ends ==
  /\ stage = "serving" /\ step = "wait"
  /\ stage' = "ended" /\ wake' = TRUE /\ Cleanup
  /\ UNCHANGED <<at, paths, refused, step, turn, todo, events, stopping, untold, astray>>

EndsOnWake  == wake /\ Ends
KeventFails == ~wake /\ Ends

\* A bug the run rules out: the pipe is left open, and no event wakes the loop.
StopAsksQuietly ==
  /\ stage \in {"serving", "ended"} /\ stopping = "no"
  /\ stopping' = "asked"
  /\ UNCHANGED <<at, watches, goroutine, events, wake, untold, astray>>

StopAsks ==
  /\ stage \in {"serving", "ended"} /\ stopping = "no"
  /\ stopping' = "asked" /\ wake' = TRUE
  /\ UNCHANGED <<at, watches, goroutine, events, untold, astray>>

\* A bug the run rules out: the stop does not wait for the goroutine.
StopLeaves ==
  /\ stopping = "asked"
  /\ stopping' = "returned"
  /\ UNCHANGED <<at, watches, goroutine, events, wake, untold, astray>>

StopReturns ==
  /\ stopping = "asked" /\ stage = "ended"
  /\ stopping' = "returned"
  /\ UNCHANGED <<at, watches, goroutine, events, wake, untold, astray>>

\* The receiver takes a signal, and will read what changed before.
TakeEvent ==
  /\ events
  /\ events' = FALSE /\ untold' = {}
  /\ UNCHANGED <<at, watches, goroutine, wake, stopping, astray>>

-----------------------------------------------------------------------------
Disk == \E d \in Dirs : SaveFile(d) \/ WriteFile(d) \/ RemoveFile(d) \/ MoveDir(d)

Refresh ==
  \/ \E p \in Paths :
       AddBegins(p) \/ LookFails(p) \/ LookFindsSame(p) \/ LookFindsOther(p)
  \/ Opens \/ OpenFindsNothing \/ AddFails \/ Registers

Loop == Refresh \/ Added \/ StartFails \/ StartServing \/ Hears \/ Announces \/ EndsOnWake

KqueueNext ==
  Disk \/ StartAdding \/ Loop \/ KeventFails \/ StopAsks \/ StopReturns \/ TakeEvent

\* The caller and the goroutine run; system calls return.
KqueueFairness == WF_kqueueVars(Loop) /\ WF_kqueueVars(StopReturns)

KqueueSpec == KqueueInit /\ [][KqueueNext]_kqueueVars /\ KqueueFairness

-----------------------------------------------------------------------------
KqueueTypeOK ==
  /\ at \in [Paths -> Inodes \cup {None}]
  /\ opened \in [Paths -> Inodes \cup {None}]
  /\ queue \subseteq Inodes
  /\ paths \subseteq Paths /\ todo \subseteq Paths /\ refused \subseteq Paths
  /\ stage \in {"none", "adding", "first", "serving", "ended", "failed"}
  /\ step \in {"choose", "open", "register", "wait"}
  /\ turn \in Paths
  /\ fd \in Inodes \cup {None}
  /\ events \in BOOLEAN /\ wake \in BOOLEAN
  /\ stopping \in {"no", "asked", "returned"}
  /\ untold \subseteq Dirs /\ astray \subseteq Dirs

\* A change that was made since the receiver last took a signal is announced,
\* or something is on its way that will announce it: whatever is renamed into
\* place, and whenever, between any two system calls of the goroutine, no
\* directory falls silent with a watch on a file that is no longer the
\* configuration ("Rearm replacement inodes before announcing the edit: a
\* subsequent save must not be lost").
KqueueLeavesNothingUntold ==
  stage = "serving" /\ untold # {} => queue # {} \/ step # "wait" \/ events

\* No vnode stays open once the goroutine is gone or the start has failed, and
\* the stop returns only then.
KqueueStoppedOwnsNothing ==
  /\ stopping = "returned" => stage = "ended"
  /\ stage \in {"ended", "failed"} => fd = None /\ \A p \in Paths : opened[p] = None

\* A stop that has begun returns, whatever happens to the files.
KqueueStopReturns == stopping = "asked" ~> stopping = "returned"
=============================================================================
