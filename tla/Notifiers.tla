------------------------------ MODULE Notifiers -----------------------------
(***************************************************************************)
(* The mechanisms that a platform or a language has to itself: the Go       *)
(* notifiers of the BSDs and of Windows (go/notify_bsd.go,                 *)
(* go/notify_windows.go) and the Python subscription, each against the      *)
(* files it watches: a process holds one of them.                          *)
(***************************************************************************)
EXTENDS KqueueNotifier, WindowsNotifier, PythonSubscription

VARIABLE platform  \* which of them the process holds

notifierVars == <<kqueueVars, winVars, pyVars, platform>>

\* Bound: the files that Python reads are written after the start.
Init ==
  /\ KqueueInit /\ turn = CHOOSE p \in Paths : p.kind = "dir"
  /\ WindowsInit
  /\ PyInit /\ content = Nothing
  /\ platform \in {"bsd", "windows", "python"}
  /\ platform # "python" => folders = {} /\ system = "linux"

OnBSD     == platform = "bsd" /\ KqueueNext /\ UNCHANGED <<winVars, pyVars, platform>>
OnWindows == platform = "windows" /\ WindowsNext /\ UNCHANGED <<kqueueVars, pyVars, platform>>
InPython  == platform = "python" /\ PyNext /\ UNCHANGED <<kqueueVars, winVars, platform>>

Spec ==
  /\ Init /\ [][OnBSD \/ OnWindows \/ InPython]_notifierVars
  /\ KqueueFairness /\ WindowsFairness /\ PyFairness
=============================================================================
