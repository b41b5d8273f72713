---------------------------- MODULE HostLifecycle ----------------------------
(***************************************************************************)
(* The life of a config service host (go/service/service.go): the accept   *)
(* loop of Serve, the tokens that bound its calls, the workers, and Close, *)
(* which the deferred call of Serve, the AfterFunc on Serve's context and  *)
(* the embedding program may run at the same time.                         *)
(*                                                                         *)
(* What a worker does with its request is in modules Observation and       *)
(* UserEditor; here it is how long it takes and what ends it.              *)
(***************************************************************************)
EXTENDS Naturals, FiniteSets

CONSTANTS
  Connections,   \* clients that dial, each again and again
  Embedders,     \* goroutines of the embedding program that call Close
  Server,        \* the goroutine that runs Serve
  After,         \* the goroutine of context.AfterFunc
  MaxCalls       \* capacity of Host.calls (64 in the code)

ASSUME ConnectionsAssumption == IsFiniteSet(Connections)
ASSUME ClosersAssumption ==
  Server # After /\ Server \notin Embedders /\ After \notin Embedders
ASSUME MaxCallsAssumption == MaxCalls \in Nat \ {0}

Closers == Embedders \cup {Server, After}

VARIABLES
  serve,      \* where Serve stands
  caller,     \* Serve's own context is done
  cancelled,  \* Host.ctx is done
  listening,  \* the listener is open
  observing,  \* the observation source may still run
  once,       \* how far the one Close that does the work has gone
  closer,     \* what each goroutine that may call Close does about it
  conn,       \* each connection, and the worker that serves it
  calls,      \* tokens in Host.calls
  workers     \* the count of the WaitGroup

hostVars == <<serve, caller, cancelled, listening, observing, once, closer>>
callVars == <<conn, calls, workers>>
vars     == <<hostVars, callVars>>

\* A worker holds its token until it has closed its connection, and is counted
\* until it has given the token back.
Holding == {"receive", "handle", "hangup", "release"}
Counted == Holding \cup {"leave"}

TypeOK ==
  /\ serve \in {"none", "accept", "admit", "close", "notify", "drain", "unhook",
                "returned"}
  /\ caller \in BOOLEAN
  /\ cancelled \in BOOLEAN
  /\ listening \in BOOLEAN
  /\ observing \in BOOLEAN
  /\ once \in {"new", "taken", "cancelled", "unlistened", "done"}
  /\ closer \in [Closers -> {"idle", "closing", "returned"}]
  /\ conn \in [Connections -> {"away", "queued", "accepted"} \cup Counted]
  /\ calls \in 0 .. MaxCalls
  /\ workers \in 0 .. Cardinality(Connections)

Init ==
  /\ serve = "none"
  /\ caller = FALSE
  /\ cancelled = FALSE
  /\ listening = TRUE
  /\ observing = TRUE
  /\ once = "new"
  /\ closer = [a \in Closers |-> "idle"]
  /\ conn = [c \in Connections |-> "away"]
  /\ calls = 0
  /\ workers = 0

-----------------------------------------------------------------------------
(* Serve.  It runs once: a second call finds `serving` set and returns.    *)

ServeGoes(from, to) == serve = from /\ serve' = to

ServeBegins ==
  /\ ServeGoes("none", "accept")
  /\ UNCHANGED <<caller, cancelled, listening, observing, once, closer, callVars>>

\* A connection comes out of the listener, which may still hold one after the
\* host's context was cancelled.
Accept(c) ==
  /\ ServeGoes("accept", "admit")
  /\ listening
  /\ conn[c] = "queued"
  /\ conn' = [conn EXCEPT ![c] = "accepted"]
  /\ UNCHANGED <<caller, cancelled, listening, observing, once, closer, calls, workers>>

\* A bug the run rules out: the worker counts itself in, once it runs.
AdmitUncounted(c) ==
  /\ ServeGoes("admit", "accept")
  /\ conn[c] = "accepted" /\ calls < MaxCalls
  /\ calls' = calls + 1
  /\ conn' = [conn EXCEPT ![c] = "receive"]
  /\ UNCHANGED <<caller, cancelled, listening, observing, once, closer, workers>>

\* A token is left: the connection gets a worker.
Admit(c) ==
  /\ ServeGoes("admit", "accept")
  /\ conn[c] = "accepted" /\ calls < MaxCalls
  /\ calls' = calls + 1
  /\ workers' = workers + 1
  /\ conn' = [conn EXCEPT ![c] = "receive"]
  /\ UNCHANGED <<caller, cancelled, listening, observing, once, closer>>

\* None is left: it is closed without an answer.
TurnAway(c) ==
  /\ ServeGoes("admit", "accept")
  /\ conn[c] = "accepted" /\ calls = MaxCalls
  /\ conn' = [conn EXCEPT ![c] = "away"]
  /\ UNCHANGED <<caller, cancelled, listening, observing, once, closer, calls, workers>>

\* The listener is closed, or has failed on its own.
AcceptFails ==
  /\ ServeGoes("accept", "close")
  /\ UNCHANGED <<caller, cancelled, listening, observing, once, closer, callVars>>

AcceptFindsClosed == ~listening /\ AcceptFails
ListenerFails     == listening /\ AcceptFails

\* A bug the run rules out: Serve tells and drains without closing first.
ServeClosesLate ==
  /\ ServeGoes("close", "notify")
  /\ UNCHANGED <<caller, cancelled, listening, observing, once, closer, callVars>>

\* The deferred calls, last one first: Close,
ServeCloses ==
  /\ closer[Server] = "returned"
  /\ ServeGoes("close", "notify")
  /\ UNCHANGED <<caller, cancelled, listening, observing, once, closer, callVars>>

\* OnStopped,
ServeNotifies ==
  /\ ServeGoes("notify", "drain")
  /\ UNCHANGED <<caller, cancelled, listening, observing, once, closer, callVars>>

\* workers.Wait,
ServeDrains ==
  /\ workers = 0
  /\ ServeGoes("drain", "unhook")
  /\ UNCHANGED <<caller, cancelled, listening, observing, once, closer, callVars>>

\* and the stop of the AfterFunc, which does not wait for one that has begun.
ServeReturns ==
  /\ ServeGoes("unhook", "returned")
  /\ UNCHANGED <<caller, cancelled, listening, observing, once, closer, callVars>>

CallerDone ==
  /\ ~caller /\ caller' = TRUE
  /\ UNCHANGED <<serve, cancelled, listening, observing, once, closer, callVars>>

-----------------------------------------------------------------------------
(* Close, under its sync.Once.                                             *)

\* Who may call it, and when: Serve's deferred call, the AfterFunc once the
\* caller's context is done and until Serve unhooks it, an embedder always.
MayClose(a) ==
  \/ a = Server /\ serve = "close"
  \/ a = After /\ caller /\ serve \notin {"none", "returned"}
  \/ a \in Embedders

CloseBegins(a) ==
  /\ closer[a] = "idle" /\ MayClose(a)
  /\ closer' = [closer EXCEPT ![a] = "closing"]
  /\ once' = IF once = "new" THEN "taken" ELSE once
  /\ UNCHANGED <<serve, caller, cancelled, listening, observing, callVars>>

CloseCancels ==
  /\ once = "taken" /\ once' = "cancelled"
  /\ cancelled' = TRUE
  /\ UNCHANGED <<serve, caller, listening, observing, closer, callVars>>

\* Connections that nobody accepted are gone with the listener.
CloseListener ==
  /\ once = "cancelled" /\ once' = "unlistened"
  /\ listening' = FALSE
  /\ conn' = [c \in Connections |-> IF conn[c] = "queued" THEN "away" ELSE conn[c]]
  /\ UNCHANGED <<serve, caller, cancelled, observing, closer, calls, workers>>

\* stopObservation returns, see module Observation.
CloseObservation ==
  /\ once = "unlistened" /\ once' = "done"
  /\ observing' = FALSE
  /\ UNCHANGED <<serve, caller, cancelled, listening, closer, callVars>>

\* A bug the run rules out: a flag in place of the Once, which does not wait.
CloseReturnsEarly(a) ==
  /\ closer[a] = "closing" /\ once # "taken"
  /\ closer' = [closer EXCEPT ![a] = "returned"]
  /\ UNCHANGED <<serve, caller, cancelled, listening, observing, once, callVars>>

\* Every other Close waits until that one is done.
CloseReturns(a) ==
  /\ closer[a] = "closing" /\ once = "done"
  /\ closer' = [closer EXCEPT ![a] = "returned"]
  /\ UNCHANGED <<serve, caller, cancelled, listening, observing, once, callVars>>

-----------------------------------------------------------------------------
(* The clients and their workers.                                          *)

Dial(c) ==
  /\ listening /\ conn[c] = "away"
  /\ conn' = [conn EXCEPT ![c] = "queued"]
  /\ UNCHANGED <<hostVars, calls, workers>>

WorkerGoes(c, from, to) ==
  /\ conn[c] = from
  /\ conn' = [conn EXCEPT ![c] = to]

\* The frame has come in, or the receive has failed.
Receive(c) ==
  /\ \E to \in {"handle", "hangup"} : WorkerGoes(c, "receive", to)
  /\ UNCHANGED <<hostVars, calls, workers>>

\* The handler has answered or failed.
Handle(c) ==
  /\ WorkerGoes(c, "handle", "hangup")
  /\ UNCHANGED <<hostVars, calls, workers>>

\* A bug the run rules out: the request's context is not one of the host's.
EndedByTimeout(c) == FALSE /\ conn[c] \in {"receive", "handle"}

\* The context of the request is done with the host's: a receive and a wait end.
EndedByHost(c) == cancelled /\ conn[c] \in {"receive", "handle"}

WorkerStops(c) ==
  /\ EndedByHost(c)
  /\ conn' = [conn EXCEPT ![c] = "hangup"]
  /\ UNCHANGED <<hostVars, calls, workers>>

\* The deferred calls of a worker: the connection is closed,
Hangup(c) ==
  /\ WorkerGoes(c, "hangup", "release")
  /\ UNCHANGED <<hostVars, calls, workers>>

\* A bug the run rules out: the token is kept.
ReleaseForgets(c) ==
  /\ WorkerGoes(c, "release", "leave")
  /\ UNCHANGED <<hostVars, calls, workers>>

\* the token given back,
Release(c) ==
  /\ WorkerGoes(c, "release", "leave")
  /\ calls' = calls - 1
  /\ UNCHANGED <<hostVars, workers>>

\* and the worker counted out.
Leave(c) ==
  /\ WorkerGoes(c, "leave", "away")
  /\ workers' = workers - 1
  /\ UNCHANGED <<hostVars, calls>>

-----------------------------------------------------------------------------
ServeStep ==
  \/ \E c \in Connections : Accept(c) \/ Admit(c) \/ TurnAway(c)
  \/ AcceptFindsClosed \/ ServeCloses \/ ServeNotifies \/ ServeDrains \/ ServeReturns

CloseStep == CloseCancels \/ CloseListener \/ CloseObservation

WorkerCleanup(c) == WorkerStops(c) \/ Hangup(c) \/ Release(c) \/ Leave(c)

Next ==
  \/ ServeBegins \/ ServeStep \/ ListenerFails \/ CallerDone
  \/ \E a \in Closers : CloseBegins(a) \/ CloseReturns(a)
  \/ CloseStep
  \/ \E c \in Connections : Dial(c) \/ Receive(c) \/ Handle(c) \/ WorkerCleanup(c)

Safety == Init /\ [][Next]_vars

\* Goroutines that can run do, and a worker whose context is done stops.  Nobody
\* is obliged to dial, to send, to answer in time, or to close.
Fairness ==
  /\ WF_vars(ServeStep)
  /\ WF_vars(CloseBegins(Server)) /\ WF_vars(CloseBegins(After))
  /\ WF_vars(CloseStep)
  /\ \A a \in Closers : WF_vars(CloseReturns(a))
  /\ \A c \in Connections : WF_vars(WorkerCleanup(c))

Spec == Safety /\ Fairness

-----------------------------------------------------------------------------
(* Properties.                                                             *)

\* Tokens and workers are counted right whatever path a call takes out of the
\* worker: the tokens are those of the workers that hold one, and the WaitGroup
\* counts every worker that is not gone.
TokensAccounted ==
  /\ calls = Cardinality({c \in Connections : conn[c] \in Holding})
  /\ workers = Cardinality({c \in Connections : conn[c] \in Counted})

\* Whoever's Close has returned, the host is closed: the context is done, the
\* listener closed and the observation source stopped, though another
\* goroutine's Close did it.
CloseMeansClosed ==
  \A a \in Closers : closer[a] = "returned" => cancelled /\ ~listening /\ ~observing

\* OnStopped is called "when admission stops, before active calls drain": by
\* then, though the listener may have failed with nobody closing the host, the
\* host is cancelled, so that every call still active has been told to end, and
\* no connection is left that could become one.
StoppedMeansStopped ==
  serve \in {"notify", "drain", "unhook", "returned"} =>
    /\ cancelled /\ ~listening
    /\ \A c \in Connections : conn[c] \notin {"queued", "accepted"}

\* When Serve has returned nothing of the host is left: no connection, no
\* worker, no listener, no source.
ServeLeavesNothing ==
  serve = "returned" =>
    /\ ~listening /\ ~observing
    /\ \A c \in Connections : conn[c] = "away"

\* A host that is told to stop stops: once somebody has closed it or its caller
\* is done, Serve returns, long polls and silent clients notwithstanding.
StopEndsServe ==
  (serve # "none" /\ (caller \/ once # "new")) ~> serve = "returned"
=============================================================================
