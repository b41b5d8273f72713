----------------------------- MODULE HostProofs -----------------------------
(***************************************************************************)
(* The host of HostLifecycle, for any number of connections, embedders that *)
(* close it and tokens.                                                     *)
(***************************************************************************)
EXTENDS HostLifecycle, FiniteSetTheorems, TLAPS

USE ConnectionsAssumption, ClosersAssumption, MaxCallsAssumption

-----------------------------------------------------------------------------
(* Counting workers.                                                       *)

At(stages) == {c \in Connections : conn[c] \in stages}

\* The connections at some stages can be counted.
LEMMA AtFinite ==
  ASSUME NEW stages
  PROVE  /\ IsFiniteSet(At(stages))
         /\ Cardinality(At(stages)) \in Nat
         /\ Cardinality(At(stages)) <= Cardinality(Connections)
         /\ Cardinality(Connections) \in Nat
BY FS_Subset, FS_CardinalityType DEF At

\* A connection that comes to one of the stages is one more there.
LEMMA OneComes ==
  ASSUME TypeOK, NEW stages, NEW c \in Connections, NEW to \in stages,
         conn[c] \notin stages, conn' = [conn EXCEPT ![c] = to]
  PROVE  Cardinality(At(stages)') = Cardinality(At(stages)) + 1
<1>1. At(stages)' = At(stages) \cup {c}
  BY DEF At, TypeOK
<1>2. c \notin At(stages)
  BY DEF At
<1> QED BY <1>1, <1>2, AtFinite, FS_AddElement

\* A connection that goes from the stages is one less there.
LEMMA OneGoes ==
  ASSUME TypeOK, NEW stages, NEW c \in Connections, NEW to, to \notin stages,
         conn[c] \in stages, conn' = [conn EXCEPT ![c] = to]
  PROVE  /\ Cardinality(At(stages)') = Cardinality(At(stages)) - 1
         /\ Cardinality(At(stages)) > 0
<1>1. At(stages)' = At(stages) \ {c}
  BY DEF At, TypeOK
<1>2. c \in At(stages)
  BY DEF At
<1>3. Cardinality(At(stages) \ {c}) = Cardinality(At(stages)) - 1
  BY <1>2, AtFinite, FS_RemoveElement
<1>4. Cardinality(At(stages) \ {c}) \in Nat
  BY AtFinite, FS_RemoveElement, FS_CardinalityType
<1> QED BY <1>1, <1>3, <1>4, AtFinite

\* A connection that moves within the stages or outside them changes no count.
LEMMA NoneMoves ==
  ASSUME TypeOK, NEW stages, NEW c \in Connections, NEW to,
         conn[c] \in stages <=> to \in stages, conn' = [conn EXCEPT ![c] = to]
  PROVE  At(stages)' = At(stages)
BY DEF At, TypeOK

-----------------------------------------------------------------------------
(* The inductive invariant.                                                *)

\* How far Close has come, told by what it has done, and who may have seen it.
CloseProgress ==
  /\ cancelled <=> once \in {"cancelled", "unlistened", "done"}
  /\ ~listening <=> once \in {"unlistened", "done"}
  /\ ~observing <=> once = "done"
  /\ \A a \in Closers : closer[a] = "returned" => once = "done"
  /\ serve \in {"notify", "drain", "unhook", "returned"} => closer[Server] = "returned"

\* Who may be where: nobody waits at a closed listener, Serve has taken at most
\* one connection that it has not decided about, and a drained host has none.
ConnProgress ==
  /\ \A c \in Connections : conn[c] = "queued" => listening
  /\ \A c \in Connections : conn[c] = "accepted" => serve = "admit"
  /\ \A c, d \in Connections : conn[c] = "accepted" /\ conn[d] = "accepted" => c = d
  /\ serve \in {"unhook", "returned"} => \A c \in Connections : conn[c] \notin Counted

Inv == TypeOK /\ TokensAccounted /\ CloseProgress /\ ConnProgress

\* The count of tokens and of workers, in the terms of the lemmas.
LEMMA Accounts ==
  TokensAccounted <=> calls = Cardinality(At(Holding)) /\ workers = Cardinality(At(Counted))
BY DEF TokensAccounted, At

\* A host that nobody has dialled has no token out and no worker.
LEMMA InitInv == Init => Inv
<1> SUFFICES ASSUME Init PROVE Inv
  OBVIOUS
<1>1. At(Holding) = {} /\ At(Counted) = {}
  BY DEF Init, At, Holding, Counted
<1>2. TokensAccounted
  BY <1>1, Accounts, FS_EmptySet DEF Init
<1>3. TypeOK
  <2>1. Cardinality(Connections) \in Nat
    BY FS_CardinalityType
  <2>2. calls \in 0 .. MaxCalls /\ workers \in 0 .. Cardinality(Connections)
    BY <2>1 DEF Init
  <2> QED BY <2>2 DEF Init, TypeOK
<1> QED BY <1>2, <1>3 DEF Init, Inv, CloseProgress, ConnProgress

\* A step that moves no connection keeps the counts.
LEMMA CountsKept ==
  ASSUME TokensAccounted, UNCHANGED callVars
  PROVE  TokensAccounted'
BY DEF TokensAccounted, callVars

\* The steps of Serve that take no connection.
LEMMA ServeInv ==
  ASSUME Inv, ServeBegins \/ AcceptFails \/ ServeCloses \/ ServeNotifies
              \/ ServeDrains \/ ServeReturns \/ CallerDone
  PROVE  Inv'
<1> USE DEF Inv, ServeGoes
<1>1. TokensAccounted'
  BY CountsKept DEF ServeBegins, AcceptFails, ServeCloses, ServeNotifies, ServeDrains,
                    ServeReturns, CallerDone
<1>2. TypeOK'
  BY DEF ServeBegins, AcceptFails, ServeCloses, ServeNotifies, ServeDrains,
         ServeReturns, CallerDone, TypeOK, callVars
<1>5. CloseProgress'
  <2>1. UNCHANGED <<cancelled, listening, observing, once, closer>>
    BY DEF ServeBegins, AcceptFails, ServeCloses, ServeNotifies, ServeDrains,
           ServeReturns, CallerDone
  <2>2. serve' \in {"notify", "drain", "unhook", "returned"} => closer[Server] = "returned"
    BY DEF ServeBegins, AcceptFails, ServeCloses, ServeNotifies, ServeDrains,
           ServeReturns, CallerDone, CloseProgress
  <2> QED BY <2>1, <2>2 DEF CloseProgress
<1>3. ASSUME ServeDrains PROVE \A c \in Connections : conn[c] \notin Counted
  <2>1. Cardinality(At(Counted)) = 0
    BY <1>3, Accounts DEF ServeDrains
  <2>2. At(Counted) = {}
    BY <2>1, AtFinite, FS_EmptySet
  <2> QED BY <2>2 DEF At
<1>4. ConnProgress'
  BY <1>3 DEF ServeBegins, AcceptFails, ServeCloses, ServeNotifies, ServeDrains,
              ServeReturns, CallerDone, ConnProgress, callVars, TypeOK
<1> QED BY <1>1, <1>2, <1>4, <1>5

\* The steps of Serve that take a connection or decide about it.
LEMMA AdmissionInv ==
  ASSUME Inv, NEW c \in Connections, Accept(c) \/ Admit(c) \/ TurnAway(c)
  PROVE  Inv'
<1> USE DEF Inv, ServeGoes
<1>1. CASE Accept(c)
  <2>1. At(Holding)' = At(Holding) /\ At(Counted)' = At(Counted)
    BY <1>1, NoneMoves DEF Accept, Holding, Counted
  <2>2. TokensAccounted'
    BY <1>1, <2>1, Accounts DEF Accept, TokensAccounted, At
  <2>3. TypeOK' /\ CloseProgress' /\ ConnProgress'
    BY <1>1 DEF Accept, TypeOK, CloseProgress, ConnProgress, Holding, Counted
  <2> QED BY <2>2, <2>3
<1>2. CASE Admit(c)
  <2>1. Cardinality(At(Holding)') = calls + 1 /\ Cardinality(At(Counted)') = workers + 1
    BY <1>2, OneComes, Accounts DEF Admit, Holding, Counted
  <2>2. TokensAccounted'
    BY <1>2, <2>1 DEF Admit, TokensAccounted, At
  <2>3. Cardinality(At(Counted)') <= Cardinality(Connections)
    BY FS_Subset DEF At
  <2>4. TypeOK'
    BY <1>2, <2>1, <2>3, AtFinite DEF Admit, TypeOK, Holding, Counted
  <2>5. CloseProgress' /\ ConnProgress'
    BY <1>2 DEF Admit, TypeOK, CloseProgress, ConnProgress, Holding, Counted
  <2> QED BY <2>2, <2>4, <2>5
<1>3. CASE TurnAway(c)
  <2>1. At(Holding)' = At(Holding) /\ At(Counted)' = At(Counted)
    BY <1>3, NoneMoves DEF TurnAway, Holding, Counted
  <2>2. TokensAccounted'
    BY <1>3, <2>1, Accounts DEF TurnAway, TokensAccounted, At
  <2>3. TypeOK' /\ CloseProgress' /\ ConnProgress'
    BY <1>3 DEF TurnAway, TypeOK, CloseProgress, ConnProgress, Holding, Counted
  <2> QED BY <2>2, <2>3
<1> QED BY <1>1, <1>2, <1>3

\* The steps of Close.  Those who dialled a closing listener are sent away.
LEMMA CloseInv ==
  ASSUME Inv, CloseStep \/ \E a \in Closers : CloseBegins(a) \/ CloseReturns(a)
  PROVE  Inv'
<1> USE DEF Inv
<1>1. CASE CloseListener
  <2>1. At(Holding)' = At(Holding) /\ At(Counted)' = At(Counted)
    BY <1>1 DEF CloseListener, At, Holding, Counted, TypeOK
  <2>2. TokensAccounted'
    BY <1>1, <2>1, Accounts DEF CloseListener, TokensAccounted, At
  <2>3. TypeOK' /\ CloseProgress' /\ ConnProgress'
    BY <1>1 DEF CloseListener, TypeOK, CloseProgress, ConnProgress, Holding, Counted
  <2> QED BY <2>2, <2>3
<1>2. CASE CloseCancels \/ CloseObservation
  <2>1. TokensAccounted'
    BY <1>2, CountsKept DEF CloseCancels, CloseObservation
  <2>2. TypeOK' /\ ConnProgress'
    BY <1>2 DEF CloseCancels, CloseObservation, TypeOK, ConnProgress, callVars
  <2>3. CloseProgress'
    BY <1>2 DEF CloseCancels, CloseObservation, CloseProgress
  <2> QED BY <2>1, <2>2, <2>3
<1>3. ASSUME NEW a \in Closers, CloseBegins(a) \/ CloseReturns(a) PROVE Inv'
  <2>1. TokensAccounted'
    BY <1>3, CountsKept DEF CloseBegins, CloseReturns
  <2>2. TypeOK' /\ ConnProgress'
    BY <1>3 DEF CloseBegins, CloseReturns, TypeOK, ConnProgress, callVars
  <2>3. CloseProgress'
    BY <1>3 DEF CloseBegins, CloseReturns, CloseProgress, TypeOK, Closers
  <2> QED BY <2>1, <2>2, <2>3
<1> QED BY <1>1, <1>2, <1>3 DEF CloseStep

\* The steps of the clients and the workers.
LEMMA WorkerInv ==
  ASSUME Inv, NEW c \in Connections,
         Dial(c) \/ Receive(c) \/ Handle(c) \/ WorkerCleanup(c)
  PROVE  Inv'
<1> USE DEF Inv, WorkerGoes
<1>1. CASE Dial(c) \/ Receive(c) \/ Handle(c) \/ WorkerStops(c) \/ Hangup(c)
  <2>1. PICK to \in {"queued", "handle", "hangup", "release"} :
          /\ conn' = [conn EXCEPT ![c] = to]
          /\ to = "queued" => conn[c] = "away" /\ listening
          /\ to # "queued" => conn[c] \in Holding
          /\ UNCHANGED <<hostVars, calls, workers>>
    BY <1>1 DEF Dial, Receive, Handle, WorkerStops, EndedByHost, Hangup, Holding
  <2>2. At(Holding)' = At(Holding) /\ At(Counted)' = At(Counted)
    BY <2>1, NoneMoves DEF Holding, Counted
  <2>3. TokensAccounted'
    BY <2>1, <2>2, Accounts DEF TokensAccounted, At
  <2>4. TypeOK' /\ CloseProgress' /\ ConnProgress'
    BY <2>1 DEF TypeOK, CloseProgress, ConnProgress, Holding, Counted, hostVars
  <2> QED BY <2>3, <2>4
<1>2. CASE Release(c)
  <2>1. Cardinality(At(Holding)') = calls - 1 /\ calls > 0
    BY <1>2, OneGoes, Accounts DEF Release, Holding
  <2>2. At(Counted)' = At(Counted)
    BY <1>2, NoneMoves DEF Release, Holding, Counted
  <2>3. TokensAccounted'
    BY <1>2, <2>1, <2>2, Accounts DEF Release, TokensAccounted, At
  <2>4. TypeOK' /\ CloseProgress' /\ ConnProgress'
    BY <1>2, <2>1 DEF Release, TypeOK, CloseProgress, ConnProgress, Holding, Counted, hostVars
  <2> QED BY <2>3, <2>4
<1>3. CASE Leave(c)
  <2>1. Cardinality(At(Counted)') = workers - 1 /\ workers > 0
    BY <1>3, OneGoes, Accounts DEF Leave, Holding, Counted
  <2>2. At(Holding)' = At(Holding)
    BY <1>3, NoneMoves DEF Leave, Holding
  <2>3. TokensAccounted'
    BY <1>3, <2>1, <2>2, Accounts DEF Leave, TokensAccounted, At
  <2>4. TypeOK' /\ CloseProgress' /\ ConnProgress'
    BY <1>3, <2>1, AtFinite DEF Leave, TypeOK, CloseProgress, ConnProgress, Holding, Counted, hostVars
  <2> QED BY <2>3, <2>4
<1> QED BY <1>1, <1>2, <1>3 DEF WorkerCleanup

\* Every step of the host keeps the invariant.
LEMMA StepInv == Inv /\ [Next]_vars => Inv'
<1> SUFFICES ASSUME Inv, [Next]_vars PROVE Inv'
  OBVIOUS
<1>1. CASE ServeBegins \/ ListenerFails \/ CallerDone
  BY <1>1, ServeInv DEF ListenerFails
<1>2. CASE ServeStep
  BY <1>2, ServeInv, AdmissionInv DEF ServeStep, AcceptFindsClosed
<1>3. CASE CloseStep \/ \E a \in Closers : CloseBegins(a) \/ CloseReturns(a)
  BY <1>3, CloseInv
<1>4. CASE \E c \in Connections : Dial(c) \/ Receive(c) \/ Handle(c) \/ WorkerCleanup(c)
  BY <1>4, WorkerInv
<1>5. CASE UNCHANGED vars
  BY <1>5 DEF vars, hostVars, callVars, Inv, TypeOK, TokensAccounted, CloseProgress,
              ConnProgress
<1> QED BY <1>1, <1>2, <1>3, <1>4, <1>5 DEF Next

\* The inductive invariant of the host.
THEOREM Invariance == Safety => []Inv
<1>1. Init => Inv
  BY InitInv
<1>2. Inv /\ [Next]_vars => Inv'
  BY StepInv
<1> QED BY <1>1, <1>2, PTL DEF Safety

-----------------------------------------------------------------------------
(* What follows from it.                                                   *)

\* Every variable of the host keeps its type, the tokens their capacity.
THEOREM TypeCorrect == Safety => []TypeOK
<1>1. Inv => TypeOK
  BY DEF Inv
<1> QED BY <1>1, Invariance, PTL

\* Tokens and workers are those of the connections that have them.
THEOREM TokensKept == Safety => []TokensAccounted
<1>1. Inv => TokensAccounted
  BY DEF Inv
<1> QED BY <1>1, Invariance, PTL

\* Whoever's Close returns finds the host closed.
THEOREM ClosersFindItClosed == Safety => []CloseMeansClosed
<1>1. Inv => CloseMeansClosed
  BY DEF Inv, CloseProgress, CloseMeansClosed
<1> QED BY <1>1, Invariance, PTL

\* When OnStopped is called admission has stopped and every call is told to end.
THEOREM StoppedIsStopped == Safety => []StoppedMeansStopped
<1>1. Inv => StoppedMeansStopped
  BY DEF Inv, CloseProgress, ConnProgress, StoppedMeansStopped, Closers
<1> QED BY <1>1, Invariance, PTL

\* Serve returns when nothing of the host is left.
THEOREM ServeReturnsLast == Safety => []ServeLeavesNothing
<1>1. Inv => ServeLeavesNothing
  BY DEF Inv, TypeOK, CloseProgress, ConnProgress, ServeLeavesNothing, Closers
<1> QED BY <1>1, Invariance, PTL
=============================================================================
