-------------------------- MODULE ObservationProofs --------------------------
(***************************************************************************)
(* The observer of Observation, for any number of clients, files' contents,*)
(* overrides, slots, changes and service processes, over any notification  *)
(* source that keeps its contract.                                         *)
(***************************************************************************)
EXTENDS Observation, FiniteSetTheorems, TLAPS

USE ContentsAssumption, MaxWritesAssumption, ObserversAssumption, SourcesAssumption,
    MaxSlotsAssumption, MaxInstancesAssumption, OverridesAssumption, CursorsAssumption

-----------------------------------------------------------------------------
(* Types and slots.  The slots need their accounting to stay within bounds:*)
(* a call that gives one back must have taken it.                          *)

Holders == {o \in Observers : held[o]}

TypeInv == ObservationTypeOK /\ slots = Cardinality(Holders)

\* Between two calls a client's overrides are some of those it may carry.
LEMMA NoOverridesType == NoOverrides \in Overrides
BY DEF NoOverrides

\* What a call has read before it reads is still a content for each rung.
LEMMA UnreadType == Unread \in [Rungs -> Contents]
BY DEF Unread

\* The calls that hold a slot are finitely many, so they can be counted.
LEMMA HoldersFinite ==
  ASSUME TypeInv
  PROVE  IsFiniteSet(Holders) /\ Cardinality(Holders) \in Nat
BY FS_Subset, FS_CardinalityType DEF Holders

\* One call less holds a slot, if it held one.
LEMMA SlotGivenBack ==
  ASSUME TypeInv, NEW o \in Observers,
         slots' = IF held[o] THEN slots - 1 ELSE slots,
         held' = [held EXCEPT ![o] = FALSE]
  PROVE  slots' \in 0 .. MaxSlots /\ slots' = Cardinality(Holders')
<1>1. Holders' = Holders \ {o}
  BY DEF Holders, TypeInv, ObservationTypeOK
<1>2. CASE held[o]
  <2>1. o \in Holders
    BY <1>2 DEF Holders
  <2>2. Cardinality(Holders \ {o}) = Cardinality(Holders) - 1 /\ Cardinality(Holders \ {o}) \in Nat
    BY <2>1, HoldersFinite, FS_RemoveElement, FS_CardinalityType
  <2> QED BY <1>1, <1>2, <2>2, HoldersFinite DEF TypeInv, ObservationTypeOK
<1>3. CASE ~held[o]
  <2>1. Holders \ {o} = Holders
    BY <1>3 DEF Holders
  <2> QED BY <1>1, <1>3, <2>1 DEF TypeInv, ObservationTypeOK
<1> QED BY <1>2, <1>3

\* One call more holds a slot, if it held none and one is left.
LEMMA SlotTaken ==
  ASSUME TypeInv, NEW o \in Observers, held[o] \/ slots < MaxSlots,
         slots' = IF held[o] THEN slots ELSE slots + 1,
         held' = [held EXCEPT ![o] = TRUE]
  PROVE  slots' \in 0 .. MaxSlots /\ slots' = Cardinality(Holders')
<1>1. Holders' = Holders \cup {o}
  BY DEF Holders, TypeInv, ObservationTypeOK
<1>2. CASE held[o]
  <2>1. Holders \cup {o} = Holders
    BY <1>2 DEF Holders
  <2> QED BY <1>1, <1>2, <2>1 DEF TypeInv, ObservationTypeOK
<1>3. CASE ~held[o]
  <2>1. o \notin Holders
    BY <1>3 DEF Holders
  <2>2. Cardinality(Holders \cup {o}) = Cardinality(Holders) + 1
    BY <2>1, HoldersFinite, FS_AddElement
  <2> QED BY <1>1, <1>3, <2>2, HoldersFinite DEF TypeInv, ObservationTypeOK
<1> QED BY <1>2, <1>3

\* An Observe call that returns leaves everything well typed.
LEMMA ReturnType ==
  ASSUME TypeInv, NEW o \in Observers, NEW out \in Outcomes, Return(o, out),
         cursor' \in [Observers -> Cursors \cup {NoCursor, BadCursor}],
         UNCHANGED <<sourceVars, dispatcher, source, host, initialized, epoch>>,
         starter' \in Observers \cup {Prepare, NoOne}, failed' \in BOOLEAN
  PROVE  TypeInv'
<1>1. slots' \in 0 .. MaxSlots /\ slots' = Cardinality(Holders')
  BY SlotGivenBack DEF Return
<1>2. /\ pc' \in [Observers -> Steps]
      /\ over' \in [Observers -> Overrides]
      /\ expired' \in [Observers -> BOOLEAN]
      /\ held' \in [Observers -> BOOLEAN]
      /\ stale' \in [Observers -> BOOLEAN]
      /\ seen' \in [Observers -> [Rungs -> Contents]]
      /\ outcome' \in [Observers -> Outcomes]
      /\ touched' \in [Observers -> SUBSET Rungs]
  BY NoOverridesType, UnreadType DEF TypeInv, ObservationTypeOK, Return, Steps
<1> QED BY <1>1, <1>2 DEF TypeInv, ObservationTypeOK, SourceTypeOK, sourceVars

\* A refusal keeps every variable of the calls in its type.
LEMMA RefuseType ==
  ASSUME TypeInv, NEW o \in Observers, NEW out \in Outcomes, Refuse(o, out),
         UNCHANGED <<sourceVars, hostVars>>
  PROVE  TypeInv'
BY ReturnType DEF Refuse, hostVars, TypeInv, ObservationTypeOK

\* The cursor made after both files were read is a cursor.
LEMMA NextCursorType ==
  ASSUME TypeInv, NEW o \in Observers
  PROVE  NextCursor(o) \in Cursors
<1>1. seen[o][Machine] \in Contents /\ seen[o][User] \in Contents
  BY DEF TypeInv, ObservationTypeOK, Rungs
<1>2. Answer(seen[o][Machine], seen[o][User], over[o]) \in Answers
  BY <1>1 DEF Answers, TypeInv, ObservationTypeOK
<1> QED BY <1>2 DEF NextCursor, Cursors, TypeInv, ObservationTypeOK

\* A change of the environment's: the files, their source, and the history.
LEMMA EnvironmentType ==
  ASSUME TypeInv, Environment
  PROVE  TypeInv'
<1>1. SourceTypeOK'
  <2> USE DEF TypeInv, ObservationTypeOK, SourceTypeOK
  <2>1. CASE SourceWrite
    <3>1. PICK r \in Rungs, c \in Contents :
            CoveredWrite(r, c) \/ BlindWrite(r, c) \/ UnreportedWrite(r, c)
      BY <2>1 DEF SourceWrite
    <3>2. Write(r, c) /\ (blind' = blind \/ blind' = blind \cup {r})
      BY <3>1 DEF CoveredWrite, BlindWrite, UnreportedWrite
    <3>3. files' \in [Rungs -> Contents] /\ writes' \in 0 .. MaxWrites /\ phase' = phase
      BY <3>2 DEF Write
    <3>4. owed' \in BOOLEAN
      <4>1. CASE CoveredWrite(r, c)
        BY <4>1, Zenon DEF CoveredWrite
      <4>2. CASE BlindWrite(r, c)
        BY <4>2 DEF BlindWrite
      <4>3. CASE UnreportedWrite(r, c)
        <5>1. owed' \in {owed, TRUE}
          BY <4>3, Zenon DEF UnreportedWrite
        <5> QED BY <5>1
      <4> QED BY <3>1, <4>1, <4>2, <4>3
    <3> QED BY <3>2, <3>3, <3>4
  <2>2. CASE SpuriousSignal
    BY <2>2 DEF SpuriousSignal
  <2>3. CASE GoesSilent
    BY <2>3 DEF GoesSilent
  <2>4. CASE SilentDrift
    BY <2>4 DEF SilentDrift
  <2> QED BY <2>1, <2>2, <2>3, <2>4 DEF Environment
<1>2. touched' \in [Observers -> SUBSET Rungs]
  <2>1. ASSUME NEW o \in Observers
        PROVE  (IF pc[o] = "idle" THEN {}
                ELSE touched[o] \cup {r \in Rungs : files'[r] # files[r]}) \in SUBSET Rungs
    BY DEF TypeInv, ObservationTypeOK
  <2> QED BY <2>1 DEF Environment
<1> QED BY <1>1, <1>2 DEF Environment, TypeInv, ObservationTypeOK, hostVars, Holders

\* The initial states have the strengthened type.
LEMMA TypeInit == ObservationInit => TypeInv
<1> SUFFICES ASSUME ObservationInit PROVE TypeInv
  OBVIOUS
<1>1. slots = Cardinality(Holders)
  <2>1. Holders = {}
    BY DEF ObservationInit, Holders
  <2> QED BY <2>1, FS_EmptySet DEF ObservationInit
<1>2. SourceTypeOK
  <2>1. owed \in BOOLEAN
    BY Zenon DEF ObservationInit, SourceInit
  <2>2. writes \in 0 .. MaxWrites /\ phase \in {"none", "up", "silent", "ended"}
    BY DEF ObservationInit, SourceInit
  <2>3. files \in [Rungs -> Contents] /\ blind \subseteq Rungs
    BY DEF ObservationInit, SourceInit
  <2> QED BY <2>1, <2>2, <2>3 DEF SourceTypeOK
<1>3. ObservationTypeOK
  <2>1. initialized \in BOOLEAN /\ failed \in BOOLEAN
    BY Zenon DEF ObservationInit
  <2>2. /\ expired \in [Observers -> BOOLEAN] /\ held \in [Observers -> BOOLEAN]
        /\ stale \in [Observers -> BOOLEAN]
    BY DEF ObservationInit
  <2>3. seen \in [Observers -> [Rungs -> Contents]] /\ over \in [Observers -> Overrides]
    BY NoOverridesType, UnreadType DEF ObservationInit
  <2>4. epoch \in 1 .. MaxInstances /\ slots \in 0 .. MaxSlots
    BY DEF ObservationInit
  <2> QED BY <1>2, <2>1, <2>2, <2>3, <2>4 DEF ObservationInit, ObservationTypeOK, Steps, Outcomes
<1> QED BY <1>1, <1>3 DEF TypeInv

\* Every step of the observer, its host and its source keeps the
\* strengthened type: one step below per action.
LEMMA TypeStep == TypeInv /\ [ObservationNext]_vars => TypeInv'
<1> SUFFICES ASSUME TypeInv, [ObservationNext]_vars PROVE TypeInv'
  OBVIOUS
<1>1. CASE Environment
  BY <1>1, EnvironmentType
<1>2. ASSUME NEW o \in Observers, Call(o) PROVE TypeInv'
  <2>1. PICK c \in {cursor[o], NoCursor, BadCursor} : cursor' = [cursor EXCEPT ![o] = c]
    BY <1>2 DEF Call
  <2>2. PICK v \in Overrides : over' = [over EXCEPT ![o] = v]
    BY <1>2 DEF Call
  <2>3. PICK zero \in BOOLEAN : expired' = [expired EXCEPT ![o] = zero]
    BY <1>2 DEF Call
  <2> QED BY <1>2, <2>1, <2>2, <2>3
          DEF Call, Proceed, TypeInv, ObservationTypeOK, SourceTypeOK, sourceVars,
              hostVars, Holders, Steps, Outcomes
<1>3. ASSUME NEW o \in Observers, CallRefused(o) PROVE TypeInv'
  BY <1>3, RefuseType DEF CallRefused, Outcomes
<1>4. ASSUME NEW o \in Observers, StartReturns(o) PROVE TypeInv'
  <2>1. CASE \E out \in Outcomes : Refuse(o, out)
    BY <1>4, <2>1, RefuseType DEF StartReturns
  <2>2. CASE /\ Proceed(o, "start", "cursor")
             /\ UNCHANGED <<cursor, over, expired, held, slots, stale, seen, outcome, touched>>
    BY <1>4, <2>2 DEF StartReturns, Proceed, TypeInv, ObservationTypeOK, SourceTypeOK,
                      sourceVars, hostVars, Holders, Steps
  <2> QED BY <1>4, <2>1, <2>2 DEF StartReturns, Outcomes
<1>5. ASSUME NEW p \in Observers \cup {Prepare}, StartBegins(p) PROVE TypeInv'
  BY <1>5 DEF StartBegins, TypeInv, ObservationTypeOK, SourceTypeOK, sourceVars,
              callVars, Holders
<1>6. CASE StartSource
  BY <1>6 DEF StartSource, SourceStarts, TypeInv, ObservationTypeOK, SourceTypeOK,
              hostVars, callVars, Holders
<1>7. CASE StartFails
  <2>1. CASE starter = Prepare
    BY <1>7, <2>1 DEF StartFails, TypeInv, ObservationTypeOK, SourceTypeOK, sourceVars,
                      callVars, Holders
  <2>2. CASE starter # Prepare
    <3>1. starter \in Observers
      BY <1>7, <2>2 DEF StartFails, Unlocked, TypeInv, ObservationTypeOK
    <3> QED BY <1>7, <2>2, <3>1, ReturnType
            DEF StartFails, Refuse, Outcomes, TypeInv, ObservationTypeOK
  <2> QED BY <2>1, <2>2
<1>8. CASE StartPublishes
  <2>1. pc' \in [Observers -> Steps]
    BY <1>8 DEF StartPublishes, TypeInv, ObservationTypeOK, Steps
  <2> QED BY <1>8, <2>1 DEF StartPublishes, TypeInv, ObservationTypeOK, SourceTypeOK,
                            sourceVars, Holders
<1>9. ASSUME NEW o \in Observers, CheckCursor(o) PROVE TypeInv'
  <2>1. CASE \E out \in Outcomes : Refuse(o, out)
    BY <1>9, <2>1, RefuseType DEF CheckCursor
  <2>2. CASE /\ Proceed(o, "cursor", "loop")
             /\ UNCHANGED <<cursor, over, expired, held, slots, stale, seen, outcome, touched>>
    BY <1>9, <2>2 DEF CheckCursor, Proceed, TypeInv, ObservationTypeOK, SourceTypeOK,
                      sourceVars, hostVars, Holders, Steps
  <2> QED BY <1>9, <2>1, <2>2 DEF CheckCursor, Outcomes
<1>10. ASSUME NEW o \in Observers, Capture(o) PROVE TypeInv'
  <2>1. CASE Refuse(o, "unavailable")
    BY <1>10, <2>1, RefuseType DEF Capture, Outcomes
  <2>2. CASE /\ Proceed(o, "loop", "readUser")
             /\ stale' = [stale EXCEPT ![o] = FALSE]
             /\ UNCHANGED <<cursor, over, expired, held, slots, seen, outcome, touched>>
    BY <1>10, <2>2 DEF Capture, Proceed, TypeInv, ObservationTypeOK, SourceTypeOK,
                       sourceVars, hostVars, Holders, Steps
  <2> QED BY <1>10, <2>1, <2>2 DEF Capture
<1>11. ASSUME NEW o \in Observers, NEW r \in Rungs, NEW from, NEW to \in Steps,
              ReadFile(o, r, from, to)
       PROVE  TypeInv'
  <2>1. files[r] \in Contents
    BY DEF TypeInv, ObservationTypeOK, SourceTypeOK
  <2>2. seen' \in [Observers -> [Rungs -> Contents]]
    BY <1>11, <2>1 DEF ReadFile, TypeInv, ObservationTypeOK
  <2> QED BY <1>11, <2>2 DEF ReadFile, Proceed, TypeInv, ObservationTypeOK, SourceTypeOK,
                       sourceVars, hostVars, Holders
<1>12. ASSUME NEW o \in Observers, ReadUserFile(o) \/ ReadMachineFile(o) PROVE TypeInv'
  BY <1>11, <1>12 DEF ReadUserFile, ReadMachineFile, Rungs, Steps
<1>13. ASSUME NEW o \in Observers, ReadFails(o) PROVE TypeInv'
  BY <1>13, RefuseType DEF ReadFails, Outcomes
<1>14. ASSUME NEW o \in Observers, Decide(o) PROVE TypeInv'
  <2>1. CASE ReplySnapshot(o)
    <3>1. cursor' \in [Observers -> Cursors \cup {NoCursor, BadCursor}]
      BY <2>1, NextCursorType DEF ReplySnapshot, TypeInv, ObservationTypeOK
    <3> QED BY <1>14, <2>1, <3>1, ReturnType
            DEF Decide, ReplySnapshot, Outcomes, hostVars, TypeInv, ObservationTypeOK
  <2>2. CASE ReplyUnchanged(o) \/ NoSlotLeft(o)
    BY <1>14, <2>2, RefuseType DEF Decide, ReplyUnchanged, NoSlotLeft, Outcomes
  <2>3. CASE Park(o)
    <3>1. slots' \in 0 .. MaxSlots /\ slots' = Cardinality(Holders')
      BY <2>3, SlotTaken DEF Park
    <3> QED BY <1>14, <2>3, <3>1 DEF Decide, Park, Proceed, TypeInv, ObservationTypeOK,
                                     SourceTypeOK, sourceVars, hostVars, Steps
  <2> QED BY <1>14, <2>1, <2>2, <2>3 DEF Decide
<1>15. ASSUME NEW o \in Observers, Wake(o) PROVE TypeInv'
  BY <1>15 DEF Wake, Proceed, TypeInv, ObservationTypeOK, SourceTypeOK, sourceVars,
               hostVars, Holders, Steps
<1>16. ASSUME NEW o \in Observers, Expire(o) PROVE TypeInv'
  BY <1>16 DEF Expire, Proceed, TypeInv, ObservationTypeOK, SourceTypeOK, sourceVars,
               hostVars, Holders, Steps
<1>17. ASSUME NEW o \in Observers, AbortOnClose(o) \/ Disconnect(o) PROVE TypeInv'
  BY <1>17, RefuseType DEF AbortOnClose, Disconnect, Abort, Outcomes
<1>18. CASE DispatchReceives
  BY <1>18 DEF DispatchReceives, DispatchStep, SignalTaken, TypeInv, ObservationTypeOK,
               SourceTypeOK, callVars, Holders
<1>19. CASE DispatchFindsClosed \/ DispatchReported \/ DispatchStops
  BY <1>19 DEF DispatchFindsClosed, DispatchReported, DispatchStops, DispatchStep,
               TypeInv, ObservationTypeOK, SourceTypeOK, sourceVars, callVars, Holders
<1>20. CASE DispatchRings \/ DispatchFails
  <2>1. stale' \in [Observers -> BOOLEAN]
    <3>1. \A o \in Observers : (pc[o] \in Captured) \in BOOLEAN
      OBVIOUS
    <3> QED BY <1>20, <3>1 DEF DispatchRings, DispatchFails, CloseChanged
  <2>2. failed' \in BOOLEAN
    <3>1. CASE DispatchRings
      BY <3>1 DEF DispatchRings, TypeInv, ObservationTypeOK
    <3>2. CASE DispatchFails
      BY <3>2, Zenon DEF DispatchFails
    <3> QED BY <1>20, <3>1, <3>2
  <2>3. /\ dispatcher' \in {"waiting", "reporting"}
        /\ UNCHANGED <<sourceVars, source, host, starter, initialized, epoch, pc, cursor,
                       over, expired, held, slots, seen, outcome, touched>>
    BY <1>20 DEF DispatchRings, DispatchFails, DispatchStep, CloseChanged
  <2> QED BY <2>1, <2>2, <2>3
          DEF TypeInv, ObservationTypeOK, SourceTypeOK, sourceVars, Holders
<1>21. CASE HostCancels \/ HostStops \/ HostJoins
  BY <1>21 DEF HostCancels, HostStops, HostJoins, HostStep, TypeInv, ObservationTypeOK,
               SourceTypeOK, sourceVars, callVars, Holders
<1>22. CASE EndSource
  BY <1>22 DEF EndSource, SourceEnds, TypeInv, ObservationTypeOK, SourceTypeOK,
               hostVars, callVars, Holders
<1>23. CASE Restart
  <2>1. slots' = Cardinality(Holders')
    <3>1. Holders' = {}
      BY <1>23 DEF Restart, Holders
    <3> QED BY <1>23, <3>1, FS_EmptySet DEF Restart
  <2>2. epoch' \in 1 .. MaxInstances
    BY <1>23 DEF Restart, TypeInv, ObservationTypeOK
  <2>3. owed' \in BOOLEAN /\ initialized' \in BOOLEAN /\ failed' \in BOOLEAN
    BY <1>23, Zenon DEF Restart
  <2>4. SourceTypeOK'
    BY <1>23, <2>3 DEF Restart, TypeInv, ObservationTypeOK, SourceTypeOK
  <2>5. /\ pc' \in [Observers -> Steps] /\ outcome' \in [Observers -> Outcomes]
        /\ over' \in [Observers -> Overrides]
        /\ expired' \in [Observers -> BOOLEAN] /\ held' \in [Observers -> BOOLEAN]
        /\ stale' \in [Observers -> BOOLEAN]
        /\ seen' \in [Observers -> [Rungs -> Contents]]
        /\ touched' \in [Observers -> SUBSET Rungs]
    BY <1>23, NoOverridesType, UnreadType DEF Restart, Steps, Outcomes
  <2>6. /\ source' \in Sources /\ cursor' \in [Observers -> Cursors \cup {NoCursor, BadCursor}]
        /\ dispatcher' = "none" /\ host' = "open" /\ starter' = NoOne /\ slots' = 0
    BY <1>23 DEF Restart, TypeInv, ObservationTypeOK
  <2> QED BY <2>1, <2>2, <2>3, <2>4, <2>5, <2>6 DEF TypeInv, ObservationTypeOK
<1>24. CASE UNCHANGED vars
  BY <1>24 DEF vars, sourceVars, hostVars, callVars, TypeInv, ObservationTypeOK,
               SourceTypeOK, Holders
<1> QED BY <1>1, <1>2, <1>3, <1>4, <1>5, <1>6, <1>7, <1>8, <1>9, <1>10, <1>12,
           <1>13, <1>14, <1>15, <1>16, <1>17, <1>18, <1>19, <1>20, <1>21, <1>22,
           <1>23, <1>24
        DEF ObservationNext, CallStep, StartStep, DispatcherStep

\* Type correctness of the observer, and with it the bound of its slots.
THEOREM TypeCorrect == ObservationSafety => []ObservationTypeOK
<1>1. TypeInv => ObservationTypeOK
  BY DEF TypeInv
<1> QED BY TypeInit, TypeStep, <1>1, PTL DEF ObservationSafety

-----------------------------------------------------------------------------
(* The order of start, source, dispatcher and Close.                       *)

Order ==
  /\ starter # NoOne => dispatcher = "none" /\ initialized /\ ~failed
  /\ starter \in Observers => pc[starter] = "start"
  /\ ~initialized => dispatcher = "none" /\ phase = "none" /\ ~failed
  /\ initialized /\ ~failed /\ Unlocked => dispatcher # "none"
  /\ dispatcher = "none" /\ Unlocked => phase = "none"
  /\ \A o \in Observers : pc[o] \notin {"idle", "start"} => dispatcher # "none"
  /\ host = "stopping" => dispatcher # "none"
  /\ ClosedLeavesNothing

\* What one Observe call may do, a timer and a hangup included.
CallAction(o) ==
  Call(o) \/ CallRefused(o) \/ CallStep(o) \/ ReadFails(o) \/ Expire(o) \/ Disconnect(o)

\* No call stands anywhere before the source was started.
LEMMA OrderInit == ObservationInit => Order
BY DEF ObservationInit, SourceInit, Order, ClosedLeavesNothing, Unlocked

\* A call moves itself only, never while it is the one that starts the source,
\* and gets past its start only under a running dispatcher.
LEMMA CallMoves ==
  ASSUME TypeInv, Order, NEW o \in Observers, CallAction(o)
  PROVE  /\ UNCHANGED <<sourceVars, hostVars>>
         /\ starter # o
         /\ \E to \in Steps : /\ pc' = [pc EXCEPT ![o] = to]
                              /\ to \in {"idle", "start"} \/ dispatcher # "none"
<1> USE DEF Proceed, Refuse, Return, Order, Unlocked, Steps
<1>1. CASE Call(o)
  BY <1>1 DEF Call
<1>2. CASE CallRefused(o)
  BY <1>2 DEF CallRefused
<1>3. CASE StartReturns(o)
  BY <1>3 DEF StartReturns
<1>4. CASE CheckCursor(o)
  BY <1>4 DEF CheckCursor
<1>5. CASE Capture(o)
  BY <1>5 DEF Capture
<1>6. CASE ReadUserFile(o) \/ ReadMachineFile(o)
  BY <1>6 DEF ReadUserFile, ReadMachineFile, ReadFile
<1>7. CASE ReadFails(o)
  BY <1>7 DEF ReadFails
<1>8. CASE Decide(o)
  BY <1>8 DEF Decide, ReplySnapshot, ReplyUnchanged, NoSlotLeft, Park
<1>9. CASE Wake(o) \/ Expire(o)
  BY <1>9 DEF Wake, Expire
<1>10. CASE AbortOnClose(o) \/ Disconnect(o)
  BY <1>10 DEF AbortOnClose, Disconnect, Abort
<1> QED BY <1>1, <1>2, <1>3, <1>4, <1>5, <1>6, <1>7, <1>8, <1>9, <1>10
        DEF CallAction, CallStep

\* Every step keeps the order of starting, serving and closing.
LEMMA OrderStep == TypeInv /\ Order /\ [ObservationNext]_vars => Order'
<1> SUFFICES ASSUME TypeInv, Order, [ObservationNext]_vars PROVE Order'
  OBVIOUS
<1> USE DEF Unlocked, ClosedLeavesNothing
<1>1. CASE Environment
  <2>1. UNCHANGED hostVars /\ pc' = pc
    BY <1>1 DEF Environment
  <2>2. phase' = phase \/ (phase = "up" /\ phase' = "silent")
    BY <1>1 DEF Environment, SourceWrite, CoveredWrite, BlindWrite, UnreportedWrite,
                Write, SpuriousSignal, GoesSilent, SilentDrift
  <2> QED BY <2>1, <2>2 DEF Order, hostVars
<1>2. ASSUME NEW o \in Observers, CallAction(o) PROVE Order'
  <2>1. PICK to \in Steps : /\ pc' = [pc EXCEPT ![o] = to]
                            /\ to \in {"idle", "start"} \/ dispatcher # "none"
    BY <1>2, CallMoves
  <2>2. UNCHANGED <<sourceVars, hostVars>> /\ starter # o
    BY <1>2, CallMoves
  <2> QED BY <2>1, <2>2 DEF Order, sourceVars, hostVars, TypeInv, ObservationTypeOK
<1>3. ASSUME NEW p \in Observers \cup {Prepare}, StartBegins(p) PROVE Order'
  <2>1. p # NoOne
    OBVIOUS
  <2> QED BY <1>3, <2>1 DEF StartBegins, Order, sourceVars, callVars
<1>4. CASE StartSource
  BY <1>4 DEF StartSource, SourceStarts, Order, hostVars, callVars
<1>5. CASE StartFails
  <2>1. \A o \in Observers : pc'[o] = pc[o] \/ pc'[o] = "idle"
    BY <1>5 DEF StartFails, Refuse, Return, callVars, TypeInv, ObservationTypeOK
  <2> QED BY <1>5, <2>1 DEF StartFails, Order, sourceVars
<1>6. CASE StartPublishes
  <2>1. /\ starter # NoOne /\ dispatcher' = "waiting" /\ starter' = NoOne
        /\ UNCHANGED <<sourceVars, host, initialized, failed>>
    BY <1>6 DEF StartPublishes
  <2>2. host # "closed" /\ initialized
    BY <2>1 DEF Order
  <2>3. NoOne \notin Observers
    OBVIOUS
  <2> QED BY <2>1, <2>2, <2>3 DEF Order, sourceVars
<1>7. CASE DispatchReceives
  BY <1>7 DEF DispatchReceives, DispatchStep, SignalTaken, Order, callVars
<1>8. CASE DispatchFindsClosed \/ DispatchReported \/ DispatchStops
  BY <1>8 DEF DispatchFindsClosed, DispatchReported, DispatchStops, DispatchStep, Order,
              sourceVars, callVars
<1>9. CASE DispatchRings \/ DispatchFails
  BY <1>9 DEF DispatchRings, DispatchFails, DispatchStep, CloseChanged, Order, sourceVars
<1>10. CASE HostCancels \/ HostStops \/ HostJoins
  BY <1>10 DEF HostCancels, HostStops, HostJoins, HostStep, Order, sourceVars, callVars
<1>11. CASE EndSource
  BY <1>11 DEF EndSource, SourceEnds, Order, hostVars, callVars
<1>12. CASE Restart
  BY <1>12 DEF Restart, Order
<1>13. CASE UNCHANGED vars
  BY <1>13 DEF vars, sourceVars, hostVars, callVars, Order
<1> QED BY <1>1, <1>2, <1>3, <1>4, <1>5, <1>6, <1>7, <1>8, <1>9, <1>10, <1>11, <1>12,
           <1>13
        DEF ObservationNext, CallAction, StartStep, DispatcherStep

\* In every reachable state the source, the dispatcher and the host stand in
\* the order startObservation and Host.Close give them.
THEOREM OrderKept == ObservationSafety => [](TypeInv /\ Order)
BY TypeInit, TypeStep, OrderInit, OrderStep, PTL DEF ObservationSafety

\* Nothing of the source outlives Close, whatever start it raced with.
THEOREM CloseLeavesNothing == ObservationSafety => []ClosedLeavesNothing
<1>1. Order => ClosedLeavesNothing
  BY DEF Order
<1> QED BY OrderKept, <1>1, PTL

\* The failure has reached whoever captured the channel.
FailureTold == failed => \A o \in Observers : pc[o] \in Captured => stale[o]

LEMMA FailureToldInit == ObservationInit => FailureTold
BY DEF ObservationInit, FailureTold

\* The dispatcher fails and closes the channel in one step, and a capture finds
\* the failure; a start that fails meets no call that is past its start.
LEMMA FailureToldStep ==
  ASSUME TypeInv, Order, FailureTold, [ObservationNext]_vars
  PROVE  FailureTold'
<1>1. CASE Environment
  BY <1>1 DEF Environment, hostVars, callVars, FailureTold
<1>2. ASSUME NEW p \in Observers, CallAction(p)
      PROVE  FailureTold'
  <2>1. failed' = failed
    BY <1>2, CallMoves DEF hostVars
  <2>2. ASSUME NEW o \in Observers, failed, pc'[o] \in Captured
        PROVE  pc[o] \in Captured /\ stale'[o] = stale[o]
    <3> USE DEF Proceed, Refuse, Return, Captured, TypeInv, ObservationTypeOK
    <3>1. CASE Call(p) \/ CallRefused(p) \/ StartReturns(p) \/ CheckCursor(p)
      BY <2>2, <3>1 DEF Call, CallRefused, StartReturns, CheckCursor
    <3>2. CASE Capture(p)
      BY <2>2, <3>2 DEF Capture
    <3>3. CASE ReadUserFile(p) \/ ReadMachineFile(p) \/ ReadFails(p)
      BY <2>2, <3>3 DEF ReadUserFile, ReadMachineFile, ReadFile, ReadFails
    <3>4. CASE Decide(p)
      BY <2>2, <3>4 DEF Decide, ReplySnapshot, ReplyUnchanged, NoSlotLeft, Park
    <3>5. CASE Wake(p) \/ Expire(p) \/ AbortOnClose(p) \/ Disconnect(p)
      BY <2>2, <3>5 DEF Wake, Expire, AbortOnClose, Disconnect, Abort
    <3> QED BY <1>2, <3>1, <3>2, <3>3, <3>4, <3>5 DEF CallAction, CallStep
  <2> QED BY <2>1, <2>2 DEF FailureTold
<1>3. ASSUME NEW p \in Observers \cup {Prepare}, StartBegins(p)
      PROVE  FailureTold'
  BY <1>3 DEF StartBegins, callVars, FailureTold
<1>4. CASE StartSource
  BY <1>4 DEF StartSource, hostVars, callVars, FailureTold
<1>5. CASE StartFails \/ StartPublishes
  <2>1. \A o \in Observers : pc[o] \notin Captured
    BY <1>5 DEF StartFails, StartPublishes, Order, Unlocked, Captured
  <2>2. \A o \in Observers : pc'[o] \in {pc[o], "idle", "cursor"}
    BY <1>5 DEF StartFails, StartPublishes, Refuse, Return, callVars, TypeInv, ObservationTypeOK
  <2> QED BY <2>1, <2>2 DEF FailureTold, Captured
<1>6. CASE DispatcherStep
  BY <1>6 DEF DispatcherStep, DispatchReceives, DispatchFindsClosed, DispatchRings,
     DispatchFails, DispatchReported, DispatchStops, DispatchStep, CloseChanged, callVars, FailureTold
<1>7. CASE HostCancels \/ HostStops \/ HostJoins
  BY <1>7 DEF HostCancels, HostStops, HostJoins, HostStep, callVars, FailureTold
<1>8. CASE EndSource
  BY <1>8 DEF EndSource, hostVars, callVars, FailureTold
<1>9. CASE Restart
  BY <1>9 DEF Restart, FailureTold
<1>10. CASE UNCHANGED vars
  BY <1>10 DEF vars, hostVars, callVars, FailureTold
<1> QED BY <1>1, <1>2, <1>3, <1>4, <1>5, <1>6, <1>7, <1>8, <1>9, <1>10
        DEF ObservationNext, CallAction, StartStep

\* A failure stays, and nobody goes on to read files after it.
THEOREM FailureStays == ObservationSafety => FailureIsFinal
<1>1. ASSUME TypeInv, Order, [ObservationNext]_vars, failed, epoch' = epoch
      PROVE  /\ failed'
             /\ \A o \in Observers : pc[o] \in {"start", "loop"} => pc'[o] \in {pc[o], "idle"}
  <2>1. CASE Environment
    BY <1>1, <2>1 DEF Environment, hostVars
  <2>2. ASSUME NEW p \in Observers, CallAction(p)
        PROVE  failed' /\ \A o \in Observers :
                 pc[o] \in {"start", "loop"} => pc'[o] \in {pc[o], "idle"}
    <3>1. failed'
      BY <1>1, <2>2, CallMoves DEF hostVars
    <3>2. ASSUME NEW o \in Observers, o # p PROVE pc'[o] = pc[o]
      <4>1. PICK to \in Steps : /\ pc' = [pc EXCEPT ![p] = to]
                                /\ to \in {"idle", "start"} \/ dispatcher # "none"
        BY <1>1, <2>2, CallMoves
      <4>2. pc \in [Observers -> Steps]
        BY <1>1 DEF TypeInv, ObservationTypeOK
      <4> QED BY <3>2, <4>1, <4>2
    <3>3. pc[p] \in {"start", "loop"} => pc'[p] \in {pc[p], "idle"}
      BY <1>1, <2>2 DEF CallAction, Call, CallRefused, CallStep, StartReturns, CheckCursor,
         Capture, ReadUserFile, ReadMachineFile, ReadFile, ReadFails, Decide, Wake, Expire,
         AbortOnClose, Disconnect, Abort, Proceed, Refuse, Return, TypeInv, ObservationTypeOK
    <3> QED BY <3>1, <3>2, <3>3
  <2>3. ASSUME NEW p \in Observers \cup {Prepare}, StartBegins(p)
        PROVE  failed' /\ pc' = pc
    BY <1>1, <2>3 DEF StartBegins, callVars
  <2>4. CASE StartSource
    BY <1>1, <2>4 DEF StartSource, hostVars, callVars
  <2>5. CASE StartFails \/ StartPublishes
    BY <1>1, <2>5 DEF StartFails, StartPublishes, Order, Unlocked
  <2>6. CASE DispatcherStep
    BY <1>1, <2>6 DEF DispatcherStep, DispatchReceives, DispatchFindsClosed, DispatchRings,
       DispatchFails, DispatchReported, DispatchStops, DispatchStep, CloseChanged, callVars
  <2>7. CASE HostCancels \/ HostStops \/ HostJoins
    BY <1>1, <2>7 DEF HostCancels, HostStops, HostJoins, HostStep, callVars
  <2>8. CASE EndSource
    BY <1>1, <2>8 DEF EndSource, hostVars, callVars
  <2>9. CASE Restart
    BY <1>1, <2>9 DEF Restart, TypeInv, ObservationTypeOK
  <2>10. CASE UNCHANGED vars
    BY <1>1, <2>10 DEF vars, hostVars, callVars
  <2> QED BY <1>1, <2>1, <2>2, <2>3, <2>4, <2>5, <2>6, <2>7, <2>8, <2>9, <2>10
          DEF ObservationNext, CallAction, StartStep
<1>2. TypeInv /\ Order /\ FailureTold /\ [ObservationNext]_vars =>
        [/\ failed /\ epoch' = epoch =>
              /\ failed'
              /\ \A o \in Observers :
                   pc[o] \in {"start", "loop"} => pc'[o] \in {pc[o], "idle"}
         /\ failed' => \A o \in Observers : pc'[o] \in Captured => stale'[o]]_vars
  <2>1. FailureTold' => (failed' => \A o \in Observers : pc'[o] \in Captured => stale'[o])
    BY DEF FailureTold
  <2> QED BY <1>1, <2>1, FailureToldStep
<1>3. TypeInv /\ Order /\ FailureTold /\ [ObservationNext]_vars => FailureTold'
  BY FailureToldStep
<1> QED BY <1>2, <1>3, OrderKept, FailureToldInit, PTL DEF ObservationSafety, FailureIsFinal

-----------------------------------------------------------------------------
(* What a call knows between its steps.                                    *)

HasRead(o, r) == \/ pc[o] \in {"decide", "parked"}
                 \/ pc[o] = "readMachine" /\ r = User

\* The cursor of a call past its check is of this process and these overrides.
OwnCursor(o) ==
  pc[o] \in {"loop"} \cup Captured /\ cursor[o] \in Cursors =>
    cursor[o].epoch = epoch /\ cursor[o].over = over[o]

Unanswered(o) == pc[o] # "idle" => outcome[o] = "none"

\* A parked call holds a slot, and waits because its cursor is what it read.
ParkedKnows(o) == pc[o] = "parked" => held[o] /\ cursor[o] = NextCursor(o)

\* What was read is in the file still, or was changed since.
ReadsFresh(o) ==
  \A r \in Rungs : HasRead(o, r) => seen[o][r] = files[r] \/ r \in touched[o]

\* What was read since the channel was captured is in the file still, or the
\* channel is closed, or a signal will close it, or nothing looks at the file.
ReadsCovered(o) ==
  \A r \in Rungs :
    HasRead(o, r) /\ ~stale[o] /\ Serving =>
      seen[o][r] = files[r] \/ r \in blind \/ owed \/ dispatcher = "ringing"

Knows(o) == OwnCursor(o) /\ Unanswered(o) /\ ParkedKnows(o) /\ ReadsFresh(o) /\ ReadsCovered(o)

IInv == TypeInv /\ Order /\ \A o \in Observers : Knows(o)

\* Initially no call has read anything.
LEMMA KnowsInit == ObservationInit => \A o \in Observers : Knows(o)
BY DEF ObservationInit, Knows, OwnCursor, Unanswered, ParkedKnows, ReadsFresh, ReadsCovered,
       HasRead, Captured

\* An idle call knows nothing.
LEMMA IdleKnows ==
  ASSUME NEW o, pc'[o] = "idle"
  PROVE  Knows(o)'
BY DEF Knows, OwnCursor, Unanswered, ParkedKnows, ReadsFresh, ReadsCovered, HasRead, Captured

\* The variables of a call are as they were.
Untouched(o) ==
  /\ pc'[o] = pc[o] /\ cursor'[o] = cursor[o] /\ over'[o] = over[o] /\ held'[o] = held[o]
  /\ stale'[o] = stale[o] /\ seen'[o] = seen[o] /\ outcome'[o] = outcome[o]
  /\ touched'[o] = touched[o]

\* A step elsewhere that leaves the files alone and the service no nearer to
\* serving, and that forgets no signal, leaves a call with what it knows.
LEMMA UntouchedKnows ==
  ASSUME NEW o, Knows(o), Untouched(o), files' = files, epoch' = epoch,
         Serving' => Serving /\ blind' = blind
                     /\ (owed \/ dispatcher = "ringing" => owed' \/ dispatcher' = "ringing")
  PROVE  Knows(o)'
<1>1. \A r : HasRead(o, r)' <=> HasRead(o, r)
  BY DEF Untouched, HasRead
<1>2. NextCursor(o)' = NextCursor(o)
  BY DEF Untouched, NextCursor
<1>3. OwnCursor(o)' /\ Unanswered(o)' /\ ParkedKnows(o)'
  BY <1>2 DEF Knows, Untouched, OwnCursor, Unanswered, ParkedKnows
<1>4. ReadsFresh(o)'
  BY <1>1 DEF Knows, Untouched, ReadsFresh
<1>5. ReadsCovered(o)'
  BY <1>1 DEF Knows, Untouched, ReadsCovered
<1> QED BY <1>3, <1>4, <1>5 DEF Knows

\* A call that moves leaves the others alone.
LEMMA OthersUntouched ==
  ASSUME IInv, NEW p \in Observers, CallAction(p), NEW o \in Observers \ {p}
  PROVE  Untouched(o)
<1> USE DEF Untouched, Proceed, Refuse, Return, IInv, TypeInv, ObservationTypeOK
<1>1. CASE Call(p)
  BY <1>1 DEF Call
<1>2. CASE CallRefused(p) \/ StartReturns(p)
  BY <1>2 DEF CallRefused, StartReturns
<1>3. CASE CheckCursor(p) \/ Capture(p)
  BY <1>3 DEF CheckCursor, Capture
<1>4. CASE ReadUserFile(p) \/ ReadMachineFile(p)
  BY <1>4 DEF ReadUserFile, ReadMachineFile, ReadFile
<1>5. CASE Decide(p)
  BY <1>5 DEF Decide, ReplySnapshot, ReplyUnchanged, NoSlotLeft, Park
<1>6. CASE Wake(p) \/ Expire(p)
  BY <1>6 DEF Wake, Expire
<1>7. CASE ReadFails(p) \/ AbortOnClose(p) \/ Disconnect(p)
  BY <1>7 DEF ReadFails, AbortOnClose, Disconnect, Abort
<1> QED BY <1>1, <1>2, <1>3, <1>4, <1>5, <1>6, <1>7 DEF CallAction, CallStep

\* A call that has not come to its loop knows only that it is unanswered.
LEMMA EarlyKnows ==
  ASSUME NEW o, pc'[o] \in {"start", "cursor"}, outcome'[o] = "none"
  PROVE  Knows(o)'
BY DEF Knows, OwnCursor, Unanswered, ParkedKnows, ReadsFresh, ReadsCovered, HasRead, Captured

\* A change of a file is in `touched`, and owed a signal or not looked at.
LEMMA EnvironmentKnows ==
  ASSUME IInv, Environment, NEW o \in Observers
  PROVE  Knows(o)'
<1>1. /\ pc'[o] = pc[o] /\ cursor'[o] = cursor[o] /\ over'[o] = over[o] /\ held'[o] = held[o]
      /\ stale'[o] = stale[o] /\ seen'[o] = seen[o] /\ outcome'[o] = outcome[o]
      /\ epoch' = epoch /\ dispatcher' = dispatcher /\ host' = host
  BY DEF Environment, hostVars
<1>2. \A r : HasRead(o, r)' <=> HasRead(o, r)
  BY <1>1 DEF HasRead
<1>3. Knows(o)
  BY DEF IInv
<1>4. OwnCursor(o)' /\ Unanswered(o)' /\ ParkedKnows(o)'
  BY <1>1, <1>3 DEF Knows, OwnCursor, Unanswered, ParkedKnows, NextCursor
<1>5. ReadsFresh(o)'
  <2> SUFFICES ASSUME NEW r \in Rungs, HasRead(o, r)
               PROVE  seen[o][r] = files'[r] \/ r \in touched'[o]
    BY <1>1, <1>2 DEF ReadsFresh
  <2>1. pc[o] # "idle"
    BY DEF HasRead
  <2>2. touched'[o] = touched[o] \cup {q \in Rungs : files'[q] # files[q]}
    BY <2>1 DEF Environment
  <2> QED BY <1>3, <2>2 DEF Knows, ReadsFresh
<1>6. ReadsCovered(o)'
  <2> SUFFICES ASSUME NEW r \in Rungs, HasRead(o, r), ~stale[o], Serving'
               PROVE  seen[o][r] = files'[r] \/ r \in blind' \/ owed' \/ dispatcher = "ringing"
    BY <1>1, <1>2 DEF ReadsCovered
  <2>1. CASE SourceWrite
    <3>1. PICK q \in Rungs, c \in Contents :
            CoveredWrite(q, c) \/ BlindWrite(q, c) \/ UnreportedWrite(q, c)
      BY <2>1 DEF SourceWrite
    <3>2. CASE CoveredWrite(q, c)
      BY <3>2 DEF CoveredWrite
    <3>3. CASE BlindWrite(q, c)
      <4>1. Serving
        BY <1>1, <3>3 DEF BlindWrite, Write, Serving
      <4>2. seen[o][r] = files[r] \/ r \in blind \/ owed \/ dispatcher = "ringing"
        BY <1>3, <4>1 DEF Knows, ReadsCovered
      <4>3. r # q => files'[r] = files[r]
        BY <3>3 DEF BlindWrite, Write, IInv, TypeInv, ObservationTypeOK, SourceTypeOK
      <4> QED BY <3>3, <4>2, <4>3 DEF BlindWrite
    <3>4. CASE UnreportedWrite(q, c)
      BY <3>4 DEF UnreportedWrite, Write, Serving
    <3> QED BY <3>1, <3>2, <3>3, <3>4
  <2>2. CASE SpuriousSignal
    BY <2>2 DEF SpuriousSignal
  <2>3. CASE GoesSilent \/ SilentDrift
    BY <2>3 DEF GoesSilent, SilentDrift, Serving
  <2> QED BY <2>1, <2>2, <2>3 DEF Environment
<1> QED BY <1>4, <1>5, <1>6 DEF Knows

\* The call that moves keeps what it knew, learns what it reads, and parks on a
\* channel it captured before it read.
LEMMA MoverKnows ==
  ASSUME IInv, NEW o \in Observers, CallAction(o)
  PROVE  Knows(o)'
<1>k. Knows(o)
  BY DEF IInv
<1>s. UNCHANGED <<sourceVars, hostVars>>
  BY CallMoves DEF IInv
<1>u. Serving' <=> Serving
  BY <1>s DEF Serving, sourceVars, hostVars
<1>r. ASSUME NEW out, Return(o, out) PROVE Knows(o)'
  BY <1>r, IdleKnows DEF Return, IInv, TypeInv, ObservationTypeOK
<1> USE DEF Refuse
<1>1. CASE Call(o)
  BY <1>1, EarlyKnows DEF Call, Proceed, IInv, TypeInv, ObservationTypeOK
<1>2. CASE CallRefused(o) \/ ReadFails(o) \/ AbortOnClose(o) \/ Disconnect(o)
  BY <1>2, <1>r DEF CallRefused, ReadFails, AbortOnClose, Disconnect, Abort
<1>3. CASE StartReturns(o)
  <2>1. CASE Proceed(o, "start", "cursor") /\ UNCHANGED outcome
    BY <2>1, <1>k, EarlyKnows
       DEF Proceed, Knows, Unanswered, IInv, TypeInv, ObservationTypeOK
  <2> QED BY <1>3, <1>r, <2>1 DEF StartReturns
<1>4. CASE CheckCursor(o)
  <2>1. CASE /\ \/ cursor[o] = NoCursor
                \/ /\ cursor[o] \in Cursors
                   /\ cursor[o].epoch = epoch /\ cursor[o].over = over[o]
             /\ Proceed(o, "cursor", "loop")
             /\ UNCHANGED <<cursor, over, expired, held, slots, stale, seen, outcome, touched>>
    <3>1. pc[o] = "cursor" /\ pc'[o] = "loop"
      BY <2>1 DEF Proceed, IInv, TypeInv, ObservationTypeOK
    <3>2. OwnCursor(o)'
      BY <2>1, <1>s DEF OwnCursor, hostVars
    <3> QED BY <2>1, <3>1, <3>2, <1>k
            DEF Knows, Unanswered, ParkedKnows, ReadsFresh, ReadsCovered, HasRead
  <2> QED BY <1>4, <1>r, <2>1 DEF CheckCursor
<1>5. CASE Capture(o)
  <2>1. CASE /\ Proceed(o, "loop", "readUser")
             /\ UNCHANGED <<cursor, over, outcome>>
    <3>1. pc[o] = "loop" /\ pc'[o] = "readUser"
      BY <2>1 DEF Proceed, IInv, TypeInv, ObservationTypeOK
    <3> QED BY <2>1, <3>1, <1>k, <1>s
            DEF Knows, OwnCursor, Unanswered, ParkedKnows, ReadsFresh, ReadsCovered, HasRead,
                Captured, hostVars
  <2> QED BY <1>5, <1>r, <2>1 DEF Capture
<1>6. CASE ReadUserFile(o)
  <2>1. /\ pc[o] = "readUser" /\ pc'[o] = "readMachine" /\ seen'[o][User] = files[User]
        /\ UNCHANGED <<cursor, over, outcome>>
    BY <1>6 DEF ReadUserFile, ReadFile, Proceed, Rungs, IInv, TypeInv, ObservationTypeOK
  <2> QED BY <2>1, <1>k, <1>s
          DEF Knows, OwnCursor, Unanswered, ParkedKnows, ReadsFresh, ReadsCovered, HasRead,
              Captured, hostVars, sourceVars
<1>7. CASE ReadMachineFile(o)
  <2>1. /\ pc[o] = "readMachine" /\ pc'[o] = "decide"
        /\ seen'[o][Machine] = files[Machine] /\ seen'[o][User] = seen[o][User]
        /\ UNCHANGED <<cursor, over, outcome, stale, touched>>
    BY <1>7 DEF ReadMachineFile, ReadFile, Proceed, Rungs, Machine, User, IInv, TypeInv,
                ObservationTypeOK
  <2>2. OwnCursor(o)' /\ Unanswered(o)' /\ ParkedKnows(o)'
    BY <2>1, <1>k, <1>s DEF Knows, OwnCursor, Unanswered, ParkedKnows, Captured, hostVars
  <2>3. ReadsFresh(o)'
    BY <2>1, <1>k, <1>s DEF Knows, ReadsFresh, HasRead, Rungs, sourceVars
  <2>4. ReadsCovered(o)'
    BY <2>1, <1>k, <1>s, <1>u DEF Knows, ReadsCovered, HasRead, Rungs, sourceVars, hostVars
  <2> QED BY <2>2, <2>3, <2>4 DEF Knows
<1>8. CASE Decide(o)
  <2>1. CASE Park(o)
    <3>1. /\ pc[o] = "decide" /\ pc'[o] = "parked" /\ held'[o]
          /\ NextCursor(o) = cursor[o]
          /\ UNCHANGED <<cursor, over, stale, seen, outcome, touched>>
      BY <2>1 DEF Park, Proceed, IInv, TypeInv, ObservationTypeOK
    <3>2. NextCursor(o)' = NextCursor(o)
      BY <3>1, <1>s DEF NextCursor, hostVars
    <3>3. OwnCursor(o)' /\ Unanswered(o)' /\ ParkedKnows(o)'
      BY <3>1, <3>2, <1>k, <1>s DEF Knows, OwnCursor, Unanswered, ParkedKnows, Captured, hostVars
    <3>4. ReadsFresh(o)'
      BY <3>1, <1>k, <1>s DEF Knows, ReadsFresh, HasRead, sourceVars
    <3>5. ReadsCovered(o)'
      BY <3>1, <1>k, <1>s, <1>u DEF Knows, ReadsCovered, HasRead, sourceVars, hostVars
    <3> QED BY <3>3, <3>4, <3>5 DEF Knows
  <2>2. CASE ReplySnapshot(o) \/ ReplyUnchanged(o) \/ NoSlotLeft(o)
    BY <2>2, <1>r DEF ReplySnapshot, ReplyUnchanged, NoSlotLeft
  <2> QED BY <1>8, <2>1, <2>2 DEF Decide
<1>9. CASE Wake(o) \/ Expire(o)
  <2>1. /\ pc[o] = "parked" /\ pc'[o] = "loop" /\ UNCHANGED <<cursor, over, outcome>>
    BY <1>9 DEF Wake, Expire, Proceed, IInv, TypeInv, ObservationTypeOK
  <2> QED BY <2>1, <1>k, <1>s
          DEF Knows, OwnCursor, Unanswered, ParkedKnows, ReadsFresh, ReadsCovered, HasRead,
              Captured, hostVars
<1> QED BY <1>1, <1>2, <1>3, <1>4, <1>5, <1>6, <1>7, <1>8, <1>9 DEF CallAction, CallStep

\* Every step keeps what each call knows: the mover by its own lemma, every
\* other call because its variables stay.
LEMMA KnowsStep == IInv /\ [ObservationNext]_vars => \A o \in Observers : Knows(o)'
<1> SUFFICES ASSUME IInv, [ObservationNext]_vars, NEW o \in Observers PROVE Knows(o)'
  OBVIOUS
<1>k. Knows(o)
  BY DEF IInv
<1>o. Order
  BY DEF IInv
<1>f. /\ \A r : HasRead(o, r) => pc[o] \in Captured
      /\ pc[o] \in Captured => dispatcher # "none"
  BY <1>o DEF HasRead, Captured, Order
<1>1. CASE Environment
  BY <1>1, EnvironmentKnows
<1>2. ASSUME NEW p \in Observers, CallAction(p) PROVE Knows(o)'
  <2>1. CASE p = o
    BY <1>2, <2>1, MoverKnows
  <2>2. CASE p # o
    <3>1. UNCHANGED <<sourceVars, hostVars>>
      BY <1>2, CallMoves DEF IInv
    <3>2. Serving' <=> Serving
      BY <3>1 DEF Serving, sourceVars, hostVars
    <3> QED BY <1>2, <1>k, <2>2, <3>1, <3>2, OthersUntouched, UntouchedKnows
            DEF sourceVars, hostVars
  <2> QED BY <2>1, <2>2
<1>3. ASSUME NEW p \in Observers \cup {Prepare}, StartBegins(p) PROVE Knows(o)'
  BY <1>3, <1>k, UntouchedKnows DEF StartBegins, Untouched, Serving, sourceVars, callVars
<1>4. CASE StartSource
  BY <1>4, <1>k, UntouchedKnows
     DEF StartSource, SourceStarts, Untouched, Serving, hostVars, callVars
<1>5. CASE StartFails
  <2>1. dispatcher = "none" /\ dispatcher' = "none" /\ UNCHANGED sourceVars /\ epoch' = epoch
    BY <1>5, <1>o DEF StartFails, Order, Unlocked
  <2>2. CASE starter = o
    <3>1. pc'[o] = "idle"
      BY <1>5, <2>2 DEF StartFails, Refuse, Return, IInv, TypeInv, ObservationTypeOK
    <3> QED BY <3>1, IdleKnows
  <2>3. CASE starter # o
    <3>1. Untouched(o)
      <4>1. CASE starter = Prepare
        BY <1>5, <4>1 DEF StartFails, Untouched, callVars
      <4>2. CASE starter # Prepare
        BY <1>5, <2>3, <4>2
           DEF StartFails, Refuse, Return, Untouched, IInv, TypeInv, ObservationTypeOK
      <4> QED BY <4>1, <4>2
    <3> QED BY <1>k, <2>1, <3>1, UntouchedKnows DEF Serving, sourceVars
  <2> QED BY <2>2, <2>3
<1>6. CASE StartPublishes
  <2>1. pc[o] \in {"idle", "start"}
    BY <1>6, <1>o DEF StartPublishes, Order, Unlocked
  <2>2. pc'[o] = pc[o] \/ (starter = o /\ pc'[o] = "cursor")
    BY <1>6 DEF StartPublishes, IInv, TypeInv, ObservationTypeOK
  <2>3. starter = o => pc[o] = "start"
    BY <1>o DEF Order
  <2>4. pc[o] # "idle" => outcome'[o] = "none"
    BY <1>6, <1>k DEF StartPublishes, Knows, Unanswered
  <2> QED BY <2>1, <2>2, <2>3, <2>4, IdleKnows, EarlyKnows
<1>7. CASE DispatchReceives
  BY <1>7, <1>k, UntouchedKnows
     DEF DispatchReceives, DispatchStep, SignalTaken, Untouched, Serving, callVars
<1>8. CASE DispatchFindsClosed \/ DispatchReported \/ DispatchStops
  BY <1>8, <1>k, UntouchedKnows
     DEF DispatchFindsClosed, DispatchReported, DispatchStops, DispatchStep, Untouched,
         Serving, sourceVars, callVars
<1>9. CASE DispatchRings \/ DispatchFails
  <2>1. /\ UNCHANGED <<sourceVars, epoch, pc, cursor, over, held, seen, outcome, touched>>
        /\ stale'[o] = (pc[o] \in Captured)
    BY <1>9 DEF DispatchRings, DispatchFails, DispatchStep, CloseChanged
  <2>2. OwnCursor(o)' /\ Unanswered(o)' /\ ParkedKnows(o)' /\ ReadsFresh(o)'
    BY <2>1, <1>k DEF Knows, OwnCursor, Unanswered, ParkedKnows, ReadsFresh, HasRead,
                      NextCursor, sourceVars
  <2>3. ReadsCovered(o)'
    <3>1. \A r : HasRead(o, r)' => stale'[o]
      BY <2>1 DEF HasRead, Captured
    <3> QED BY <3>1 DEF ReadsCovered
  <2> QED BY <2>2, <2>3 DEF Knows
<1>10. CASE HostCancels \/ HostStops \/ HostJoins
  BY <1>10, <1>k, UntouchedKnows
     DEF HostCancels, HostStops, HostJoins, HostStep, Untouched, Serving, sourceVars, callVars
<1>11. CASE EndSource
  BY <1>11, <1>k, UntouchedKnows
     DEF EndSource, SourceEnds, Untouched, Serving, hostVars, callVars
<1>12. CASE Restart
  BY <1>12, IdleKnows DEF Restart
<1>13. CASE UNCHANGED vars
  BY <1>13, <1>k, UntouchedKnows
     DEF vars, Untouched, Serving, sourceVars, hostVars, callVars
<1> QED BY <1>1, <1>2, <1>3, <1>4, <1>5, <1>6, <1>7, <1>8, <1>9, <1>10, <1>11, <1>12,
           <1>13
        DEF ObservationNext, CallAction, StartStep, DispatcherStep

\* The inductive invariant of the observer holds in every reachable state.
THEOREM Invariance == ObservationSafety => []IInv
<1>1. ObservationInit => IInv
  BY TypeInit, OrderInit, KnowsInit DEF IInv
<1>2. IInv /\ [ObservationNext]_vars => IInv'
  BY TypeStep, OrderStep, KnowsStep DEF IInv
<1> QED BY <1>1, <1>2, PTL DEF ObservationSafety

-----------------------------------------------------------------------------
(* What callers rely on.                                                   *)

\* No wakeup is lost, whatever the order of the change, its signal, the reads
\* and the wait.
THEOREM WakeupsKept == ObservationSafety => []NoLostWakeup
<1>1. ASSUME IInv, NEW o \in Observers, pc[o] = "parked", Serving,
             Current(over[o]) # cursor[o].answer, ~stale[o]
      PROVE  owed \/ dispatcher = "ringing" \/ blind # {}
  <2>1. Knows(o) /\ HasRead(o, Machine) /\ HasRead(o, User)
    BY <1>1 DEF IInv, HasRead
  <2>2. cursor[o].answer = Answer(seen[o][Machine], seen[o][User], over[o])
    BY <1>1, <2>1 DEF Knows, ParkedKnows, NextCursor
  <2>3. seen[o][Machine] # files[Machine] \/ seen[o][User] # files[User]
    BY <1>1, <2>2 DEF Current
  <2> QED BY <1>1, <2>1, <2>3 DEF Knows, ReadsCovered, Rungs
<1>2. IInv => NoLostWakeup
  BY <1>1 DEF NoLostWakeup
<1> QED BY <1>2, Invariance, PTL

\* No return leaks a slot and no call waits without one.
THEOREM SlotsKept == ObservationSafety => []SlotsAccounted
<1>1. IInv => SlotsAccounted
  BY DEF IInv, TypeInv, Holders, Knows, ParkedKnows, SlotsAccounted
<1> QED BY <1>1, Invariance, PTL

\* No answer is older than its call, or than the expiry of its wait.
THEOREM AnswersFresh == ObservationSafety => []AnswersAreFresh
<1>1. IInv => AnswersAreFresh
  BY DEF IInv, Knows, ReadsFresh, HasRead, AnswersAreFresh
<1> QED BY <1>1, Invariance, PTL

\* Only a call whose cursor is of this process and of its overrides is told
\* `snapshot` or `unchanged` against it.
THEOREM ForeignCursorsRefused == ObservationSafety => ForeignCursorRefused
<1>1. ASSUME IInv, [ObservationNext]_vars, NEW o \in Observers, cursor[o] \in Cursors,
             pc[o] # "idle", outcome'[o] \in {"snapshot", "unchanged"}
      PROVE  cursor[o].epoch = epoch /\ cursor[o].over = over[o]
  <2>0. outcome[o] = "none"
    BY <1>1 DEF IInv, Knows, Unanswered
  <2>1. ASSUME outcome'[o] = outcome[o] PROVE FALSE
    BY <1>1, <2>0, <2>1
  <2>2. ASSUME NEW p \in Observers, CallAction(p), p # o PROVE FALSE
    BY <1>1, <2>1, <2>2, OthersUntouched DEF Untouched
  <2>3. ASSUME CallAction(o), pc[o] # "decide" PROVE FALSE
    BY <1>1, <2>0, <2>3
       DEF CallAction, Call, CallRefused, CallStep, StartReturns, CheckCursor, Capture,
           ReadUserFile, ReadMachineFile, ReadFile, ReadFails, Decide, Wake, Expire,
           AbortOnClose, Disconnect, Abort, Proceed, Refuse, Return, IInv, TypeInv,
           ObservationTypeOK
  <2>4. CASE CallAction(o) /\ pc[o] = "decide"
    BY <1>1, <2>4 DEF IInv, Knows, OwnCursor, Captured
  <2>5. CASE Environment
    BY <2>1, <2>5 DEF Environment
  <2>6. ASSUME NEW p \in Observers \cup {Prepare}, StartBegins(p) PROVE FALSE
    BY <2>1, <2>6 DEF StartBegins, callVars
  <2>7. CASE StartFails
    BY <1>1, <2>1, <2>7 DEF StartFails, Refuse, Return, callVars, IInv, TypeInv,
                            ObservationTypeOK
  <2>8. CASE StartSource \/ StartPublishes
    BY <2>1, <2>8 DEF StartSource, StartPublishes, callVars
  <2>9. CASE DispatcherStep
    BY <2>1, <2>9 DEF DispatcherStep, DispatchReceives, DispatchFindsClosed, DispatchRings,
       DispatchFails, DispatchReported, DispatchStops, CloseChanged, callVars
  <2>10. CASE HostCancels \/ HostStops \/ HostJoins \/ EndSource
    BY <2>1, <2>10 DEF HostCancels, HostStops, HostJoins, HostStep, EndSource, callVars
  <2>11. CASE Restart
    BY <1>1, <2>11 DEF Restart
  <2>12. CASE UNCHANGED vars
    BY <2>1, <2>12 DEF vars, callVars
  <2> QED BY <1>1, <2>2, <2>3, <2>4, <2>5, <2>6, <2>7, <2>8, <2>9, <2>10, <2>11, <2>12
          DEF ObservationNext, CallAction, StartStep
<1>2. IInv /\ [ObservationNext]_vars =>
        [\A o \in Observers :
           /\ cursor[o] \in Cursors /\ pc[o] # "idle"
           /\ outcome'[o] \in {"snapshot", "unchanged"}
           => cursor[o].epoch = epoch /\ cursor[o].over = over[o]]_vars
  BY <1>1
<1> QED BY <1>2, Invariance, PTL DEF ObservationSafety, ForeignCursorRefused
=============================================================================
