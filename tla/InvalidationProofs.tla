------------------------- MODULE InvalidationProofs -------------------------
(***************************************************************************)
(* The subscription of Invalidation, for any contents, edits of the process *)
(* and number of changes.                                                  *)
(***************************************************************************)
EXTENDS Invalidation, TLAPS

USE ContentsAssumption, MaxWritesAssumption

-----------------------------------------------------------------------------
(* The inductive invariant.                                                *)

\* Who is there when: the reader before the subscription, the subscription
\* listed until Close has begun, its channel closed by its goroutine alone.
LifeCycle ==
  /\ teller # "none" => reader # "none"
  /\ closed <=> teller = "done"
  /\ teller = "none" => closing = "no"
  /\ teller # "none" /\ closing = "no" => live
  /\ closing # "no" => ~live
  /\ closing = "closed" => teller = "done"
  /\ teller = "done" => closing \in {"cancelled", "stopped", "closed"}

InvalidationInv == InvalidationTypeOK /\ LifeCycle /\ NoChangeForgotten

USE DEF InvalidationTypeOK, LifeCycle

\* Nobody has subscribed and nobody has written.
LEMMA InvalidationStarts == InvalidationInit => InvalidationInv
<1> SUFFICES ASSUME InvalidationInit PROVE InvalidationInv
  OBVIOUS
<1>1. files \in [Rungs -> Contents] /\ writes \in 0 .. MaxWrites
  BY DEF InvalidationInit
<1>2. announcing \in [Editors -> {"idle", "wrote", "signalling"}]
  BY DEF InvalidationInit
<1>3. LifeCycle
  BY DEF InvalidationInit
<1>4. InvalidationTypeOK
  <2>0. dirs \subseteq Rungs
    BY DEF InvalidationInit
  <2>1. open = {} /\ watched = {} /\ unseen = {} /\ blind = {}
    BY DEF InvalidationInit
  <2>2. reader = "none" /\ teller = "none" /\ closing = "no" /\ changes = 0
    BY DEF InvalidationInit
  <2>3. kernel \in BOOLEAN /\ events \in BOOLEAN
    BY DEF InvalidationInit
  <2>4. closed \in BOOLEAN /\ live \in BOOLEAN
    BY DEF InvalidationInit
  <2> QED
    BY <1>1, <1>2, <2>0, <2>1, <2>2, <2>3, <2>4
<1> QED
  BY <1>3, <1>4 DEF InvalidationInit, InvalidationInv, NoChangeForgotten

\* A change that some mechanism looks at leaves a signal somewhere; one that
\* none looks at is none of the history's.
LEMMA ForeignKeeps ==
  ASSUME InvalidationInv, ForeignStep
  PROVE  InvalidationInv'
<1> USE DEF InvalidationInv, disk, pipeline, membership, history
<1>1. ASSUME NEW r \in Rungs, NEW c \in Contents, ForeignReplace(r, c) PROVE InvalidationInv'
  <2>1. InvalidationTypeOK' /\ LifeCycle'
    BY <1>1 DEF ForeignReplace, Change, Event
  <2>2. /\ r \in watched => kernel'
        /\ r \notin watched => unseen' = unseen
        /\ kernel => kernel'
        /\ UNCHANGED <<open, watched, events, teller, changes, announcing, reader, live, closing>>
    BY <1>1 DEF ForeignReplace, Change, Event
  <2> QED
    BY <2>1, <2>2 DEF NoChangeForgotten, Delivering, Pending
<1>2. ASSUME NEW r \in Rungs, NEW c \in Contents, ForeignWriteInPlace(r, c) PROVE InvalidationInv'
  <2>0. kernel' \in BOOLEAN
    BY <1>2 DEF ForeignWriteInPlace, Event
  <2>1. InvalidationTypeOK' /\ LifeCycle'
    BY <1>2, <2>0 DEF ForeignWriteInPlace, Change
  <2>2. open \cap watched # {} => open' \cap watched # {}
    BY <1>2 DEF ForeignWriteInPlace
  <2>3. r \in watched => open' \cap watched # {}
    BY <1>2 DEF ForeignWriteInPlace
  <2>4. kernel => kernel'
    BY <1>2 DEF ForeignWriteInPlace, Event
  <2> QED
    BY <1>2, <2>1, <2>2, <2>3, <2>4
    DEF ForeignWriteInPlace, Change, NoChangeForgotten, Delivering, Pending
<1>3. ASSUME NEW r \in Rungs, ForeignCloseFile(r) PROVE InvalidationInv'
  <2>1. InvalidationTypeOK' /\ LifeCycle'
    BY <1>3 DEF ForeignCloseFile, Event
  <2>2. open \cap watched # {} => kernel' \/ open' \cap watched # {}
    BY <1>3 DEF ForeignCloseFile, Event
  <2> QED
    BY <1>3, <2>1, <2>2 DEF ForeignCloseFile, Event, NoChangeForgotten, Delivering, Pending
<1>4. ASSUME NEW r \in Rungs, ForeignRemoveDir(r) PROVE InvalidationInv'
  <2>1. InvalidationTypeOK' /\ LifeCycle'
    BY <1>4 DEF ForeignRemoveDir, Event
  <2>2. open \cap watched # {} => kernel' \/ open' \cap watched' # {}
    BY <1>4 DEF ForeignRemoveDir, Event
  <2> QED
    BY <1>4, <2>1, <2>2 DEF ForeignRemoveDir, Event, NoChangeForgotten, Delivering, Pending
<1>5. ASSUME NEW c \in Contents, ForeignChown(c) PROVE InvalidationInv'
  BY <1>5 DEF ForeignChown, Change, NoChangeForgotten, Delivering, Pending, Machine, Rungs
<1> QED
  BY <1>1, <1>2, <1>3, <1>4, <1>5 DEF ForeignStep

\* An edit of this process announces itself, and is not told off while the
\* subscription is listed.
LEMMA EditKeeps ==
  ASSUME InvalidationInv, EditStep
  PROVE  InvalidationInv'
<1> USE DEF InvalidationInv, disk, pipeline, membership, history
<1>1. ASSUME NEW e \in Editors, NEW c \in Contents, EditWrite(e, c) PROVE InvalidationInv'
  <2>1. InvalidationTypeOK' /\ LifeCycle'
    BY <1>1 DEF EditWrite, Change, Event, User, Rungs
  <2>2. announcing'[e] # "idle"
    BY <1>1 DEF EditWrite
  <2> QED
    BY <2>1, <2>2 DEF NoChangeForgotten, Pending
<1>2. ASSUME NEW e \in Editors, AnnounceCopies(e) PROVE InvalidationInv'
  <2>1. InvalidationTypeOK' /\ LifeCycle'
    BY <1>2 DEF AnnounceCopies
  <2>2. live => announcing'[e] # "idle"
    BY <1>2 DEF AnnounceCopies
  <2> QED
    BY <1>2, <2>1, <2>2 DEF AnnounceCopies, NoChangeForgotten, Delivering, Pending
<1>3. ASSUME NEW e \in Editors, AnnounceSignals(e) PROVE InvalidationInv'
  BY <1>3 DEF AnnounceSignals, Signal, NoChangeForgotten, Delivering, Pending
<1> QED
  BY <1>1, <1>2, <1>3 DEF EditStep

\* The stages hand a signal on, and Close takes them down in its order.
LEMMA PipelineKeeps ==
  ASSUME InvalidationInv,
         PipelineStep \/ WatchDirectories \/ Register \/ CloseSubscription \/ Receive
  PROVE  InvalidationInv'
<1> USE DEF InvalidationInv, disk, pipeline, membership, history
<1>1. CASE ReaderReads
  BY <1>1 DEF ReaderReads, NoChangeForgotten, Delivering, Pending
<1>2. CASE ReaderStopsOnClose \/ NativeFails
  BY <1>2 DEF ReaderStopsOnClose, NativeFails, ReaderStops, NoChangeForgotten, Delivering
<1>3. CASE SettleHears
  BY <1>3 DEF SettleHears, NoChangeForgotten, Delivering, Pending
<1>4. CASE SettleSignals
  BY <1>4 DEF SettleSignals, Signal, NoChangeForgotten, Delivering, Pending
<1>5. CASE TellerStops
  BY <1>5 DEF TellerStops, TellerCloses, NoChangeForgotten, Delivering
<1>6. CASE WatchDirectories
  BY <1>6 DEF WatchDirectories, NoChangeForgotten, Delivering
<1>7. CASE Register
  BY <1>7 DEF Register, NoChangeForgotten
<1>8. CASE CloseSubscription
  <2>1. closing' # "no"
    BY <1>8 DEF CloseSubscription, CloseUnlists, CloseCancels, CloseStops, CloseJoins, CloseStep
  <2>2. InvalidationTypeOK'
    BY <1>8 DEF CloseSubscription, CloseUnlists, CloseCancels, CloseStops, CloseJoins, CloseStep
  <2>3. CloseUnlists => LifeCycle'
    BY DEF CloseUnlists, CloseStep
  <2>4. CloseCancels \/ CloseStops \/ CloseJoins => LifeCycle'
    BY DEF CloseCancels, CloseStops, CloseJoins, CloseStep
  <2> QED
    BY <1>8, <2>1, <2>2, <2>3, <2>4 DEF CloseSubscription, NoChangeForgotten, Delivering
<1>9. CASE Receive
  BY <1>9 DEF Receive, NoChangeForgotten
<1> QED
  BY <1>1, <1>2, <1>3, <1>4, <1>5, <1>6, <1>7, <1>8, <1>9 DEF PipelineStep

\* Every step keeps the invariant.
LEMMA InvalidationStep ==
  InvalidationInv /\ [InvalidationNext]_invalidationVars => InvalidationInv'
<1> SUFFICES ASSUME InvalidationInv, [InvalidationNext]_invalidationVars PROVE InvalidationInv'
  OBVIOUS
<1>1. CASE InvalidationNext
  BY <1>1, ForeignKeeps, EditKeeps, PipelineKeeps DEF InvalidationNext
<1>2. CASE UNCHANGED invalidationVars
  BY <1>2 DEF invalidationVars, disk, pipeline, membership, history, InvalidationInv,
              NoChangeForgotten, Delivering, Pending
<1> QED
  BY <1>1, <1>2

\* The inductive invariant of the subscription.
THEOREM InvalidationInvariance == InvalidationSpec => []InvalidationInv
BY InvalidationStarts, InvalidationStep, PTL DEF InvalidationSpec

\* Every stage of the pipeline keeps its type: no channel holds more than one
\* signal.
THEOREM InvalidationTypeCorrect == InvalidationSpec => []InvalidationTypeOK
<1>1. InvalidationInv => InvalidationTypeOK
  BY DEF InvalidationInv
<1> QED
  BY <1>1, InvalidationInvariance, PTL

\* A covered change is never dropped on the way, however the stages coalesce.
THEOREM ChangesKept == InvalidationSpec => []NoChangeForgotten
<1>1. InvalidationInv => NoChangeForgotten
  BY DEF InvalidationInv
<1> QED
  BY <1>1, InvalidationInvariance, PTL

\* Close returns to a subscription that is gone.
THEOREM CloseLeavesNobody == InvalidationSpec => []ClosedMeansGone
<1>1. InvalidationInv => ClosedMeansGone
  BY DEF InvalidationInv, ClosedMeansGone
<1> QED
  BY <1>1, InvalidationInvariance, PTL

-----------------------------------------------------------------------------
(* Steps.                                                                  *)

\* Nobody sends on the closed channel.
THEOREM ClosedStaysQuiet == InvalidationSpec => NoSendOnClosed
<1>1. ASSUME InvalidationInv, [InvalidationNext]_invalidationVars, closed
      PROVE  changes' <= changes
  <2> USE DEF InvalidationInv, disk, pipeline, membership, history
  <2> SUFFICES changes' \in {changes, 0}
    BY <1>1
  <2>1. CASE ForeignStep
    BY <1>1, <2>1 DEF ForeignStep, ForeignReplace, ForeignWriteInPlace, ForeignCloseFile,
                      ForeignRemoveDir, ForeignChown
  <2>2. CASE EditStep
    BY <1>1, <2>2 DEF EditStep, EditWrite, AnnounceCopies, AnnounceSignals, Signal
  <2>3. CASE PipelineStep
    BY <1>1, <2>3 DEF PipelineStep, ReaderReads, ReaderStopsOnClose, NativeFails, ReaderStops,
                      SettleHears, SettleSignals, TellerStops, TellerCloses
  <2>4. CASE WatchDirectories \/ Register \/ CloseSubscription
    BY <1>1, <2>4 DEF WatchDirectories, Register, CloseSubscription, CloseUnlists,
                      CloseCancels, CloseStops, CloseJoins, CloseStep
  <2>5. CASE Receive
    BY <1>1, <2>5 DEF Receive
  <2>6. CASE UNCHANGED invalidationVars
    BY <2>6 DEF invalidationVars
  <2> QED
    BY <1>1, <2>1, <2>2, <2>3, <2>4, <2>5, <2>6 DEF InvalidationNext
<1>2. InvalidationInv /\ [InvalidationNext]_invalidationVars
        => [closed => changes' <= changes]_invalidationVars
  BY <1>1
<1> QED
  BY <1>2, InvalidationInvariance, PTL DEF InvalidationSpec, NoSendOnClosed

-----------------------------------------------------------------------------
(* The refinement of ChangeSource.                                         *)

\* Phase and Owed case by case, before and after a step.
LEMMA PhaseIs ==
  ASSUME InvalidationInv
  PROVE  /\ Phase = IF teller = "none" THEN "none"
                    ELSE IF teller = "done" THEN "ended"
                    ELSE IF reader = "reading" /\ closing = "no" THEN "up" ELSE "silent"
         /\ Phase \in {"none", "up", "silent", "ended"}
         /\ Phase = "none" => Owed = FALSE
         /\ Phase = "ended" => Owed = (changes = 1)
         /\ Phase \in {"up", "silent"} => Owed = Pending
<1> USE DEF InvalidationInv
<1>1. /\ Phase = IF teller = "none" THEN "none"
                 ELSE IF teller = "done" THEN "ended"
                 ELSE IF reader = "reading" /\ closing = "no" THEN "up" ELSE "silent"
      /\ Phase \in {"none", "up", "silent", "ended"}
  BY DEF Phase
<1>2. /\ Phase = "none" => Owed = FALSE
      /\ Phase = "ended" => Owed = (changes = 1)
      /\ Phase \in {"up", "silent"} => Owed = Pending
  BY DEF Owed
<1> QED
  BY <1>1, <1>2

\* What the backends need to know of the mapped variables around a step.
LEMMA MappedTypes ==
  ASSUME InvalidationInv, InvalidationInv'
  PROVE  /\ Owed \in BOOLEAN /\ Owed' \in BOOLEAN
         /\ Phase \in {"none", "up", "silent", "ended"}
<1>1. Owed \in BOOLEAN
  <2>1. Pending \in BOOLEAN /\ (changes = 1) \in BOOLEAN
    BY DEF Pending
  <2> QED
    BY <2>1, PhaseIs
<1>2. Owed' \in BOOLEAN
  <2>1. Pending' \in BOOLEAN /\ (changes' = 1) \in BOOLEAN
    BY DEF Pending
  <2>2. CASE teller' = "none"
    BY <2>2 DEF Owed, Phase
  <2>3. CASE teller' = "done"
    BY <2>1, <2>3 DEF Owed, Phase
  <2>4. CASE teller' \in {"waiting", "settling"}
    <3>1. Phase' \in {"up", "silent"}
      BY <2>4 DEF Phase
    <3>2. Owed' = Pending'
      BY <3>1 DEF Owed
    <3> QED
      BY <2>1, <3>2
  <2> QED
    BY <2>2, <2>3, <2>4 DEF InvalidationInv
<1> QED
  BY <1>1, <1>2, PhaseIs

\* A step that changes no file: what is owed stays owed while the source is up,
\* and nothing moves before it starts or after it has ended.
LEMMA QuietStep ==
  ASSUME Owed \in BOOLEAN, Owed' \in BOOLEAN,
         Phase \in {"none", "up", "silent", "ended"},
         UNCHANGED <<files, writes, blind>>, Phase' = Phase,
         Phase \in {"none", "ended"} => Owed' = Owed,
         Phase = "up" /\ Owed => Owed'
  PROVE  [Source!SourceNext]_Source!sourceVars
<1>1. CASE Owed' = Owed
  BY <1>1 DEF Source!sourceVars
<1>2. CASE Owed' # Owed /\ Phase = "silent"
  <2>1. Owed' = ~Owed
    BY <1>2
  <2> QED
    BY <1>2, <2>1 DEF Source!SourceNext, Source!SilentDrift
<1>3. CASE Owed' # Owed /\ Phase = "up"
  <2>1. ~Owed /\ Owed' = TRUE
    BY <1>3
  <2> QED
    BY <1>3, <2>1 DEF Source!SourceNext, Source!SpuriousSignal
<1> QED
  BY <1>1, <1>2, <1>3

\* A step that changes a file: owed a signal, or marked as one nobody looks at.
LEMMA WriteStep ==
  ASSUME Owed \in BOOLEAN, Owed' \in BOOLEAN,
         Phase \in {"none", "up", "silent", "ended"}, Phase' = Phase,
         NEW r \in Rungs, NEW c \in Contents,
         writes < MaxWrites, c # files[r],
         files' = [files EXCEPT ![r] = c], writes' = writes + 1,
         \/ blind' = blind \cup {r} /\ Owed' = Owed
         \/ blind' = blind /\ Phase \in {"none", "ended"} /\ Owed' = Owed
         \/ blind' = blind /\ Phase \in {"up", "silent"} /\ Owed' = TRUE
  PROVE  [Source!SourceNext]_Source!sourceVars
<1>1. Source!Write(r, c)
  BY DEF Source!Write
<1>2. CASE blind' = blind \cup {r} /\ Owed' = Owed
  <2>1. Source!BlindWrite(r, c)
    BY <1>1, <1>2 DEF Source!BlindWrite
  <2> QED
    BY <2>1 DEF Source!SourceNext, Source!SourceWrite, Source!Rungs, Rungs, Source!Machine,
                Source!User, Machine, User
<1>3. CASE blind' = blind /\ Phase = "up" /\ Owed' = TRUE
  <2>1. Source!CoveredWrite(r, c)
    BY <1>1, <1>3 DEF Source!CoveredWrite
  <2> QED
    BY <2>1 DEF Source!SourceNext, Source!SourceWrite, Source!Rungs, Rungs, Source!Machine,
                Source!User, Machine, User
<1>4. ASSUME blind' = blind, Phase # "up",
             Owed' \in (IF Phase = "silent" THEN {Owed, TRUE} ELSE {Owed})
      PROVE  [Source!SourceNext]_Source!sourceVars
  <2>1. Source!UnreportedWrite(r, c)
    BY <1>1, <1>4 DEF Source!UnreportedWrite
  <2> QED
    BY <2>1 DEF Source!SourceNext, Source!SourceWrite, Source!Rungs, Rungs, Source!Machine,
                Source!User, Machine, User
<1>5. CASE blind' = blind /\ Phase \in {"none", "ended"} /\ Owed' = Owed
  <2>1. Phase # "up" /\ Phase # "silent"
    BY <1>5
  <2>2. Owed' \in (IF Phase = "silent" THEN {Owed, TRUE} ELSE {Owed})
    BY <1>5, <2>1
  <2> QED
    BY <1>4, <1>5, <2>1, <2>2
<1>6. CASE blind' = blind /\ Phase = "silent" /\ Owed' = TRUE
  <2>1. Phase # "up"
    BY <1>6
  <2>2. Owed' \in (IF Phase = "silent" THEN {Owed, TRUE} ELSE {Owed})
    BY <1>6
  <2> QED
    BY <1>4, <1>6, <2>1, <2>2
<1> QED
  BY <1>2, <1>3, <1>5, <1>6

\* Writers of the files.
LEMMA ForeignImplements ==
  ASSUME InvalidationInv, InvalidationInv', ForeignStep
  PROVE  [Source!SourceNext]_Source!sourceVars
<1> USE DEF disk, pipeline, membership, history
<1>0. /\ Owed \in BOOLEAN /\ Owed' \in BOOLEAN
      /\ Phase \in {"none", "up", "silent", "ended"}
  BY MappedTypes
<1>1. UNCHANGED <<teller, reader, closing, changes, events>> /\ Phase' = Phase
  <2>1. UNCHANGED <<teller, reader, closing, changes, events>>
    BY DEF ForeignStep, ForeignReplace, ForeignWriteInPlace, ForeignCloseFile,
           ForeignRemoveDir, ForeignChown
  <2> QED
    BY <2>1 DEF Phase
<1>2. Phase \in {"none", "ended"} => Owed' = Owed
  BY <1>1 DEF Owed, Phase
<1>3. Phase \in {"up", "silent"} => (Owed <=> Pending) /\ (Owed' <=> Pending')
  BY <1>1 DEF Owed, Phase
<1>4. ASSUME NEW r \in Rungs, NEW c \in Contents, ForeignReplace(r, c)
      PROVE  [Source!SourceNext]_Source!sourceVars
  <2>1. /\ writes < MaxWrites /\ c # files[r]
        /\ files' = [files EXCEPT ![r] = c] /\ writes' = writes + 1
    BY <1>4 DEF ForeignReplace, Change
  <2>2. CASE r \in watched
    <3>1. blind' = blind /\ Pending'
      BY <1>4, <2>2 DEF ForeignReplace, Change, Event, Pending
    <3> QED
      BY <1>0, <1>1, <1>2, <1>3, <2>1, <3>1, WriteStep
  <2>3. CASE r \notin watched
    <3>1. blind' = blind \cup {r} /\ (Pending' <=> Pending)
      BY <1>4, <2>3 DEF ForeignReplace, Change, Event, Pending, InvalidationInv
    <3> QED
      BY <1>0, <1>1, <1>2, <1>3, <2>1, <3>1, WriteStep
  <2> QED
    BY <2>2, <2>3
<1>5. ASSUME NEW r \in Rungs, NEW c \in Contents, ForeignWriteInPlace(r, c)
      PROVE  [Source!SourceNext]_Source!sourceVars
  <2>1. /\ writes < MaxWrites /\ c # files[r]
        /\ files' = [files EXCEPT ![r] = c] /\ writes' = writes + 1
    BY <1>5 DEF ForeignWriteInPlace, Change
  <2>2. CASE r \in watched
    <3>1. blind' = blind /\ Pending'
      BY <1>5, <2>2 DEF ForeignWriteInPlace, Change, Pending
    <3> QED
      BY <1>0, <1>1, <1>2, <1>3, <2>1, <3>1, WriteStep
  <2>3. CASE r \notin watched
    <3>1. blind' = blind \cup {r} /\ (Pending' <=> Pending)
      BY <1>5, <2>3 DEF ForeignWriteInPlace, Change, Event, Pending, InvalidationInv
    <3> QED
      BY <1>0, <1>1, <1>2, <1>3, <2>1, <3>1, WriteStep
  <2> QED
    BY <2>2, <2>3
<1>6. ASSUME NEW r \in Rungs, ForeignCloseFile(r) \/ ForeignRemoveDir(r)
      PROVE  [Source!SourceNext]_Source!sourceVars
  <2>1. UNCHANGED <<files, writes, blind>> /\ (Pending => Pending')
    <3>1. UNCHANGED <<files, writes, blind, events, teller, changes, announcing>>
      BY <1>6 DEF ForeignCloseFile, ForeignRemoveDir
    <3>2. kernel => kernel'
      BY <1>6 DEF ForeignCloseFile, ForeignRemoveDir, Event
    <3>3. open \cap watched # {} => kernel' \/ open' \cap watched' # {}
      BY <1>6 DEF ForeignCloseFile, ForeignRemoveDir, Event
    <3> QED
      BY <3>1, <3>2, <3>3 DEF Pending
  <2> QED
    BY <1>0, <1>1, <1>2, <1>3, <2>1, QuietStep
<1>7. ASSUME NEW c \in Contents, ForeignChown(c)
      PROVE  [Source!SourceNext]_Source!sourceVars
  <2>1. /\ writes < MaxWrites /\ c # files[Machine] /\ Machine \in Rungs
        /\ files' = [files EXCEPT ![Machine] = c] /\ writes' = writes + 1
        /\ blind' = blind \cup {Machine} /\ (Pending' <=> Pending)
    BY <1>7 DEF ForeignChown, Change, Pending, Rungs
  <2> QED
    BY <1>0, <1>1, <1>2, <1>3, <2>1, WriteStep
<1> QED
  BY <1>4, <1>5, <1>6, <1>7 DEF ForeignStep

\* Edits of this process and their announcements.
LEMMA EditImplements ==
  ASSUME InvalidationInv, InvalidationInv', EditStep
  PROVE  [Source!SourceNext]_Source!sourceVars
<1> USE DEF disk, pipeline, membership, history
<1>0. /\ Owed \in BOOLEAN /\ Owed' \in BOOLEAN
      /\ Phase \in {"none", "up", "silent", "ended"}
  BY MappedTypes
<1>1. UNCHANGED <<teller, reader, closing, closed, live>> /\ Phase' = Phase
  <2>1. UNCHANGED <<teller, reader, closing, closed, live>>
    BY DEF EditStep, AnnounceCopies, AnnounceSignals, EditWrite
  <2> QED
    BY <2>1 DEF Phase
<1>2. Phase \in {"up", "silent"} => (Owed <=> Pending) /\ (Owed' <=> Pending')
  BY <1>1 DEF Owed, Phase
<1>3. Phase = "none" \/ changes' = changes => (Phase \in {"none", "ended"} => Owed' = Owed)
  BY <1>1 DEF Owed, Phase
<1>4. ASSUME NEW e \in Editors, NEW c \in Contents, EditWrite(e, c)
      PROVE  [Source!SourceNext]_Source!sourceVars
  <2>1. /\ writes < MaxWrites /\ c # files[User] /\ User \in Rungs
        /\ files' = [files EXCEPT ![User] = c] /\ writes' = writes + 1
        /\ blind' = blind /\ changes' = changes
    BY <1>4 DEF EditWrite, Change, Rungs
  <2>2. Pending'
    BY <1>4 DEF EditWrite, Pending, InvalidationInv
  <2> QED
    BY <1>0, <1>1, <1>2, <1>3, <2>1, <2>2, WriteStep
<1>5. ASSUME NEW e \in Editors, AnnounceCopies(e)
      PROVE  [Source!SourceNext]_Source!sourceVars
  <2>1. UNCHANGED <<files, writes, blind, changes>>
    BY <1>5 DEF AnnounceCopies
  <2>2. Phase = "up" => live
    BY DEF Phase, InvalidationInv
  <2>3. Phase = "up" => Pending'
    BY <1>5, <2>2 DEF AnnounceCopies, Pending, InvalidationInv
  <2> QED
    BY <1>0, <1>1, <1>2, <1>3, <2>1, <2>3, QuietStep
<1>6. ASSUME NEW e \in Editors, AnnounceSignals(e)
      PROVE  [Source!SourceNext]_Source!sourceVars
  <2>1. UNCHANGED <<files, writes, blind>>
    BY <1>6 DEF AnnounceSignals
  <2>2. Phase = "ended" => changes' = changes
    BY <1>6 DEF AnnounceSignals, Signal, Phase, InvalidationInv
  <2>3. Phase = "up" => Pending'
    BY <1>6 DEF AnnounceSignals, Signal, Phase, Pending, InvalidationInv
  <2> QED
    BY <1>0, <1>1, <1>2, <1>3, <2>1, <2>2, <2>3, QuietStep
<1> QED
  BY <1>4, <1>5, <1>6 DEF EditStep

\* A signal on its way moves from stage to stage; a stage that stops leaves
\* the source up, silent or ended.
LEMMA PipelineImplements ==
  ASSUME InvalidationInv, InvalidationInv', PipelineStep
  PROVE  [Source!SourceNext]_Source!sourceVars
<1> USE DEF disk, pipeline, membership, history
<1>0. /\ Owed \in BOOLEAN /\ Owed' \in BOOLEAN
      /\ Phase \in {"none", "up", "silent", "ended"}
  BY MappedTypes
<1>1. CASE ReaderReads
  <2>1. /\ UNCHANGED <<files, writes, blind, teller, reader, closing, changes>>
        /\ Pending'
    BY <1>1 DEF ReaderReads, Pending
  <2>2. Phase' = Phase
    BY <2>1 DEF Phase
  <2>3. /\ Phase \in {"none", "ended"} => Owed' = Owed
        /\ Phase = "up" => Owed'
    BY <2>1, <2>2 DEF Owed
  <2> QED
    BY <1>0, <2>1, <2>2, <2>3, QuietStep
<1>2. CASE SettleHears
  <2>1. /\ UNCHANGED <<files, writes, blind, reader, closing, changes>>
        /\ teller \in {"waiting", "settling"} /\ teller' = "settling"
        /\ Pending'
    BY <1>2 DEF SettleHears, Pending
  <2>2. Phase' = Phase /\ Phase \in {"up", "silent"}
    BY <2>1 DEF Phase
  <2>3. Owed'
    BY <2>1, <2>2 DEF Owed
  <2> QED
    BY <1>0, <2>1, <2>2, <2>3, QuietStep
<1>3. CASE SettleSignals
  <2>1. /\ UNCHANGED <<files, writes, blind, reader, closing>>
        /\ teller = "settling" /\ teller' = "waiting"
        /\ Pending'
    BY <1>3 DEF SettleSignals, Signal, Pending, InvalidationInv
  <2>2. Phase' = Phase /\ Phase \in {"up", "silent"}
    BY <2>1 DEF Phase
  <2>3. Owed'
    BY <2>1, <2>2 DEF Owed
  <2> QED
    BY <1>0, <2>1, <2>2, <2>3, QuietStep
<1>4. CASE ReaderStops
  <2>1. /\ UNCHANGED <<files, writes, blind, teller, closing, changes>>
        /\ reader = "reading" /\ reader' = "stopped"
        /\ Pending' <=> Pending
    BY <1>4 DEF ReaderStops, Pending
  <2>2. CASE Phase = "up"
    <3>1. Phase' = "silent"
      BY <2>1, <2>2 DEF Phase, InvalidationInv
    <3>2. (Owed <=> Pending) /\ (Owed' <=> Pending')
      BY <2>2, <3>1 DEF Owed
    <3>3. Owed' = Owed
      BY <1>0, <2>1, <3>2
    <3> QED
      BY <2>1, <2>2, <3>1, <3>3 DEF Source!SourceNext, Source!GoesSilent
  <2>3. CASE Phase # "up"
    <3>1. Phase' = Phase
      BY <2>1, <2>3 DEF Phase, InvalidationInv
    <3>2. Owed' = Owed
      BY <1>0, <2>1, <2>3, <3>1 DEF Owed
    <3> QED
      BY <1>0, <2>1, <2>3, <3>1, <3>2, QuietStep
  <2> QED
    BY <2>2, <2>3
<1>5. CASE TellerStops
  <2>1. /\ UNCHANGED <<files, writes, blind, changes>>
        /\ Phase = "silent" /\ Phase' = "ended"
    BY <1>5 DEF TellerStops, TellerCloses, Phase
  <2>2. /\ Owed <=> Pending
        /\ Owed' <=> changes = 1
        /\ changes = 1 => Pending
    BY <2>1 DEF Owed, Pending
  <2>3. Owed' \in {Owed, FALSE}
    BY <1>0, <2>2
  <2> QED
    BY <2>1, <2>3 DEF Source!SourceNext, Source!SourceEnds
<1> QED
  BY <1>1, <1>2, <1>3, <1>4, <1>5 DEF PipelineStep, ReaderStopsOnClose, NativeFails

\* Subscribing, closing and receiving.
LEMMA SubscriberImplements ==
  ASSUME InvalidationInv, InvalidationInv',
         WatchDirectories \/ Register \/ CloseSubscription \/ Receive
  PROVE  [Source!SourceNext]_Source!sourceVars
<1> USE DEF disk, pipeline, membership, history
<1>0. /\ Owed \in BOOLEAN /\ Owed' \in BOOLEAN
      /\ Phase \in {"none", "up", "silent", "ended"}
  BY MappedTypes
<1>1. CASE WatchDirectories
  <2>1. UNCHANGED <<files, writes, blind>> /\ teller = "none" /\ teller' = "none"
    BY <1>1 DEF WatchDirectories, InvalidationInv
  <2>2. Phase = "none" /\ Phase' = Phase /\ Owed' = Owed
    BY <2>1 DEF Phase, Owed
  <2> QED
    BY <1>0, <2>1, <2>2, QuietStep
<1>2. CASE Register
  <2>1. /\ UNCHANGED <<files, writes>> /\ blind' = {}
        /\ teller = "none" /\ teller' = "waiting"
    BY <1>2 DEF Register
  <2>2. Phase = "none" /\ Phase' \in {"up", "silent"}
    BY <2>1 DEF Phase
  <2> QED
    BY <1>0, <2>1, <2>2 DEF Source!SourceNext, Source!SourceStarts
<1>3. CASE CloseUnlists
  <2>1. /\ UNCHANGED <<files, writes, blind, teller, reader, changes>>
        /\ closing = "no" /\ closing' = "unlisted" /\ teller \notin {"none", "done"}
        /\ Pending' <=> Pending
    BY <1>3 DEF CloseUnlists, CloseStep, Pending, InvalidationInv
  <2>2. Phase \in {"up", "silent"} /\ Phase' = "silent"
    BY <2>1 DEF Phase, InvalidationInv
  <2>3. Owed' = Owed
    <3>1. (Owed <=> Pending) /\ (Owed' <=> Pending')
      BY <2>2 DEF Owed
    <3> QED
      BY <1>0, <2>1, <3>1
  <2>4. CASE Phase = "up"
    BY <2>1, <2>2, <2>3, <2>4 DEF Source!SourceNext, Source!GoesSilent
  <2>5. CASE Phase = "silent"
    BY <1>0, <2>1, <2>2, <2>3, <2>5, QuietStep
  <2> QED
    BY <2>2, <2>4, <2>5
<1>4. CASE CloseCancels \/ CloseStops \/ CloseJoins
  <2>1. /\ UNCHANGED <<files, writes, blind, teller, reader, changes>>
        /\ closing # "no" /\ closing' # "no"
        /\ Pending' <=> Pending
    BY <1>4 DEF CloseCancels, CloseStops, CloseJoins, CloseStep, Pending
  <2>2. Phase' = Phase
    BY <2>1 DEF Phase
  <2>3. Owed' = Owed
    BY <1>0, <2>1, <2>2 DEF Owed
  <2> QED
    BY <1>0, <2>1, <2>2, <2>3, QuietStep
<1>5. CASE Receive
  <2>1. /\ UNCHANGED <<files, writes, blind, teller, reader, closing>>
        /\ changes = 1 /\ changes' = 0
    BY <1>5 DEF Receive
  <2>2. Phase' = Phase
    BY <2>1 DEF Phase
  <2>3. CASE Phase = "none"
    <3>1. Owed' = Owed
      BY <2>2, <2>3 DEF Owed
    <3> QED
      BY <1>0, <2>1, <2>2, <2>3, <3>1, QuietStep
  <2>4. CASE Phase # "none"
    <3>1. Owed
      BY <1>0, <2>1, <2>4 DEF Owed, Pending
    <3>2. Phase = "ended" => Owed' = FALSE
      BY <2>1, <2>2 DEF Owed
    <3>3. Owed' \in (IF Phase = "ended" THEN {FALSE} ELSE BOOLEAN)
      BY <1>0, <3>2
    <3> QED
      BY <2>1, <2>2, <3>1, <3>3 DEF Source!SourceNext, Source!SignalTaken
  <2> QED
    BY <2>3, <2>4
<1> QED
  BY <1>1, <1>2, <1>3, <1>4, <1>5 DEF CloseSubscription

\* The subscription is a notification source in the sense of ObservationSource
\* (go/service/observer.go): whatever the writers, the reader of the kernel's
\* queue, the settling goroutine, the announcing edits and Close do between
\* each other's steps, the receiver sees a source that owes it every covered
\* change and adds nothing to a channel it has closed.
THEOREM SubscriptionIsSource == InvalidationSpec => ImplementsChangeSource
<1>1. InvalidationInit => Source!SourceInit
  BY DEF InvalidationInit, Source!SourceInit, Phase, Owed, Source!Rungs, Rungs, Source!Machine,
         Source!User, Machine, User
<1>2. InvalidationInv /\ InvalidationInv' /\ [InvalidationNext]_invalidationVars
        => [Source!SourceNext]_Source!sourceVars
  <2> SUFFICES ASSUME InvalidationInv, InvalidationInv', [InvalidationNext]_invalidationVars
               PROVE  [Source!SourceNext]_Source!sourceVars
    OBVIOUS
  <2>1. CASE UNCHANGED invalidationVars
    BY <2>1 DEF invalidationVars, disk, pipeline, membership, history, Source!sourceVars,
                Phase, Owed, Pending
  <2>2. CASE InvalidationNext
    BY <2>2, ForeignImplements, EditImplements, PipelineImplements, SubscriberImplements
       DEF InvalidationNext
  <2> QED
    BY <2>1, <2>2
<1> QED
  BY <1>1, <1>2, InvalidationInvariance, PTL
     DEF InvalidationSpec, ImplementsChangeSource, Source!SourceSpec
=============================================================================
