-------------------------- MODULE UserEditorProofs --------------------------
(***************************************************************************)
(* The editor of UserEditor, for any number of workers, contents,          *)
(* spellings and attempts, and the clients of EditorClient before it.       *)
(***************************************************************************)
EXTENDS EditorClient, TLAPS

USE EditorAssumption, BytesAssumption

-----------------------------------------------------------------------------
(* Every variable keeps its type, and the attempts stay below their bound. *)

\* The attempts a call has made leave it one more; without this the cap of the
\* history counter could hide an interference.
AttemptsLeft == \A w \in Workers : attempts[w] < MaxAttempts

Inv0 == TypeOK /\ AttemptsLeft

\* userSnapshot makes a content of every readable record.
LEMMA ContentOfBytes ==
  ASSUME NEW b \in Bytes
  PROVE  Content(b) \in Contents \cup {Corrupt}
BY DEF Content, Bytes, Records

\* What ReplaceUserStore writes for a content is a record of that content.
LEMMA SpellIsRecord ==
  ASSUME NEW c \in Contents
  PROVE  Spell(c) \in Bytes /\ Content(Spell(c)) = c
BY DEF Spell, Bytes, Records, Content

\* Settling an answer keeps the variables of every call in their types.
LEMMA AnswerType ==
  ASSUME Inv0, NEW w \in Workers, NEW out \in Outcomes,
         NEW c \in Contents \cup {Corrupt}, Answer(w, out, c), UNCHANGED store
  PROVE  Inv0'
<1>1. [outcome |-> out, content |-> c] \in [outcome : Outcomes, content : Contents \cup {Corrupt}]
  OBVIOUS
<1> QED BY <1>1, BytesAssumption DEF Inv0, TypeOK, AttemptsLeft, Answer, Steps, Bytes

\* The initial states have the type, and no call has used an attempt.
LEMMA TypeInit == Init => Inv0
<1> SUFFICES ASSUME Init PROVE Inv0
  OBVIOUS
<1>1. NoReply \in [outcome : Outcomes, content : Contents \cup {Corrupt}]
  BY DEF NoReply, Outcomes
<1> QED BY <1>1 DEF Init, Inv0, TypeOK, AttemptsLeft, Steps, Bytes

\* A change of the record keeps the record and the history in their types.
LEMMA ChangeToType ==
  ASSUME Inv0, NEW b \in Bytes, NEW others, ChangeTo(b, others)
  PROVE  store' \in Bytes /\ moves' \in [Workers -> 0 .. MaxAttempts]
BY DEF Inv0, TypeOK, ChangeTo

\* Every step of the editor keeps the type and the bound of the attempts.
LEMMA TypeStep == Inv0 /\ [Next]_vars => Inv0'
<1> SUFFICES ASSUME Inv0, [Next]_vars PROVE Inv0'
  OBVIOUS
<1> USE DEF Refuse
<1>r. Refusals \subseteq Outcomes /\ {"read", "applied", "conflict"} \subseteq Outcomes
  BY DEF Outcomes
<1>1. ASSUME NEW w \in Workers, CallRead(w) PROVE Inv0'
  BY <1>1 DEF Inv0, TypeOK, AttemptsLeft, CallRead, Goto, localVars, Steps
<1>2. ASSUME NEW w \in Workers, NEW x \in Contents \cup {NoRevision},
             NEW v \in Contents, CallReplace(w, x, v)
      PROVE Inv0'
  BY <1>2 DEF Inv0, TypeOK, AttemptsLeft, CallReplace, Goto, Steps
<1>3. ASSUME NEW w \in Workers, ReadUser(w) PROVE Inv0'
  BY <1>3, <1>r, AnswerType, ContentOfBytes DEF ReadUser, Inv0, TypeOK, Refusals
<1>4. ASSUME NEW w \in Workers, Admit(w) PROVE Inv0'
  <2>1. CASE \E out \in Refusals : Answer(w, out, Corrupt)
    BY <2>1, <1>4, <1>r, AnswerType DEF Admit
  <2>2. CASE (Goto(w, "admit", "policy") \/ Goto(w, "admit", "prepare")) /\ UNCHANGED localVars
    BY <2>2, <1>4 DEF Admit, Inv0, TypeOK, AttemptsLeft, Goto, localVars, Steps
  <2> QED BY <1>4, <2>1, <2>2 DEF Admit, Refusals
<1>5. ASSUME NEW w \in Workers, AskPolicy(w) PROVE Inv0'
  <2>1. CASE \E out \in Refusals : Answer(w, out, Corrupt)
    BY <2>1, <1>5, <1>r, AnswerType DEF AskPolicy
  <2>2. CASE Goto(w, "policy", "prepare") /\ UNCHANGED localVars
    BY <2>2, <1>5 DEF AskPolicy, Inv0, TypeOK, AttemptsLeft, Goto, localVars, Steps
  <2> QED BY <1>5, <2>1, <2>2 DEF AskPolicy, Refusals
<1>6. ASSUME NEW w \in Workers, Prepare(w) PROVE Inv0'
  <2>1. CASE Answer(w, "storage_unavailable", Corrupt)
    BY <2>1, <1>6, <1>r, AnswerType DEF Prepare, Refusals
  <2>2. CASE Goto(w, "prepare", "read") /\ UNCHANGED localVars
    BY <2>2, <1>6 DEF Prepare, Inv0, TypeOK, AttemptsLeft, Goto, localVars, Steps
  <2> QED BY <1>6, <2>1, <2>2 DEF Prepare
<1>7. ASSUME NEW w \in Workers, ReadBase(w) PROVE Inv0'
  <2>1. CASE Answer(w, "storage_unavailable", Corrupt)
    BY <2>1, <1>7, <1>r, AnswerType DEF ReadBase, Refusals
  <2>2. CASE Answer(w, "conflict", Content(store))
    BY <2>2, <1>7, <1>r, AnswerType, ContentOfBytes DEF ReadBase, Inv0, TypeOK
  <2>3. CASE /\ base' = [base EXCEPT ![w] = store]
             /\ Goto(w, "read", "write")
             /\ UNCHANGED <<expected, values, attempts, moves>>
    BY <2>3, <1>7 DEF ReadBase, Inv0, TypeOK, AttemptsLeft, Goto, Steps
  <2> QED BY <1>7, <2>1, <2>2, <2>3 DEF ReadBase
<1>8. ASSUME NEW w \in Workers, WriteApplies(w) PROVE Inv0'
  <2>1. Spell(values[w]) \in Bytes
    BY SpellIsRecord DEF Inv0, TypeOK
  <2>2. store' \in Bytes /\ moves' \in [Workers -> 0 .. MaxAttempts]
    BY <1>8, <2>1, ChangeToType DEF WriteApplies
  <2> QED BY <1>8, <2>2 DEF WriteApplies, Inv0, TypeOK, AttemptsLeft, Goto, Steps
<1>9. ASSUME NEW w \in Workers, WriteMoved(w) PROVE Inv0'
  <2>1. CASE Answer(w, "storage_unavailable", Corrupt)
    BY <2>1, <1>9, <1>r, AnswerType DEF WriteMoved, Refusals
  <2>2. CASE /\ attempts[w] + 1 < MaxAttempts
             /\ attempts' = [attempts EXCEPT ![w] = @ + 1]
             /\ base' = [base EXCEPT ![w] = Missing]
             /\ Goto(w, "write", "read")
             /\ UNCHANGED <<expected, values, moves>>
    BY <2>2, <1>9 DEF WriteMoved, Inv0, TypeOK, AttemptsLeft, Goto, Steps, Bytes
  <2> QED BY <1>9, <2>1, <2>2 DEF WriteMoved
<1>10. ASSUME NEW w \in Workers, WriteFails(w) PROVE Inv0'
  BY <1>10, <1>r, AnswerType DEF WriteFails, Refusals
<1>11. ASSUME NEW w \in Workers, Announce(w) PROVE Inv0'
  BY <1>11, <1>r, AnswerType DEF Announce, Inv0, TypeOK
<1>12. ASSUME NEW w \in Workers, Reply(w) PROVE Inv0'
  <2>1. NoReply \in [outcome : Outcomes, content : Contents \cup {Corrupt}]
    BY DEF NoReply, Outcomes
  <2> QED BY <1>12, <2>1 DEF Reply, Inv0, TypeOK, AttemptsLeft, localVars, Steps
<1>13. ASSUME NEW b \in Bytes, ForeignWrite(b) PROVE Inv0'
  BY <1>13, ChangeToType DEF ForeignWrite, Inv0, TypeOK, AttemptsLeft
<1>14. CASE Crash
  <2>1. NoReply \in [outcome : Outcomes, content : Contents \cup {Corrupt}]
    BY DEF NoReply, Outcomes
  <2> QED BY <1>14, <2>1 DEF Crash, Inv0, TypeOK, AttemptsLeft, Steps, Bytes
<1>15. CASE UNCHANGED vars
  BY <1>15 DEF vars, localVars, Inv0, TypeOK, AttemptsLeft
<1> QED BY <1>1, <1>2, <1>3, <1>4, <1>5, <1>6, <1>7, <1>8, <1>9, <1>10, <1>11,
           <1>12, <1>13, <1>14, <1>15 DEF Next, WorkerStep

\* Type correctness of the editor, whatever other programs write.
THEOREM TypeCorrect == Safety => []TypeOK
<1>1. Inv0 => TypeOK
  BY DEF Inv0
<1> QED BY TypeInit, TypeStep, <1>1, PTL DEF Safety

-----------------------------------------------------------------------------
(* The inductive invariant: what a call knows of the bytes it read.        *)

\* A call past its admission expects a revision, and the bytes it is about to
\* replace, if they are still there, are of that revision.  The byte comparison
\* of the store carries this over to the instant of the write.
BaseIsExpected ==
  \A w \in Workers :
    /\ pc[w] \in {"policy", "prepare", "read", "write"} => expected[w] \in Contents
    /\ pc[w] = "write" => Content(base[w]) = expected[w]

IInv == Inv0 /\ BaseIsExpected /\ RetriesAreInterference

\* The inductive invariant holds initially: no call has a base yet.
LEMMA IInvInit == Init => IInv
BY TypeInit DEF IInv, Init, BaseIsExpected, RetriesAreInterference

\* A step that answers a call disturbs nobody else's.
LEMMA AnswerKeeps ==
  ASSUME IInv, Inv0', NEW w \in Workers, NEW out, NEW c, Answer(w, out, c), UNCHANGED store
  PROVE  BaseIsExpected' /\ RetriesAreInterference'
BY DEF IInv, Inv0, TypeOK, BaseIsExpected, RetriesAreInterference, Answer

\* Nor does a step of a call that leaves bytes, base and counters alone.
LEMMA GotoKeeps ==
  ASSUME IInv, Inv0', NEW w \in Workers, NEW from, NEW to, Goto(w, from, to),
         UNCHANGED <<store, expected, base, attempts, moves>>,
         to # "write",
         to \in {"policy", "prepare", "read", "write"} => expected[w] \in Contents
  PROVE  BaseIsExpected' /\ RetriesAreInterference'
BY DEF IInv, Inv0, TypeOK, BaseIsExpected, RetriesAreInterference, Goto

\* Every step keeps the inductive invariant: one step below per action.
LEMMA IInvStep == IInv /\ [Next]_vars => IInv'
<1> SUFFICES ASSUME IInv, [Next]_vars PROVE IInv'
  OBVIOUS
<1>0. Inv0 /\ Inv0'
  BY TypeStep DEF IInv
<1> SUFFICES BaseIsExpected' /\ RetriesAreInterference'
  BY <1>0 DEF IInv
<1> USE DEF Refuse
<1>1. ASSUME NEW w \in Workers, CallRead(w)
      PROVE  BaseIsExpected' /\ RetriesAreInterference'
  BY <1>0, <1>1, GotoKeeps DEF CallRead, localVars
<1>2. ASSUME NEW w \in Workers, NEW x \in Contents \cup {NoRevision},
             NEW v \in Contents, CallReplace(w, x, v)
      PROVE  BaseIsExpected' /\ RetriesAreInterference'
  BY <1>0, <1>2 DEF CallReplace, Goto, IInv, Inv0, TypeOK, BaseIsExpected,
                    RetriesAreInterference
<1>3. ASSUME NEW w \in Workers, ReadUser(w)
      PROVE  BaseIsExpected' /\ RetriesAreInterference'
  BY <1>0, <1>3, AnswerKeeps DEF ReadUser
<1>4. ASSUME NEW w \in Workers, Admit(w)
      PROVE  BaseIsExpected' /\ RetriesAreInterference'
  <2>1. CASE \E out : Answer(w, out, Corrupt)
    BY <1>0, <1>4, <2>1, AnswerKeeps DEF Admit
  <2>2. CASE /\ expected[w] # NoRevision
             /\ Goto(w, "admit", "policy") \/ Goto(w, "admit", "prepare")
             /\ UNCHANGED localVars
    BY <1>0, <1>4, <2>2, GotoKeeps DEF Admit, localVars, Inv0, TypeOK
  <2> QED BY <1>4, <2>1, <2>2 DEF Admit
<1>5. ASSUME NEW w \in Workers, AskPolicy(w)
      PROVE  BaseIsExpected' /\ RetriesAreInterference'
  <2>1. CASE \E out : Answer(w, out, Corrupt)
    BY <1>0, <1>5, <2>1, AnswerKeeps DEF AskPolicy
  <2>2. CASE Goto(w, "policy", "prepare") /\ UNCHANGED localVars
    BY <1>0, <1>5, <2>2, GotoKeeps DEF AskPolicy, localVars, IInv, BaseIsExpected
  <2> QED BY <1>5, <2>1, <2>2 DEF AskPolicy
<1>6. ASSUME NEW w \in Workers, Prepare(w)
      PROVE  BaseIsExpected' /\ RetriesAreInterference'
  <2>1. CASE Answer(w, "storage_unavailable", Corrupt)
    BY <1>0, <1>6, <2>1, AnswerKeeps DEF Prepare
  <2>2. CASE Goto(w, "prepare", "read") /\ UNCHANGED localVars
    BY <1>0, <1>6, <2>2, GotoKeeps DEF Prepare, localVars, IInv, BaseIsExpected
  <2> QED BY <1>6, <2>1, <2>2 DEF Prepare
<1>7. ASSUME NEW w \in Workers, ReadBase(w)
      PROVE  BaseIsExpected' /\ RetriesAreInterference'
  <2>1. CASE \E out, c : Answer(w, out, c)
    BY <1>0, <1>7, <2>1, AnswerKeeps DEF ReadBase
  <2>2. CASE /\ Content(store) = expected[w]
             /\ base' = [base EXCEPT ![w] = store]
             /\ Goto(w, "read", "write")
             /\ UNCHANGED <<expected, values, attempts, moves>>
    BY <1>0, <1>7, <2>2 DEF ReadBase, Goto, IInv, Inv0, TypeOK, BaseIsExpected,
                            RetriesAreInterference
  <2> QED BY <1>7, <2>1, <2>2 DEF ReadBase
<1>8. ASSUME NEW w \in Workers, WriteApplies(w)
      PROVE  BaseIsExpected' /\ RetriesAreInterference'
  <2>1. BaseIsExpected'
    BY <1>0, <1>8 DEF WriteApplies, Goto, IInv, Inv0, TypeOK, BaseIsExpected
  <2>2. ASSUME NEW u \in Workers
        PROVE  /\ attempts'[u] <= moves'[u]
               /\ pc'[u] = "write" /\ store' # base'[u] => attempts'[u] < moves'[u]
    <3>1. CASE u = w
      BY <1>0, <1>8, <3>1 DEF WriteApplies, Goto, ChangeTo, IInv, Inv0, TypeOK,
                              RetriesAreInterference
    <3>2. CASE u # w
      BY <1>0, <1>8, <3>2 DEF WriteApplies, Goto, ChangeTo, IInv, Inv0, TypeOK,
                              AttemptsLeft, RetriesAreInterference
    <3> QED BY <3>1, <3>2
  <2> QED BY <2>1, <2>2 DEF RetriesAreInterference
<1>9. ASSUME NEW w \in Workers, WriteMoved(w)
      PROVE  BaseIsExpected' /\ RetriesAreInterference'
  <2>1. CASE Answer(w, "storage_unavailable", Corrupt)
    BY <1>0, <1>9, <2>1, AnswerKeeps DEF WriteMoved
  <2>2. CASE /\ attempts' = [attempts EXCEPT ![w] = @ + 1]
             /\ base' = [base EXCEPT ![w] = Missing]
             /\ Goto(w, "write", "read")
             /\ UNCHANGED <<expected, values, moves>>
    BY <1>0, <1>9, <2>2 DEF WriteMoved, Goto, IInv, Inv0, TypeOK, BaseIsExpected,
                            RetriesAreInterference
  <2> QED BY <1>9, <2>1, <2>2 DEF WriteMoved
<1>10. ASSUME NEW w \in Workers, WriteFails(w)
       PROVE  BaseIsExpected' /\ RetriesAreInterference'
  BY <1>0, <1>10, AnswerKeeps DEF WriteFails
<1>11. ASSUME NEW w \in Workers, Announce(w)
       PROVE  BaseIsExpected' /\ RetriesAreInterference'
  BY <1>0, <1>11, AnswerKeeps DEF Announce
<1>12. ASSUME NEW w \in Workers, Reply(w)
       PROVE  BaseIsExpected' /\ RetriesAreInterference'
  BY <1>0, <1>12 DEF Reply, localVars, IInv, Inv0, TypeOK, BaseIsExpected,
                     RetriesAreInterference
<1>13. ASSUME NEW b \in Bytes, ForeignWrite(b)
       PROVE  BaseIsExpected' /\ RetriesAreInterference'
  BY <1>0, <1>13 DEF ForeignWrite, ChangeTo, IInv, Inv0, TypeOK, AttemptsLeft,
                     BaseIsExpected, RetriesAreInterference
<1>14. CASE Crash
  BY <1>0, <1>14 DEF Crash, BaseIsExpected, RetriesAreInterference
<1>15. CASE UNCHANGED vars
  BY <1>15 DEF vars, localVars, IInv, BaseIsExpected, RetriesAreInterference
<1> QED BY <1>1, <1>2, <1>3, <1>4, <1>5, <1>6, <1>7, <1>8, <1>9, <1>10, <1>11,
           <1>12, <1>13, <1>14, <1>15 DEF Next, WorkerStep

\* The inductive invariant of the editor holds in every reachable state.
THEOREM Invariance == Safety => []IInv
BY IInvInit, IInvStep, PTL DEF Safety

\* No call retries, or gives up, that was not interfered with that often.
THEOREM RetriesJustified == Safety => []RetriesAreInterference
<1>1. IInv => RetriesAreInterference
  BY DEF IInv
<1> QED BY Invariance, <1>1, PTL

-----------------------------------------------------------------------------
(* What a write may replace.                                               *)

\* The only step of a worker that changes the bytes is the conditional write,
\* which finds the bytes of the expected revision.
LEMMA OnlyWritesChange ==
  ASSUME IInv, [Next]_vars, NEW w \in Workers, pc'[w] # pc[w], store' # store
  PROVE  store = base[w] /\ pc[w] = "write"
<1> USE DEF Refuse
<1>1. ASSUME NEW u \in Workers, WriteApplies(u)
      PROVE  store = base[w] /\ pc[w] = "write"
  BY <1>1 DEF WriteApplies, Goto, IInv, Inv0, TypeOK
<1>2. ASSUME NEW b \in Bytes, ForeignWrite(b) PROVE FALSE
  BY <1>2 DEF ForeignWrite
<1>3. CASE Crash
  BY <1>3 DEF Crash
<1>4. ASSUME NEW u \in Workers, NEW x, NEW v, CallReplace(u, x, v) PROVE FALSE
  BY <1>4 DEF CallReplace
<1>5. ASSUME NEW u \in Workers,
             \/ ReadUser(u) \/ Admit(u) \/ AskPolicy(u) \/ Prepare(u) \/ ReadBase(u)
             \/ WriteMoved(u) \/ WriteFails(u) \/ Announce(u) \/ Reply(u) \/ CallRead(u)
      PROVE  FALSE
  BY <1>5 DEF ReadUser, Admit, AskPolicy, Prepare, ReadBase, WriteMoved, WriteFails,
              Announce, Reply, CallRead
<1>6. CASE UNCHANGED vars
  BY <1>6 DEF vars
<1> QED BY <1>1, <1>2, <1>3, <1>4, <1>5, <1>6 DEF Next, WorkerStep

\* Only WriteApplies takes a worker from "write" to "announce".
LEMMA OnlyAppliesAnnounces ==
  ASSUME IInv, [Next]_vars, NEW w \in Workers, pc[w] = "write", pc'[w] = "announce"
  PROVE  store = base[w]
<1> USE DEF Refuse, IInv, Inv0, TypeOK
<1>1. ASSUME NEW u \in Workers, WriteApplies(u) PROVE store = base[w]
  BY <1>1 DEF WriteApplies, Goto
<1>2. ASSUME NEW b \in Bytes, ForeignWrite(b) PROVE FALSE
  BY <1>2 DEF ForeignWrite
<1>3. CASE Crash
  BY <1>3 DEF Crash
<1>4. ASSUME NEW u \in Workers, NEW x, NEW v, CallReplace(u, x, v) PROVE FALSE
  BY <1>4 DEF CallReplace, Goto
<1>5. ASSUME NEW u \in Workers,
             \/ Admit(u) \/ AskPolicy(u) \/ Prepare(u) \/ ReadBase(u)
             \/ WriteMoved(u) \/ CallRead(u)
      PROVE  FALSE
  BY <1>5 DEF Admit, AskPolicy, Prepare, ReadBase, WriteMoved, CallRead, Goto, Answer
<1>6. ASSUME NEW u \in Workers, ReadUser(u) \/ WriteFails(u) \/ Announce(u) \/ Reply(u)
      PROVE  FALSE
  BY <1>6 DEF ReadUser, WriteFails, Announce, Reply, Answer
<1>7. CASE UNCHANGED vars
  BY <1>7 DEF vars
<1> QED BY <1>1, <1>2, <1>3, <1>4, <1>5, <1>6, <1>7 DEF Next, WorkerStep

\* No update is lost: the revision compared in one step still holds in the step
\* that writes.
THEOREM UpdatesKept == Safety => NoLostUpdate
<1>1. ASSUME IInv, [Next]_vars, NEW w \in Workers, pc[w] = "write", pc'[w] = "announce"
      PROVE  Content(store) = expected[w]
  BY <1>1, OnlyAppliesAnnounces DEF IInv, BaseIsExpected
<1>2. IInv /\ [Next]_vars =>
        [\A w \in Workers : pc[w] = "write" /\ pc'[w] = "announce"
           => Content(store) = expected[w]]_vars
  BY <1>1
<1> QED BY <1>2, Invariance, PTL DEF Safety, NoLostUpdate

\* Bytes that are no user record are never written over.
THEOREM CorruptSurvives == Safety => CorruptIsKept
<1>1. ASSUME IInv, [Next]_vars, NEW w \in Workers, pc'[w] # pc[w], store = Corrupt
      PROVE  store' = store
  BY <1>1, OnlyWritesChange DEF IInv, BaseIsExpected, Content
<1>2. IInv /\ [Next]_vars =>
        [\A w \in Workers : pc'[w] # pc[w] /\ store = Corrupt => store' = store]_vars
  BY <1>1
<1> QED BY <1>2, Invariance, PTL DEF Safety, CorruptIsKept

-----------------------------------------------------------------------------
(* The editor implements the register.                                     *)

Calls == [w \in Workers |-> AbstractCall(w)]

\* A step that touches one worker only shows in that worker's call.
LEMMA OneCallMoves ==
  ASSUME NEW w \in Workers,
         \A u \in Workers \ {w} :
           /\ pc'[u] = pc[u] /\ reply'[u] = reply[u]
           /\ expected'[u] = expected[u] /\ values'[u] = values[u]
  PROVE  Calls' = [Calls EXCEPT ![w] = AbstractCall(w)']
<1>1. \A u \in Workers \ {w} : AbstractCall(u)' = AbstractCall(u)
  BY DEF AbstractCall
<1> QED BY <1>1 DEF Calls

\* A step that moves a worker along inside its call does not show.
LEMMA CallStays ==
  ASSUME NEW w \in Workers, AbstractCall(w)' = AbstractCall(w),
         Calls' = [Calls EXCEPT ![w] = AbstractCall(w)']
  PROVE  Calls' = Calls
BY DEF Calls

\* Where a worker stands for its caller.
LEMMA CallReads ==
  ASSUME NEW w \in Workers
  PROVE  /\ Calls[w] = AbstractCall(w)
         /\ pc[w] = "idle" => AbstractCall(w) = Register!Idle
         /\ pc[w] = "readUser" => AbstractCall(w) = Register!PendingRead
         /\ pc[w] = "announce" => AbstractCall(w) = Register!Done("applied", values[w])
         /\ pc[w] = "reply" =>
              AbstractCall(w) = Register!Done(reply[w].outcome, reply[w].content)
         /\ pc[w] \in {"admit", "policy", "prepare", "read", "write"} =>
              AbstractCall(w) = Register!PendingReplace(expected[w], values[w])
BY DEF Calls, AbstractCall, Register!Idle, Register!PendingRead, Register!Done,
       Register!PendingReplace

\* The initial states of the editor are initial states of the register.
LEMMA RegisterStarts == Init => Register!RegisterInit
<1> SUFFICES ASSUME Init PROVE Register!RegisterInit
  OBVIOUS
<1>1. Content(store) \in Contents \cup {Corrupt}
  BY ContentOfBytes DEF Init
<1>2. Calls = [w \in Workers |-> Register!Idle]
  BY CallReads DEF Init, Calls
<1> QED BY <1>1, <1>2 DEF Register!RegisterInit, Calls

\* Answering with a settled outcome, in terms of the register's calls.
LEMMA AnswerShows ==
  ASSUME IInv, NEW w \in Workers, NEW out, NEW c, Answer(w, out, c)
  PROVE  Calls' = [Calls EXCEPT ![w] = Register!Done(out, c)]
<1>1. Calls' = [Calls EXCEPT ![w] = AbstractCall(w)']
  BY OneCallMoves DEF Answer, IInv, Inv0, TypeOK
<1>2. AbstractCall(w)' = Register!Done(out, c)
  BY DEF Answer, AbstractCall, IInv, Inv0, TypeOK, Register!Done
<1> QED BY <1>1, <1>2

\* A refusal shows as the register's refusal of a pending call.
LEMMA RefusalShows ==
  ASSUME IInv, NEW w \in Workers, NEW out \in Refusals, Refuse(w, out),
         UNCHANGED store,
         pc[w] \in {"readUser", "admit", "policy", "prepare", "read", "write"}
  PROVE  Register!RefuseCall(w)
<1>1. Calls' = [Calls EXCEPT ![w] = Register!Done(out, Corrupt)]
  BY AnswerShows DEF Refuse
<1>2. Calls[w].at = "pending"
  BY CallReads DEF Register!PendingRead, Register!PendingReplace
<1>3. out \in Register!Refusals
  BY DEF Refusals, Register!Refusals
<1> QED BY <1>1, <1>2, <1>3 DEF Register!RefuseCall, Calls

\* A call that moves on to its next step is still pending.
LEMMA PendingStays ==
  ASSUME IInv, NEW w \in Workers,
         NEW from \in {"admit", "policy", "prepare", "read", "write"},
         NEW to \in {"admit", "policy", "prepare", "read", "write"},
         Goto(w, from, to), UNCHANGED <<expected, values>>
  PROVE  Calls' = Calls
<1>1. Calls' = [Calls EXCEPT ![w] = AbstractCall(w)']
  BY OneCallMoves DEF Goto, IInv, Inv0, TypeOK
<1>2. AbstractCall(w)' = AbstractCall(w)
  BY DEF Goto, AbstractCall, IInv, Inv0, TypeOK
<1> QED BY <1>1, <1>2, CallStays

\* Every step of the editor is a step of the register, or does not show.
LEMMA RegisterSteps ==
  IInv /\ IInv' /\ [Next]_vars => [Register!RegisterNext]_(Register!registerVars)
<1> SUFFICES ASSUME IInv, IInv', [Next]_vars
             PROVE  Register!RegisterNext \/ (UNCHANGED Content(store) /\ Calls' = Calls)
  BY DEF Register!registerVars, Calls
<1>t. Content(store) \in Contents \cup {Corrupt} /\ Content(store)' \in Contents \cup {Corrupt}
  BY ContentOfBytes DEF IInv, Inv0, TypeOK
<1>1. ASSUME NEW w \in Workers, CallRead(w) PROVE Register!RequestRead(w)
  <2>1. Calls' = [Calls EXCEPT ![w] = AbstractCall(w)']
    BY <1>1, OneCallMoves DEF CallRead, Goto, localVars, IInv, Inv0, TypeOK
  <2>2. AbstractCall(w)' = Register!PendingRead
    BY <1>1 DEF CallRead, Goto, IInv, Inv0, TypeOK, AbstractCall, Register!PendingRead
  <2>3. Calls[w] = Register!Idle
    BY <1>1, CallReads DEF CallRead, Goto
  <2> QED BY <1>1, <2>1, <2>2, <2>3 DEF Register!RequestRead, Calls, CallRead
<1>2. ASSUME NEW w \in Workers, NEW x \in Contents \cup {NoRevision},
             NEW v \in Contents, CallReplace(w, x, v)
      PROVE  Register!RequestReplace(w, x, v)
  <2>1. Calls' = [Calls EXCEPT ![w] = AbstractCall(w)']
    BY <1>2, OneCallMoves DEF CallReplace, Goto, IInv, Inv0, TypeOK
  <2>2. AbstractCall(w)' = Register!PendingReplace(x, v)
    BY <1>2 DEF CallReplace, Goto, IInv, Inv0, TypeOK, AbstractCall, Register!PendingReplace
  <2>3. Calls[w] = Register!Idle
    BY <1>2, CallReads DEF CallReplace, Goto
  <2> QED BY <1>2, <2>1, <2>2, <2>3 DEF Register!RequestReplace, Calls, CallReplace
<1>3. ASSUME NEW w \in Workers, ReadUser(w)
      PROVE  Register!RefuseCall(w) \/ Register!ReadTakesEffect(w)
  <2>1. CASE \E out \in {"caller_refused", "storage_unavailable"} : Refuse(w, out)
    BY <1>3, <2>1, RefusalShows DEF ReadUser, Refusals
  <2>2. CASE Content(store) # Corrupt /\ Answer(w, "read", Content(store))
    <3>1. Calls' = [Calls EXCEPT ![w] = Register!Done("read", Content(store))]
      BY <2>2, AnswerShows
    <3>2. Calls[w] = Register!PendingRead
      BY <1>3, CallReads DEF ReadUser
    <3> QED BY <1>3, <1>t, <2>2, <3>1, <3>2 DEF ReadUser, Register!ReadTakesEffect, Calls
  <2> QED BY <1>3, <2>1, <2>2 DEF ReadUser
<1>4. ASSUME NEW w \in Workers, Admit(w)
      PROVE  Register!RefuseCall(w) \/ (store' = store /\ Calls' = Calls)
  <2>1. CASE \E out \in {"caller_refused", "invalid_revision"} : Refuse(w, out)
    BY <1>4, <2>1, RefusalShows DEF Admit, Refusals
  <2>2. CASE /\ Goto(w, "admit", "policy") \/ Goto(w, "admit", "prepare")
             /\ UNCHANGED localVars
    BY <1>4, <2>2, PendingStays DEF Admit, localVars
  <2> QED BY <1>4, <2>1, <2>2 DEF Admit
<1>5. ASSUME NEW w \in Workers, AskPolicy(w)
      PROVE  Register!RefuseCall(w) \/ (store' = store /\ Calls' = Calls)
  <2>1. CASE \E out \in {"forbidden", "unavailable", "caller_refused"} : Refuse(w, out)
    BY <1>5, <2>1, RefusalShows DEF AskPolicy, Refusals
  <2>2. CASE Goto(w, "policy", "prepare") /\ UNCHANGED localVars
    BY <1>5, <2>2, PendingStays DEF AskPolicy, localVars
  <2> QED BY <1>5, <2>1, <2>2 DEF AskPolicy
<1>6. ASSUME NEW w \in Workers, Prepare(w)
      PROVE  Register!RefuseCall(w) \/ (store' = store /\ Calls' = Calls)
  <2>1. CASE Refuse(w, "storage_unavailable")
    BY <1>6, <2>1, RefusalShows DEF Prepare, Refusals
  <2>2. CASE Goto(w, "prepare", "read") /\ UNCHANGED localVars
    BY <1>6, <2>2, PendingStays DEF Prepare, localVars
  <2> QED BY <1>6, <2>1, <2>2 DEF Prepare
<1>7. ASSUME NEW w \in Workers, ReadBase(w)
      PROVE  \/ Register!RefuseCall(w)
             \/ Register!Conflict(w, expected[w], values[w])
             \/ store' = store /\ Calls' = Calls
  <2>1. CASE Refuse(w, "storage_unavailable")
    BY <1>7, <2>1, RefusalShows DEF ReadBase, Refusals
  <2>2. CASE /\ Content(store) \notin {Corrupt, expected[w]}
             /\ Answer(w, "conflict", Content(store))
    <3>1. Calls' = [Calls EXCEPT ![w] = Register!Done("conflict", Content(store))]
      BY <2>2, AnswerShows
    <3>2. Calls[w] = Register!PendingReplace(expected[w], values[w])
      BY <1>7, CallReads DEF ReadBase
    <3> QED BY <1>7, <1>t, <2>2, <3>1, <3>2 DEF ReadBase, Register!Conflict, Calls
  <2>3. CASE Goto(w, "read", "write") /\ UNCHANGED <<expected, values, attempts, moves>>
    BY <1>7, <2>3, PendingStays DEF ReadBase
  <2> QED BY <1>7, <2>1, <2>2, <2>3 DEF ReadBase
<1>8. ASSUME NEW w \in Workers, WriteApplies(w)
      PROVE  Register!Apply(w, expected[w], values[w])
  <2>1. Calls' = [Calls EXCEPT ![w] = AbstractCall(w)']
    BY <1>8, OneCallMoves DEF WriteApplies, Goto, IInv, Inv0, TypeOK
  <2>2. AbstractCall(w)' = Register!Done("applied", values[w])
    BY <1>8 DEF WriteApplies, Goto, IInv, Inv0, TypeOK, AbstractCall, Register!Done
  <2>3. Calls[w] = Register!PendingReplace(expected[w], values[w])
    BY <1>8, CallReads DEF WriteApplies, Goto
  <2>4. Content(store) = expected[w]
    BY <1>8 DEF WriteApplies, Goto, IInv, BaseIsExpected
  <2>5. Content(store)' = values[w]
    BY <1>8, SpellIsRecord DEF WriteApplies, ChangeTo, IInv, Inv0, TypeOK
  <2> QED BY <2>1, <2>2, <2>3, <2>4, <2>5 DEF Register!Apply, Calls
<1>9. ASSUME NEW w \in Workers, WriteMoved(w)
      PROVE  Register!RefuseCall(w) \/ (store' = store /\ Calls' = Calls)
  <2>1. CASE Refuse(w, "storage_unavailable")
    BY <1>9, <2>1, RefusalShows DEF WriteMoved, Refusals
  <2>2. CASE Goto(w, "write", "read") /\ UNCHANGED <<expected, values, moves>>
    BY <1>9, <2>2, PendingStays DEF WriteMoved
  <2> QED BY <1>9, <2>1, <2>2 DEF WriteMoved
<1>10. ASSUME NEW w \in Workers, WriteFails(w) PROVE Register!RefuseCall(w)
  BY <1>10, RefusalShows DEF WriteFails, Refusals
<1>11. ASSUME NEW w \in Workers, Announce(w) PROVE store' = store /\ Calls' = Calls
  <2>1. Calls' = [Calls EXCEPT ![w] = Register!Done("applied", values[w])]
    BY <1>11, AnswerShows DEF Announce
  <2>2. Calls[w] = Register!Done("applied", values[w])
    BY <1>11, CallReads DEF Announce
  <2> QED BY <1>11, <2>1, <2>2 DEF Announce, Calls
<1>12. ASSUME NEW w \in Workers, Reply(w) PROVE Register!Answered(w)
  <2>1. Calls' = [Calls EXCEPT ![w] = AbstractCall(w)']
    BY <1>12, OneCallMoves DEF Reply, localVars, IInv, Inv0, TypeOK
  <2>2. AbstractCall(w)' = Register!Idle
    BY <1>12 DEF Reply, IInv, Inv0, TypeOK, AbstractCall, Register!Idle
  <2>3. Calls[w].at = "done"
    BY <1>12, CallReads DEF Reply, Register!Done
  <2> QED BY <1>12, <2>1, <2>2, <2>3 DEF Register!Answered, Calls, Reply
<1>13. ASSUME NEW b \in Bytes, ForeignWrite(b) PROVE Register!OtherWriter
  <2>1. Calls' = Calls
    BY <1>13 DEF ForeignWrite, Calls, AbstractCall
  <2> QED BY <1>t, <2>1 DEF Register!OtherWriter, Calls
<1>14. CASE Crash
  <2>1. Calls' = [w \in Workers |-> Register!Idle]
    BY <1>14 DEF Crash, Calls, AbstractCall, Register!Idle
  <2>2. Register!ServiceDies
    BY <1>14, <2>1 DEF Register!ServiceDies, Calls, Crash
  <2> QED BY <2>2 DEF Register!RegisterNext
<1>15. CASE UNCHANGED vars
  BY <1>15 DEF vars, localVars, Calls, AbstractCall
<1>16. ASSUME NEW w \in Workers PROVE expected[w] \in Contents \cup {NoRevision} /\ values[w] \in Contents
  BY DEF IInv, Inv0, TypeOK
<1>17. store' = store => UNCHANGED Content(store)
  OBVIOUS
<1> QED
  BY <1>1, <1>2, <1>3, <1>4, <1>5, <1>6, <1>7, <1>8, <1>9, <1>10, <1>11, <1>12,
     <1>13, <1>14, <1>15, <1>16, <1>17
  DEF Next, WorkerStep, Register!RegisterNext, vars

\* The editor is a compare-and-set register: every call takes effect at once,
\* somewhere between its request and its answer.
THEOREM EditorIsRegister == Safety => ImplementsRegister
BY Invariance, RegisterStarts, RegisterSteps, PTL
   DEF Safety, ImplementsRegister, Register!RegisterSpec

-----------------------------------------------------------------------------
(* The clients.                                                            *)

Under == {"admit", "policy", "prepare", "read", "write"}

ClientTypeOK ==
  /\ edit \in [Clients -> [expected : Contents \cup {NoRevision}, values : Contents]]
  /\ waitsFor \in [Clients -> Workers \cup {Nobody}]
  /\ told \in [Clients -> {"nothing", "applied", "unavailable", "refused", "unresolved"}]
  /\ serves \in [Workers -> Clients \cup {Nobody}]
  /\ wrote \in [Clients -> BOOLEAN]
  /\ standing \in [Clients -> BOOLEAN]

\* A worker that serves a client has the client's edit, left behind or not, and
\* the client waits for a worker that serves it.
Served ==
  /\ \A w \in Workers, c \in Clients : serves[w] = c =>
       /\ pc[w] \in Under \cup {"announce", "reply"}
       /\ pc[w] \in Under => expected[w] = edit[c].expected
       /\ pc[w] \in Under \cup {"announce"} => values[w] = edit[c].values
  /\ \A w \in Workers, c \in Clients :
       waitsFor[c] = w => serves[w] = c /\ told[c] = "nothing"

\* Where an edit stands, its content is what the record holds.
Stands == \A c \in Clients : standing[c] => Content(store) = edit[c].values

\* The attempt a client waits for has written when its worker is past the
\* write, and when the answer says so.
AttemptsKnown ==
  \A w \in Workers, c \in Clients : waitsFor[c] = w =>
    /\ pc[w] \in Under => ~wrote[c]
    /\ pc[w] = "announce" => wrote[c]
    /\ pc[w] = "reply" => (wrote[c] <=> reply[w].outcome = "applied")

ClientInv == IInv /\ ClientTypeOK /\ Served /\ Stands /\ AttemptsKnown /\ ToldTruth

USE ClientAssumption

\* Every step of the composition is a step of the editor, or none of it.
LEMMA ClientStepsEditor ==
  ASSUME ClientTypeOK, [ClientNext]_allVars
  PROVE  [Next]_vars
<1>1. ASSUME NEW c \in Clients, NEW w \in Workers, Retry(c, w) PROVE Next
  BY <1>1 DEF Retry, Send, ClientTypeOK, Next
<1>2. ASSUME NEW c \in Clients, NEW w \in Workers, NEW x \in Read, NEW v \in Wanted,
             BeginEdit(c, w, x, v)
      PROVE  Next
  <2>1. edit'[c] = [expected |-> x, values |-> v]
    BY <1>2 DEF BeginEdit, ClientTypeOK
  <2> QED
    BY <1>2, <2>1 DEF BeginEdit, Send, Next
<1>3. ASSUME NEW w \in Workers, WorkerRuns(w) PROVE Next
  BY <1>3 DEF WorkerRuns, WorkerGoesOn, Apply, Deliver, Next, WorkerStep
<1>4. ASSUME NEW w \in Workers, OthersCall(w) PROVE Next
  BY <1>4 DEF OthersCall, Next
<1>5. ASSUME NEW c \in Clients, TimeOut(c) PROVE UNCHANGED vars
  BY <1>5 DEF TimeOut
<1>6. ASSUME NEW b \in Bytes, OthersWrite(b) PROVE Next
  BY <1>6 DEF OthersWrite, Next
<1>7. CASE ServiceCrash
  BY <1>7 DEF ServiceCrash, Next
<1>8. CASE UNCHANGED allVars
  BY <1>8 DEF allVars
<1> QED
  BY <1>1, <1>2, <1>3, <1>4, <1>5, <1>6, <1>7, <1>8 DEF ClientNext

\* No client has begun an edit.
LEMMA ClientStarts == ClientInit => ClientInv
BY IInvInit DEF Init, ClientInit, ClientInv, ClientTypeOK, Served, Stands, AttemptsKnown,
   ToldTruth, NoEdit

\* A client sends its edit to a worker that is free.
LEMMA SendKeeps ==
  ASSUME ClientInv, IInv', NEW c \in Clients, NEW w \in Workers, Send(c, w),
         edit' \in [Clients -> [expected : Contents \cup {NoRevision}, values : Contents]],
         edit' = edit \/ (standing'[c] = FALSE /\ \A u \in Workers : serves[u] # c),
         \A d \in Clients \ {c} : edit'[d] = edit[d] /\ standing'[d] = standing[d],
         standing' \in [Clients -> BOOLEAN], standing'[c] => standing[c]
  PROVE  ClientInv'
<1> USE DEF ClientInv, IInv, Inv0, TypeOK
<1>1. /\ pc[w] = "idle" /\ pc' = [pc EXCEPT ![w] = "admit"] /\ waitsFor[c] = Nobody
      /\ expected' = [expected EXCEPT ![w] = edit'[c].expected]
      /\ values' = [values EXCEPT ![w] = edit'[c].values]
      /\ waitsFor' = [waitsFor EXCEPT ![c] = w] /\ serves' = [serves EXCEPT ![w] = c]
      /\ told' = [told EXCEPT ![c] = "nothing"] /\ wrote' = [wrote EXCEPT ![c] = FALSE]
      /\ UNCHANGED <<store, reply>>
  BY DEF Send, CallReplace, Goto
<1>2. ClientTypeOK'
  BY <1>1 DEF ClientTypeOK
<1>3. \A d \in Clients : waitsFor[d] # w /\ serves[w] # d
  BY <1>1 DEF Served, Under
<1>4. Served'
  BY <1>1, <1>3 DEF Served, Under, ClientTypeOK
<1>5. Stands'
  BY <1>1 DEF Stands, ClientTypeOK
<1>6. AttemptsKnown' /\ ToldTruth'
  BY <1>1, <1>3 DEF AttemptsKnown, ToldTruth, Under, ClientTypeOK
<1> QED
  BY <1>2, <1>4, <1>5, <1>6

\* A worker goes on to an answer or to its next step, and has not written.
LEMMA GoingOnKeeps ==
  ASSUME ClientInv, IInv', NEW w \in Workers, WorkerGoesOn(w)
  PROVE  ClientInv'
<1> USE DEF ClientInv, IInv, Inv0, TypeOK
<1>1. ASSUME NEW out \in Outcomes, NEW r, Answer(w, out, r), UNCHANGED <<store, clientVars>>,
             pc[w] \in Under \cup {"readUser", "announce"},
             out = "applied" <=> pc[w] = "announce"
      PROVE  ClientInv'
  BY <1>1 DEF Answer, clientVars, ClientTypeOK, Served, Under, Stands, AttemptsKnown, ToldTruth
<1>2. ASSUME NEW from \in Under, NEW to \in Under, Goto(w, from, to),
             UNCHANGED <<store, expected, values, clientVars>>
      PROVE  ClientInv'
  BY <1>2 DEF Goto, clientVars, ClientTypeOK, Served, Under, Stands, AttemptsKnown, ToldTruth
<1>3. ReadUser(w) => ClientInv'
  BY <1>1 DEF ReadUser, Refuse, WorkerGoesOn, Outcomes, Refusals
<1>4. Admit(w) => ClientInv'
  BY <1>1, <1>2 DEF Admit, Refuse, WorkerGoesOn, Outcomes, Refusals, Under, localVars
<1>5. AskPolicy(w) => ClientInv'
  BY <1>1, <1>2 DEF AskPolicy, Refuse, WorkerGoesOn, Outcomes, Refusals, Under, localVars
<1>6. Prepare(w) => ClientInv'
  BY <1>1, <1>2 DEF Prepare, Refuse, WorkerGoesOn, Outcomes, Refusals, Under, localVars
<1>7. ReadBase(w) => ClientInv'
  BY <1>1, <1>2 DEF ReadBase, Refuse, WorkerGoesOn, Outcomes, Refusals, Under
<1>8. WriteMoved(w) \/ WriteFails(w) => ClientInv'
  BY <1>1, <1>2 DEF WriteMoved, WriteFails, Refuse, WorkerGoesOn, Outcomes, Refusals, Under
<1>9. Announce(w) => ClientInv'
  BY <1>1 DEF Announce, WorkerGoesOn, Outcomes
<1> QED
  BY <1>3, <1>4, <1>5, <1>6, <1>7, <1>8, <1>9 DEF WorkerGoesOn

\* The write and the answer.
LEMMA ServingKeeps ==
  ASSUME ClientInv, IInv', NEW w \in Workers, Apply(w) \/ Deliver(w)
  PROVE  ClientInv'
<1> USE DEF ClientInv, IInv, Inv0, TypeOK
<1>1. CASE Apply(w)
  <2>1. /\ pc[w] = "write" /\ pc' = [pc EXCEPT ![w] = "announce"] /\ store' = Spell(values[w])
        /\ UNCHANGED <<reply, expected, values, edit, waitsFor, told, serves>>
        /\ wrote' = [c \in Clients |-> wrote[c] \/ waitsFor[c] = w]
        /\ standing' = [c \in Clients |->
             serves[w] = c \/ (standing[c] /\ Content(store') = Content(store))]
    BY <1>1 DEF Apply, WriteApplies, Goto, ChangeTo
  <2>2. Content(store') = values[w]
    BY <2>1, SpellIsRecord
  <2>3. ClientTypeOK' /\ Served'
    BY <2>1 DEF ClientTypeOK, Served, Under
  <2>4. Stands'
    <3> SUFFICES ASSUME NEW d \in Clients, standing'[d] PROVE Content(store') = edit[d].values
      BY <2>1 DEF Stands
    <3>1. CASE serves[w] = d
      BY <2>1, <2>2, <3>1 DEF Served, Under
    <3>2. CASE serves[w] # d
      <4>1. standing[d] /\ Content(store') = Content(store)
        BY <2>1, <3>2
      <4> QED
        BY <4>1 DEF Stands
    <3> QED
      BY <3>1, <3>2
  <2>5. AttemptsKnown' /\ ToldTruth'
    BY <2>1 DEF AttemptsKnown, ToldTruth, Served, Under, ClientTypeOK
  <2> QED
    BY <2>3, <2>4, <2>5
<1>2. CASE Deliver(w)
  <2>1. /\ pc[w] = "reply" /\ pc' = [pc EXCEPT ![w] = "idle"]
        /\ reply' = [reply EXCEPT ![w] = NoReply]
        /\ serves' = [serves EXCEPT ![w] = Nobody]
        /\ waitsFor' = [c \in Clients |-> IF waitsFor[c] = w THEN Nobody ELSE waitsFor[c]]
        /\ told' = [c \in Clients |-> IF waitsFor[c] = w THEN Told(reply[w].outcome) ELSE told[c]]
        /\ UNCHANGED <<store, expected, values, edit, wrote, standing>>
    BY <1>2 DEF Deliver, Reply, localVars
  <2>2. ClientTypeOK'
    BY <2>1 DEF ClientTypeOK, Told
  <2>3. Served'
    BY <2>1 DEF ClientTypeOK, Served, Under
  <2>4. Stands' /\ AttemptsKnown'
    BY <2>1 DEF ClientTypeOK, Stands, AttemptsKnown
  <2>5. ToldTruth'
    BY <2>1 DEF ClientTypeOK, AttemptsKnown, ToldTruth, Told
  <2> QED
    BY <2>2, <2>3, <2>4, <2>5
<1> QED
  BY <1>1, <1>2

\* Others: callers nobody follows, waits that end, writers and crashes.
LEMMA OthersKeep ==
  ASSUME ClientInv, IInv',
         \/ \E w \in Workers : OthersCall(w)
         \/ \E c \in Clients : TimeOut(c)
         \/ \E b \in Bytes : OthersWrite(b)
         \/ ServiceCrash
         \/ UNCHANGED allVars
  PROVE  ClientInv'
<1> USE DEF ClientInv, IInv, Inv0, TypeOK
<1>1. ASSUME NEW w \in Workers, OthersCall(w) PROVE ClientInv'
  <2>1. /\ pc[w] = "idle" /\ \E to \in {"readUser", "admit"} : pc' = [pc EXCEPT ![w] = to]
        /\ \A u \in Workers \ {w} : expected'[u] = expected[u] /\ values'[u] = values[u]
        /\ UNCHANGED <<store, reply, clientVars>>
    BY <1>1 DEF OthersCall, CallRead, CallReplace, Goto, localVars
  <2> QED
    BY <2>1 DEF clientVars, ClientTypeOK, Served, Under, Stands, AttemptsKnown, ToldTruth
<1>2. ASSUME NEW c \in Clients, TimeOut(c) PROVE ClientInv'
  <2>1. /\ waitsFor' = [waitsFor EXCEPT ![c] = Nobody] /\ told' = [told EXCEPT ![c] = "unresolved"]
        /\ UNCHANGED <<store, pc, reply, expected, values, edit, serves, wrote, standing>>
    BY <1>2 DEF TimeOut, vars, localVars
  <2>2. ClientTypeOK'
    BY <2>1 DEF ClientTypeOK
  <2>3. \A w \in Workers, d \in Clients : waitsFor'[d] = w => d # c /\ waitsFor[d] = w
    BY <2>1 DEF ClientTypeOK
  <2>4. Served' /\ Stands'
    BY <2>1, <2>3 DEF ClientTypeOK, Served, Stands
  <2>5. AttemptsKnown'
    BY <2>1, <2>3 DEF AttemptsKnown
  <2>6. ToldTruth'
    BY <2>1 DEF ToldTruth, ClientTypeOK
  <2> QED
    BY <2>2, <2>4, <2>5, <2>6
<1>3. ASSUME NEW b \in Bytes, OthersWrite(b) PROVE ClientInv'
  <2>1. /\ standing' = [c \in Clients |-> standing[c] /\ Content(b) = Content(store)]
        /\ store' = b
        /\ UNCHANGED <<pc, reply, expected, values, edit, waitsFor, told, serves, wrote>>
    BY <1>3 DEF OthersWrite, ForeignWrite, ChangeTo
  <2>2. ClientTypeOK' /\ Served' /\ AttemptsKnown' /\ ToldTruth'
    BY <2>1 DEF ClientTypeOK, Served, AttemptsKnown, ToldTruth
  <2>3. ASSUME NEW c \in Clients, standing'[c] PROVE Content(store') = edit[c].values
    <3>1. standing[c] /\ Content(b) = Content(store)
      BY <2>1, <2>3
    <3> QED
      BY <2>1, <3>1 DEF Stands
  <2>4. Stands'
    BY <2>1, <2>3 DEF Stands
  <2> QED
    BY <2>2, <2>4
<1>4. CASE ServiceCrash
  <2>1. /\ serves' = [w \in Workers |-> Nobody] /\ waitsFor' = [c \in Clients |-> Nobody]
        /\ told' = [c \in Clients |-> IF waitsFor[c] = Nobody THEN told[c] ELSE "unresolved"]
        /\ UNCHANGED <<store, edit, wrote, standing>>
    BY <1>4 DEF ServiceCrash, Crash
  <2>2. ClientTypeOK' /\ Served' /\ Stands' /\ AttemptsKnown'
    BY <2>1 DEF ClientTypeOK, Served, Stands, AttemptsKnown
  <2>3. ToldTruth'
    BY <2>1 DEF ToldTruth, ClientTypeOK
  <2> QED
    BY <2>2, <2>3
<1>5. CASE UNCHANGED allVars
  BY <1>5 DEF allVars, vars, localVars, clientVars, ClientTypeOK, Served, Stands, AttemptsKnown,
              ToldTruth
<1> QED
  BY <1>1, <1>2, <1>3, <1>4, <1>5

\* Every step of the composition keeps the invariant.
LEMMA ClientStep == ClientInv /\ [ClientNext]_allVars => ClientInv'
<1> SUFFICES ASSUME ClientInv, [ClientNext]_allVars PROVE ClientInv'
  OBVIOUS
<1>1. IInv'
  BY ClientStepsEditor, IInvStep DEF ClientInv
<1>2. ASSUME NEW c \in Clients, NEW w \in Workers, Retry(c, w) PROVE ClientInv'
  BY <1>1, <1>2, SendKeeps DEF Retry, ClientInv, ClientTypeOK
<1>3. ASSUME NEW c \in Clients, NEW w \in Workers, NEW x \in Read, NEW v \in Wanted,
             BeginEdit(c, w, x, v)
      PROVE  ClientInv'
  <2>1. /\ edit' \in [Clients -> [expected : Contents \cup {NoRevision}, values : Contents]]
        /\ standing' \in [Clients -> BOOLEAN] /\ standing'[c] = FALSE
        /\ \A d \in Clients \ {c} : edit'[d] = edit[d] /\ standing'[d] = standing[d]
    BY <1>3 DEF BeginEdit, ClientInv, ClientTypeOK
  <2> QED
    BY <1>1, <1>3, <2>1, SendKeeps DEF BeginEdit
<1> QED
  BY <1>1, <1>2, <1>3, GoingOnKeeps, ServingKeeps, OthersKeep DEF ClientNext, WorkerRuns

\* The inductive invariant of the editor with its clients.
THEOREM ClientInvariance == ClientSpec => []ClientInv
BY ClientStarts, ClientStep, PTL DEF ClientSpec

\* With its clients the editor is the editor: what is proved of it holds there.
THEOREM ClientsDriveEditor == ClientSpec => Safety
<1>1. ClientInv /\ [ClientNext]_allVars => [Next]_vars
  BY ClientStepsEditor DEF ClientInv
<1>2. ClientInit => Init
  BY DEF ClientInit
<1> QED
  BY <1>1, <1>2, ClientInvariance, PTL DEF ClientSpec, Safety

\* What a caller is told for certain is what its attempt did.
THEOREM TellsTheTruth == ClientSpec => []ToldTruth
<1>1. ClientInv => ToldTruth
  BY DEF ClientInv
<1> QED
  BY <1>1, ClientInvariance, PTL

\* Attempts of one edit write it once, for any number of clients and workers,
\* unless somebody else restores what the edit expects.
THEOREM EditsApplyOnce == ClientSpec => AppliedOnce
<1>1. ASSUME ClientInv, [ClientNext]_allVars, NEW w \in Workers, NEW c \in Clients,
             serves[w] = c, pc[w] = "write", pc'[w] = "announce", standing[c]
      PROVE  edit[c].expected = edit[c].values
  <2>1. store = base[w]
    BY <1>1, ClientStepsEditor, OnlyAppliesAnnounces DEF ClientInv
  <2> QED
    BY <1>1, <2>1 DEF ClientInv, IInv, BaseIsExpected, Stands, Served, Under
<1>2. ClientInv /\ [ClientNext]_allVars =>
        [\A w \in Workers, c \in Clients :
           serves[w] = c /\ pc[w] = "write" /\ pc'[w] = "announce" /\ standing[c]
             => edit[c].expected = edit[c].values]_allVars
  BY <1>1
<1> QED
  BY <1>2, ClientInvariance, PTL DEF ClientSpec, AppliedOnce
=============================================================================
