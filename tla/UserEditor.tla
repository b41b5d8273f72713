----------------------------- MODULE UserEditor -----------------------------
(***************************************************************************)
(* The config editor (go/service/editor.go) and the conditional replace    *)
(* under it (ReplaceUserStore, go/user_editor.go): workers that serve      *)
(* ReadUser and ReplaceUser calls on one user record, in a store whose     *)
(* only conditional write compares bytes, while other programs write the   *)
(* same file with any bytes they like.                                     *)
(*                                                                         *)
(* It implements UserRegister, where every call takes effect at once.      *)
(***************************************************************************)
EXTENDS Naturals

CONSTANTS
  Contents,      \* normalized user values; their hash is the revision
  Empty,         \* the content of a missing record
  Missing,       \* no file
  Corrupt,       \* bytes the strict parser refuses, or too many of them
  Canonical,     \* the spelling json.MarshalIndent gives a content
  Spellings,     \* the ways bytes may spell one content
  NoRevision,    \* the empty expected revision
  Workers,       \* goroutines serving editor calls
  MaxAttempts    \* conditional writes a call tries (32 in the code)

ASSUME EditorAssumption ==
  /\ Empty \in Contents
  /\ Canonical \in Spellings
  /\ NoRevision \notin Contents
  /\ Corrupt \notin Contents
  /\ Corrupt # Missing
  /\ MaxAttempts \in Nat \ {0}

Records == [content : Contents, spelling : Spellings]
Bytes   == Records \cup {Missing, Corrupt}

ASSUME BytesAssumption == Missing \notin Records /\ Corrupt \notin Records

VARIABLES
  store,      \* the bytes of the user record
  pc,         \* where each worker stands
  expected,   \* the revision its caller expects
  values,     \* the content its caller wants
  base,       \* the bytes it read, the base of its conditional write
  attempts,   \* conditional writes that found the bytes moved
  reply,      \* its answer: outcome and content
  moves       \* history: times others changed the bytes since the call began

localVars == <<expected, values, base, attempts, moves>>
vars      == <<store, pc, reply, localVars>>

Steps    == {"idle", "readUser", "admit", "policy", "prepare", "read", "write",
             "announce", "reply"}
Refusals == {"forbidden", "unavailable", "invalid_revision", "storage_unavailable",
             "caller_refused"}
Outcomes == Refusals \cup {"none", "read", "applied", "conflict"}

TypeOK ==
  /\ store \in Bytes
  /\ pc \in [Workers -> Steps]
  /\ expected \in [Workers -> Contents \cup {NoRevision}]
  /\ values \in [Workers -> Contents]
  /\ base \in [Workers -> Bytes]
  /\ attempts \in [Workers -> 0 .. MaxAttempts]
  /\ reply \in [Workers -> [outcome : Outcomes, content : Contents \cup {Corrupt}]]
  /\ moves \in [Workers -> 0 .. MaxAttempts]

\* userSnapshot: what the strict parser makes of the bytes.  A missing record
\* has the empty content; a corrupt one has none.
Content(b) ==
  IF b = Missing THEN Empty ELSE IF b = Corrupt THEN Corrupt ELSE b.content

\* What ReplaceUserStore writes for a content.
Spell(c) == [content |-> c, spelling |-> Canonical]

NoReply == [outcome |-> "none", content |-> Corrupt]

Init ==
  /\ store \in Bytes
  /\ pc = [w \in Workers |-> "idle"]
  /\ expected = [w \in Workers |-> NoRevision]
  /\ values = [w \in Workers |-> Empty]
  /\ base = [w \in Workers |-> Missing]
  /\ attempts = [w \in Workers |-> 0]
  /\ reply = [w \in Workers |-> NoReply]
  /\ moves = [w \in Workers |-> 0]

-----------------------------------------------------------------------------
Goto(w, from, to) ==
  /\ pc[w] = from
  /\ pc' = [pc EXCEPT ![w] = to]
  /\ UNCHANGED reply

\* The answer is settled and the variables of the call are gone; the worker
\* sends the answer in a step of its own.
Answer(w, out, c) ==
  /\ pc' = [pc EXCEPT ![w] = "reply"]
  /\ reply' = [reply EXCEPT ![w] = [outcome |-> out, content |-> c]]
  /\ expected' = [expected EXCEPT ![w] = NoRevision]
  /\ values' = [values EXCEPT ![w] = Empty]
  /\ base' = [base EXCEPT ![w] = Missing]
  /\ attempts' = [attempts EXCEPT ![w] = 0]
  /\ moves' = [moves EXCEPT ![w] = 0]

Refuse(w, out) == Answer(w, out, Corrupt)

CallRead(w) ==
  /\ Goto(w, "idle", "readUser")
  /\ UNCHANGED <<store, localVars>>

CallReplace(w, x, v) ==
  /\ Goto(w, "idle", "admit")
  /\ expected' = [expected EXCEPT ![w] = x]
  /\ values' = [values EXCEPT ![w] = v]
  /\ UNCHANGED <<store, base, attempts, moves>>

\* ReadUser: authorize, read, parse.
ReadUser(w) ==
  /\ pc[w] = "readUser"
  /\ \/ \E out \in {"caller_refused", "storage_unavailable"} : Refuse(w, out)
     \/ Content(store) # Corrupt /\ Answer(w, "read", Content(store))
  /\ UNCHANGED store

\* ReplaceUser: the caller, then the expected revision, then the policy if the
\* host has one.
Admit(w) ==
  /\ pc[w] = "admit"
  /\ \/ Refuse(w, "caller_refused")
     \/ expected[w] = NoRevision /\ Refuse(w, "invalid_revision")
     \/ /\ expected[w] # NoRevision
        /\ Goto(w, "admit", "policy") \/ Goto(w, "admit", "prepare")
        /\ UNCHANGED localVars
  /\ UNCHANGED store

\* The policy allows, refuses, or cannot be asked in time.
AskPolicy(w) ==
  /\ pc[w] = "policy"
  /\ \/ \E out \in {"forbidden", "unavailable", "caller_refused"} : Refuse(w, out)
     \/ Goto(w, "policy", "prepare") /\ UNCHANGED localVars
  /\ UNCHANGED store

\* The new bytes are made and measured before the store is touched.
Prepare(w) ==
  /\ pc[w] = "prepare"
  /\ \/ Refuse(w, "storage_unavailable")
     \/ Goto(w, "prepare", "read") /\ UNCHANGED localVars
  /\ UNCHANGED store

\* Bugs the run rules out: the base is the content spelled anew and not the
\* bytes read; corrupt bytes pass for an empty record; the revision is not
\* compared.
ReadBaseRespelled(w) ==
  /\ pc[w] = "read"
  /\ \/ /\ Content(store) \notin {Corrupt, expected[w]}
        /\ Answer(w, "conflict", Content(store))
     \/ /\ Content(store) = expected[w]
        /\ base' = [base EXCEPT ![w] = Spell(Content(store))]
        /\ Goto(w, "read", "write")
        /\ UNCHANGED <<expected, values, attempts, moves>>
  /\ UNCHANGED store

ReadBaseForgiving(w) ==
  /\ \/ Content(store) = expected[w]
     \/ Content(store) = Corrupt /\ expected[w] = Empty
  /\ base' = [base EXCEPT ![w] = store]
  /\ Goto(w, "read", "write")
  /\ UNCHANGED <<store, expected, values, attempts, moves>>

ReadBaseUncompared(w) ==
  /\ Content(store) # Corrupt
  /\ base' = [base EXCEPT ![w] = store]
  /\ Goto(w, "read", "write")
  /\ UNCHANGED <<store, expected, values, attempts, moves>>

\* One turn of the loop: read and parse; another revision is a conflict, the
\* expected one makes these bytes the base of the write.
ReadBase(w) ==
  /\ pc[w] = "read"
  /\ \/ Refuse(w, "storage_unavailable")
     \/ /\ Content(store) \notin {Corrupt, expected[w]}
        /\ Answer(w, "conflict", Content(store))
     \/ /\ Content(store) = expected[w]
        /\ base' = [base EXCEPT ![w] = store]
        /\ Goto(w, "read", "write")
        /\ UNCHANGED <<expected, values, attempts, moves>>
  /\ UNCHANGED store

\* The bytes become b; the calls of `others` may notice.
ChangeTo(b, others) ==
  /\ store' = b
  /\ moves' = [w \in Workers |->
       IF w \in others /\ pc[w] \notin {"idle", "reply"} /\ b # store
                       /\ moves[w] < MaxAttempts
         THEN moves[w] + 1 ELSE moves[w]]

\* A bug the run rules out: the write is not conditional.
WriteOver(w) ==
  /\ Goto(w, "write", "announce")
  /\ ChangeTo(Spell(values[w]), Workers \ {w})
  /\ UNCHANGED <<expected, values, base, attempts>>

\* The store compares the bytes with the base and writes, in one step.
WriteApplies(w) ==
  /\ store = base[w]
  /\ Goto(w, "write", "announce")
  /\ ChangeTo(Spell(values[w]), Workers \ {w})
  /\ UNCHANGED <<expected, values, base, attempts>>

\* A bug the run rules out: the attempts are not counted.
WriteMovedUncounted(w) ==
  /\ pc[w] = "write" /\ store # base[w]
  /\ base' = [base EXCEPT ![w] = Missing]
  /\ Goto(w, "write", "read")
  /\ UNCHANGED <<store, expected, values, attempts, moves>>

\* ErrMoved: read again, unless this was the last attempt.
WriteMoved(w) ==
  /\ pc[w] = "write" /\ store # base[w]
  /\ \/ /\ attempts[w] + 1 < MaxAttempts
        /\ attempts' = [attempts EXCEPT ![w] = @ + 1]
        /\ base' = [base EXCEPT ![w] = Missing]
        /\ Goto(w, "write", "read")
        /\ UNCHANGED <<expected, values, moves>>
     \/ attempts[w] + 1 = MaxAttempts /\ Refuse(w, "storage_unavailable")
  /\ UNCHANGED store

WriteFails(w) ==
  /\ pc[w] = "write"
  /\ Refuse(w, "storage_unavailable")
  /\ UNCHANGED store

\* announce() comes before the reply; see module Invalidation for what it does.
Announce(w) ==
  /\ pc[w] = "announce"
  /\ Answer(w, "applied", values[w])
  /\ UNCHANGED store

Reply(w) ==
  /\ pc[w] = "reply"
  /\ pc' = [pc EXCEPT ![w] = "idle"]
  /\ reply' = [reply EXCEPT ![w] = NoReply]
  /\ UNCHANGED <<store, localVars>>

-----------------------------------------------------------------------------
\* A text editor, an installer, Save or Edit: any bytes, or none.
ForeignWrite(b) ==
  /\ b # store
  /\ ChangeTo(b, Workers)
  /\ UNCHANGED <<pc, reply, expected, values, base, attempts>>

\* The service process ends between any two steps.
Crash ==
  /\ \E w \in Workers : pc[w] # "idle"
  /\ pc' = [w \in Workers |-> "idle"]
  /\ expected' = [w \in Workers |-> NoRevision]
  /\ values' = [w \in Workers |-> Empty]
  /\ base' = [w \in Workers |-> Missing]
  /\ attempts' = [w \in Workers |-> 0]
  /\ reply' = [w \in Workers |-> NoReply]
  /\ moves' = [w \in Workers |-> 0]
  /\ UNCHANGED store

WorkerStep(w) ==
  \/ ReadUser(w) \/ Admit(w) \/ AskPolicy(w) \/ Prepare(w) \/ ReadBase(w)
  \/ WriteApplies(w) \/ WriteMoved(w) \/ WriteFails(w) \/ Announce(w) \/ Reply(w)

Next ==
  \/ \E w \in Workers :
       \/ WorkerStep(w) \/ CallRead(w)
       \/ \E x \in Contents \cup {NoRevision}, v \in Contents : CallReplace(w, x, v)
  \/ \E b \in Bytes : ForeignWrite(b)
  \/ Crash

Safety == Init /\ [][Next]_vars

\* The store and the policy answer, and a worker that can run does.
Spec == Safety /\ \A w \in Workers : WF_vars(WorkerStep(w))

-----------------------------------------------------------------------------
(* Properties.                                                             *)

\* No lost update: the record held the revision the caller expected at the
\* instant the caller's values replaced it, though the revision was compared
\* in an earlier step and the store compares bytes only (user_editor.go: "it
\* never overwrites an intervening different value").
NoLostUpdate ==
  [][\A w \in Workers :
       pc[w] = "write" /\ pc'[w] = "announce" => Content(store) = expected[w]]_vars

\* The service never writes over bytes it cannot read.
CorruptIsKept ==
  [][\A w \in Workers : pc'[w] # pc[w] /\ store = Corrupt => store' = store]_vars

\* Every retry was caused by somebody else: a conditional write that found the
\* bytes moved, the last one that gives up included, was preceded by that many
\* changes of the bytes made by others since the call began.
RetriesAreInterference ==
  \A w \in Workers :
    /\ attempts[w] <= moves[w]
    /\ pc[w] = "write" /\ store # base[w] => attempts[w] < moves[w]

\* Every call is answered, whatever the other writers do.
EveryCallReturns == \A w \in Workers : pc[w] # "idle" ~> pc[w] = "idle"

\* Each worker as its caller sees it: pending until the step that settles the
\* answer, which for an applied replacement is the write itself.
AbstractCall(w) ==
  CASE pc[w] = "idle"     -> [at |-> "idle"]
    [] pc[w] = "readUser" -> [at |-> "pending", op |-> "read"]
    [] pc[w] = "announce" ->
         [at |-> "done", outcome |-> "applied", content |-> values[w]]
    [] pc[w] = "reply"    ->
         [at |-> "done", outcome |-> reply[w].outcome, content |-> reply[w].content]
    [] OTHER              ->
         [at |-> "pending", op |-> "replace", expected |-> expected[w],
          values |-> values[w]]

Register ==
  INSTANCE UserRegister
    WITH Unreadable <- Corrupt,
         record <- Content(store),
         call <- [w \in Workers |-> AbstractCall(w)]

\* The editor is a compare-and-set register (CFG-W8).
ImplementsRegister == Register!RegisterSpec
=============================================================================
