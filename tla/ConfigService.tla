--------------------------- MODULE ConfigService ---------------------------
(***************************************************************************)
(* A client, a service and what may happen to a frame between them.  The   *)
(* reader answers from the files and the overrides of Locations; of the    *)
(* editor and the observer, which have modules of their own, here are the  *)
(* answers they may give.                                                  *)
(***************************************************************************)
EXTENDS MCLocations, Rpc

CONSTANT Stray   \* a cursor that no observer has made

\* The name that alterations invent is in no schema.
ASSUME InventedAssumption == "invented" \notin Keys

VARIABLE call   \* the one call under way, and how it came out

serviceVars == <<vars, call>>

NotCalled == [nobody |-> "called"]
Idle      == [at |-> "idle"]

-----------------------------------------------------------------------------
(* What the handlers answer (go/service).                                  *)

\* authorize
Unauthorized == {Failed("caller_unavailable", "caller identity could not be rechecked"),
                 Failed("identity_required", "kernel user identity required"),
                 Failed("wrong_user", "configuration service belongs to another user")}

StorageFails == Failed("storage_unavailable", "user configuration")

PathOf(rung) == IF rung \in {Machine, User} THEN rung ELSE NoText

\* A Config as the reader sends it; the stamp follows the values.
Snapshot(c) ==
  [k \in Keys \cup {"origins", "stamp"} |->
     CASE k = "stamp"   -> c.value
       [] k = "origins" ->
            [j \in Keys |-> [rung |-> c.origin[j], path |-> PathOf(c.origin[j])]]
       [] OTHER         -> c.value[k]]

\* receiver.Read
ReadAnswers(args) ==
  Unauthorized \cup
  {IF UserReadable(user) THEN Gave(Snapshot(LoadWithSources(machine, user, args.overrides)))
   ELSE StorageFails}

Settings == [Keys -> Values \cup {Unset}]
Cleared  == [k \in Keys |-> Unset]

\* The revision of a content is its hash; the content stands for it.
Record(c) == [values |-> c, revision |-> c]

\* receiver.ReadUser
ReadUserAnswers == Unauthorized \cup {StorageFails} \cup {Gave(Record(c)) : c \in Settings}

\* receiver.ReplaceUser
ReplaceUserAnswers(args) ==
  Unauthorized \cup
  IF args.expected_revision = NoText
    THEN {Failed("invalid_revision", "expected revision required")}
    ELSE {StorageFails} \cup
         {Gave([outcome |-> out, snapshot |-> [values |-> Cleared, revision |-> NoText]]) :
            out \in {"forbidden", "unavailable"}} \cup
         {Gave([outcome |-> "applied", snapshot |-> Record(args.values)])} \cup
         {Gave([outcome |-> "conflict", snapshot |-> Record(c)]) :
            c \in Settings \ {args.expected_revision}}

\* A cursor the observer made: of the answer, and of the process and overrides
\* that are left out here.
Cursors == {[of |-> c] : c \in {Cleared}}
NextCursor(snapshot) == [of |-> snapshot.stamp]

\* What a snapshot is made of.
Origins   == [Keys -> [rung : {Machine, User, Environment, Default}, path : {Machine, User, NoText}]]
Snapshots == [Keys \cup {"origins", "stamp"} -> Values \cup {Unset} \cup Settings \cup Origins]

\* What the protocol and the handlers say of their own.
ProtocolWords ==
  {Reader, Editor, Observer, Endpoint, Machine, User, Environment, Default}
    \cup {"Read", "ReadUser", "ReplaceUser", "Observe", "Describe"}
    \cup RefusalWords \cup UserReplaceOutcomes \cup ConfigObservationOutcomes
    \cup {"unknown_service", "unknown_method", "invalid_result", "handler_error",
          "caller_unavailable", "identity_required", "wrong_user", "storage_unavailable",
          "invalid_revision"}
    \cup {"handler failed", "caller identity could not be rechecked",
          "kernel user identity required", "configuration service belongs to another user",
          "user configuration", "expected revision required"}

\* Nothing the protocol or the user's files say is badly spelled, none of the
\* protocol's words is empty, a cursor is none of the texts that stand for
\* others, and an absent snapshot is none.
ASSUME SpellingAssumption ==
  /\ Keys # {}
  /\ BadText \notin ProtocolWords \cup {Hosted, Unset} \cup Values \cup Settings
  /\ Unset \notin ProtocolWords
  /\ \A c \in Settings : [of |-> c] \notin {BadText, LongText, NoText}
  /\ Nil \notin Snapshots

\* receiver.Observe, at whatever point it returns.
ObserveAnswers(args) ==
  LET refusal(out) == Gave([outcome |-> out, cursor |-> args.cursor, snapshot |-> Nil])
      read == Snapshot(LoadWithSources(machine, user, args.overrides))
      next == NextCursor(read)
  IN  IF ~ObservationBounds(args) THEN Unauthorized \cup {refusal("invalid")}
      ELSE Unauthorized \cup {Broke, StorageFails}
             \cup {refusal(out) : out \in {"unsupported", "unavailable"}}
             \cup {refusal(out) : out \in
                     IF args.cursor = NoText THEN {}
                     ELSE IF args.cursor \in Cursors THEN {"gap"} ELSE {"invalid"}}
             \cup {IF next = args.cursor THEN refusal("unchanged")
                   ELSE Gave([outcome |-> "snapshot", cursor |-> next, snapshot |-> read])}

\* A handler of another make may also break, or give what has no spelling.
Unspeakable(method) ==
  CASE method = "Read"        -> [k \in Keys \cup {"origins", "stamp"} |->
           IF k = "origins" THEN [j \in Keys |-> [rung |-> Default, path |-> NoText]]
           ELSE BadText]
    [] method = "ReadUser"    -> Record([k \in Keys |-> BadText])
    [] method = "ReplaceUser" -> [outcome |-> "zero", snapshot |-> Record(Cleared)]
    [] method = "Observe"     -> [outcome |-> "zero", cursor |-> NoText, snapshot |-> Nil]

Answers(method, args) ==
  {Broke, Gave(Unspeakable(method)), Failed(NoText, NoText), Failed("handler_error", BadText)}
  \cup CASE method = "Read"        -> ReadAnswers(args)
         [] method = "ReadUser"    -> ReadUserAnswers
         [] method = "ReplaceUser" -> ReplaceUserAnswers(args)
         [] method = "Observe"     -> ObserveAnswers(args)

-----------------------------------------------------------------------------
(* What may happen to a frame on its way: a transport that mixes up its     *)
(* sessions, a program of another version, or one that writes its records   *)
(* in another way.  None of them puts another legal value into a field of   *)
(* the arguments or the result: nothing in the protocol could tell.         *)

\* Another value of the same kind.
Another(d) ==
  IF IsA("number", d) THEN Number(d.number + 1)
  ELSE IF IsA("flag", d) THEN Flag(~d.flag)
  ELSE IF IsA("text", d) THEN Text(LongText) ELSE d

\* One thing done differently in a record: a field left out, written twice with
\* two values or given no value of its kind, a field invented, the fields in
\* another order, or a value that is altered itself, as inner says.
Alterations(d, inner) ==
  IF ~IsA("fields", d) THEN {}
  ELSE LET fs == d.fields
           as(i) == inner[i] \cup {Flawed("malformed"), OddNumber(1)}
           with(i, e) == [name |-> fs[i].name, doc |-> e]
       IN  {Object(Reverse(fs)), Object(Append(fs, [name |-> "invented", doc |-> Flag(TRUE)]))}
             \cup {Object(RemoveAt(fs, i)) : i \in DOMAIN fs}
             \cup {Object(Append(fs, with(i, Another(fs[i].doc)))) : i \in DOMAIN fs}
             \cup UNION {{Object([fs EXCEPT ![i] = with(i, e)]) : e \in as(i)} : i \in DOMAIN fs}

\* In a record, and in the records inside it: no frame has more than five, one
\* inside the other.
Altered1(d) == Alterations(d, [i \in DOMAIN Fields(d) |-> {}])
Altered2(d) == Alterations(d, [i \in DOMAIN Fields(d) |-> Altered1(Fields(d)[i].doc)])
Altered3(d) == Alterations(d, [i \in DOMAIN Fields(d) |-> Altered2(Fields(d)[i].doc)])
Altered4(d) == Alterations(d, [i \in DOMAIN Fields(d) |-> Altered3(Fields(d)[i].doc)])
Altered5(d) == Alterations(d, [i \in DOMAIN Fields(d) |-> Altered4(Fields(d)[i].doc)])

Replaced(d, name, doc) ==
  Object([i \in DOMAIN d.fields |->
    IF d.fields[i].name = name THEN [name |-> name, doc |-> doc] ELSE d.fields[i]])

\* What a frame may arrive as.
Arrivals(frame) ==
  Altered5(frame)
    \cup {Replaced(Replaced(frame, "service", Text(s)), "method", Text(m)) :
            s \in {Reader, Editor, Observer, Endpoint, "another"},
            m \in {"Read", "ReadUser", "ReplaceUser", "Observe", "Describe"}}
    \cup {Replaced(frame, "version", Number(2))}
    \cup {Replaced(frame, "ok", Flag(ok)) : ok \in BOOLEAN}

-----------------------------------------------------------------------------
(* One call.                                                               *)

NoFrame == [frame |-> "none"]

ServiceOf(method) ==
  CHOOSE s \in DOMAIN MethodsOf : method \in MethodsOf[s]

\* The arguments a caller may have.
ArgumentsOf(method) ==
  CASE method = "Read"        -> [overrides : {env}]
    [] method = "ReadUser"    -> {<<>>}
    [] method = "ReplaceUser" ->
         [expected_revision : {NoText, Cleared}, values : {Cleared, [k \in Keys |-> BadText]}]
    [] method = "Observe"     ->
         [overrides : {env, [k \in TextKeys |-> LongText]},
          cursor    : Cursors \cup {NoText, LongText, BadText, Stray},
          wait_ms   : {-1, 0, MaxWait, MaxWait + 1}]

\* The bound on the files while anything but a read is called, or a frame is
\* altered: what the files say has no part in it.
Quiet == machine = Missing /\ user = Missing /\ env = [k \in TextKeys |-> Unset]

ServiceInit == Init /\ call = Idle

\* The files change between calls; a handler reads them after the request is
\* made, and a request says nothing of them.
Edit == call = Idle /\ Next /\ UNCHANGED call

\* A client is called: ObserveContext of go/client/observer.go (careful) or the
\* generated client.  What it could not send it refuses.
Called(s, m, args, careful) ==
  LET request == Request(s, m, args)
      checked == IF careful /\ ~ObservationBounds(args)
                   THEN Refused("invalid_bounds") ELSE ServicePayload(request)
  IN  [at |-> IF Accepted(checked) THEN "sent" ELSE "returned",
       method |-> m, args |-> args, careful |-> careful, altered |-> "no",
       request |-> request, reply |-> NoFrame, asked |-> NotCalled, said |-> NotCalled,
       result |-> IF Accepted(checked) THEN NotCalled ELSE checked]

Send ==
  /\ call = Idle
  /\ \E s \in DOMAIN MethodsOf : \E m \in MethodsOf[s] :
     \E args \in ArgumentsOf(m), careful \in IF m = "Observe" THEN BOOLEAN ELSE {FALSE} :
       (m = "Read" \/ Quiet) /\ call' = Called(s, m, args, careful)
  /\ UNCHANGED vars

\* One frame of a call, at most, arrives altered.
AlterRequest ==
  /\ call.at = "sent" /\ Quiet /\ call.altered = "no"
  /\ \E d \in Arrivals(call.request) : call' = [call EXCEPT !.request = d, !.altered = "request"]
  /\ UNCHANGED vars

AlterReply ==
  /\ call.at = "served" /\ call.reply # NoFrame /\ Quiet /\ call.altered = "no"
  /\ \E d \in Arrivals(call.reply) : call' = [call EXCEPT !.reply = d, !.altered = "reply"]
  /\ UNCHANGED vars

\* ServeEndpoint; a handler it calls gives one of its answers.
Serve ==
  /\ call.at = "sent"
  /\ LET seen == HandlerSees(call.request)
         v == ServicePayload(call.request)
     IN  \E said \in IF Accepted(seen) THEN Answers(v.took.method, seen.took) ELSE {NotCalled} :
           LET reply == ServeEndpoint(call.request, said)
           IN  call' = [call EXCEPT !.at = "served", !.said = said,
                          !.asked = IF Accepted(seen) THEN seen ELSE NotCalled,
                          !.reply = IF Accepted(reply) THEN reply.took ELSE NoFrame]
  /\ UNCHANGED vars

\* The client takes the reply; without one its wait ends in an error.
Receive ==
  /\ call.at = "served"
  /\ call' = [call EXCEPT !.at = "returned",
                !.result = IF call.reply = NoFrame THEN Refused("no_reply")
                           ELSE Returned(ServiceOf(call.method), call.method, call.args, call.careful, call.reply)]
  /\ UNCHANGED vars

Forget == call.at = "returned" /\ call' = Idle /\ UNCHANGED vars

ServiceNext == Edit \/ Send \/ AlterRequest \/ AlterReply \/ Serve \/ Receive \/ Forget

ServiceSpec == ServiceInit /\ [][ServiceNext]_serviceVars

-----------------------------------------------------------------------------
\* Whatever happens to the frames, a call that succeeds returns what a handler
\* gave to this very call: no reply to another method, no arguments a mistake
\* in the request has changed, no record that lost or gained a field, and no
\* refusal taken for a value.  The snapshot of an observation is an optional
\* field, so of an observation this holds by the client's own check alone: the
\* generated client would return one without its snapshot.
HeardIsSaid ==
  /\ call.at = "returned" /\ Accepted(call.result)
  /\ call.method = "Observe" => call.careful
  => call.asked = Took(call.args) /\ call.said = Gave(call.result.took)

\* What a caller is told where nothing happens to the frames: the value the
\* handler gave, the code of its refusal, and of what cannot be sent at least
\* that much.  Every observation the service makes passes the client's check.
Told(m, said) ==
  IF said = Gave(Unspeakable(m)) THEN Failed("invalid_result", NoText)
  ELSE IF "gave" \in DOMAIN said THEN Took(said.gave)
  ELSE IF said.message = BadText THEN Refused("no_reply")
  ELSE IF said.code = NoText THEN Failed("handler_error", said.message)
  ELSE said

OutcomeIsTold ==
  call.at = "returned" /\ call.altered = "no" /\ call.asked # NotCalled
    => call.result = Told(call.method, call.said)

\* A request whose envelope can be read gets a reply under the name it asked
\* for, which says in a form the client can read either what a handler gave or
\* why there is nothing; any other request gets none.  A diagnostic that has no
\* spelling is the one thing that is swallowed.
AnsweredIfUnderstood ==
  call.at = "served" /\ call.altered # "reply" =>
    LET v == ServicePayload(call.request)
        r == DecodeServiceReply(call.reply)
    IN  IF Accepted(v) /\ call.said # Failed("handler_error", BadText)
          THEN /\ call.reply # NoFrame
               /\ Accepted(r)
               /\ r.took.service = v.took.service /\ r.took.method = v.took.method
               /\ IF r.took.ok
                    THEN \/ v.took.service = Endpoint
                         \/ Accepted(DecodeResult(v.took.method, r.took.payload))
                    ELSE LET e == DecodeServiceError(r.took.payload)
                         IN  Accepted(e) /\ e.took.code # NoText
          ELSE call.reply = NoFrame
=============================================================================
