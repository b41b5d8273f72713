-------------------------------- MODULE Rpc ---------------------------------
(***************************************************************************)
(* One call of a configuration service: the request and reply envelopes,   *)
(* the dispatchers and the clients of go/abstraction/config/rec.go, the    *)
(* answers the handlers of go/service may give, and the check the          *)
(* observer's client makes (go/client/observer.go).                        *)
(***************************************************************************)
EXTENDS Wire

CONSTANTS
  LongText,   \* a string beyond the bound of a cursor
  MaxWait     \* milliseconds an observation may wait (30000 in the code)

NoText == Unset   \* ""

Reader   == "abstraction.config/reader@1"
Editor   == "abstraction.config/editor@1"
Observer == "abstraction.config/observer@1"
Endpoint == "abstraction.facade/endpoint@1"

\* The endpoint hosts these, in this order.
Hosted    == <<Reader, Editor, Observer>>
MethodsOf == [s \in {Reader, Editor, Observer} |->
  CASE s = Reader -> {"Read"} [] s = Editor -> {"ReadUser", "ReplaceUser"}
    [] s = Observer -> {"Observe"}]

-----------------------------------------------------------------------------
(* Arguments and results, each a record of its own.                        *)

EncReadArguments(v)    == EncRecord(<<"overrides">>, [overrides |-> EncRunOverrides(v.overrides)])
DecodeReadArguments(d) ==
  DecodeRecord(d, {"overrides"}, {},
    [i \in DOMAIN Fields(d) |-> DecodeRunOverrides(Fields(d)[i].doc)])

EncReadUserArguments(v)    == EncRecord(<<>>, v)
DecodeReadUserArguments(d) == DecodeRecord(d, {}, {}, <<>>)

EncReplaceUserArguments(v) ==
  EncRecord(<<"expected_revision", "values">>,
    [expected_revision |-> Text(v.expected_revision), values |-> EncUserSettings(v.values)])
DecodeReplaceUserArguments(d) ==
  DecodeRecord(d, {"expected_revision", "values"}, {}, [i \in DOMAIN Fields(d) |->
    LET f == Fields(d)[i]
    IN  IF f.name = "values" THEN DecodeUserSettings(f.doc) ELSE Str(f.doc)])

EncObserveArguments(v) ==
  EncRecord(<<"overrides", "cursor", "wait_ms">>,
    [overrides |-> EncRunOverrides(v.overrides), cursor |-> Text(v.cursor),
     wait_ms   |-> Number(v.wait_ms)])
DecodeObserveArguments(d) ==
  DecodeRecord(d, {"overrides", "cursor", "wait_ms"}, {}, [i \in DOMAIN Fields(d) |->
    LET f == Fields(d)[i]
    IN  IF f.name = "overrides" THEN DecodeRunOverrides(f.doc)
        ELSE IF f.name = "cursor" THEN Str(f.doc) ELSE Integer(f.doc)])

EncArguments(method, v) ==
  CASE method = "Read"        -> EncReadArguments(v)
    [] method = "ReadUser"    -> EncReadUserArguments(v)
    [] method = "ReplaceUser" -> EncReplaceUserArguments(v)
    [] method = "Observe"     -> EncObserveArguments(v)

DecodeArguments(method, d) ==
  CASE method = "Read"        -> DecodeReadArguments(d)
    [] method = "ReadUser"    -> DecodeReadUserArguments(d)
    [] method = "ReplaceUser" -> DecodeReplaceUserArguments(d)
    [] method = "Observe"     -> DecodeObserveArguments(d)

\* A result is a record of one field; the value is the codec's.
EncResult(method, v) ==
  EncRecord(<<"value">>, [value |->
    CASE method = "Read"        -> EncSnapshot(v)
      [] method = "ReadUser"    -> EncUserSnapshot(v)
      [] method = "ReplaceUser" -> EncUserReplaceResult(v)
      [] method = "Observe"     -> EncConfigObservation(v)])

DecodeReadResult(d) ==
  DecodeRecord(d, {"value"}, {}, [i \in DOMAIN Fields(d) |-> DecodeSnapshot(Fields(d)[i].doc)])
DecodeReadUserResult(d) ==
  DecodeRecord(d, {"value"}, {}, [i \in DOMAIN Fields(d) |-> DecodeUserSnapshot(Fields(d)[i].doc)])
DecodeReplaceUserResult(d) ==
  DecodeRecord(d, {"value"}, {},
    [i \in DOMAIN Fields(d) |-> DecodeUserReplaceResult(Fields(d)[i].doc)])
DecodeObserveResult(d) ==
  DecodeRecord(d, {"value"}, {},
    [i \in DOMAIN Fields(d) |-> DecodeConfigObservation(Fields(d)[i].doc)])

DecodeResult(method, d) ==
  LET r == CASE method = "Read"        -> DecodeReadResult(d)
             [] method = "ReadUser"    -> DecodeReadUserResult(d)
             [] method = "ReplaceUser" -> DecodeReplaceUserResult(d)
             [] method = "Observe"     -> DecodeObserveResult(d)
  IN  IF Accepted(r) THEN Took(r.took.value) ELSE r

-----------------------------------------------------------------------------
(* The envelopes.                                                          *)

EncServiceFrame(v) ==
  EncRecord(<<"version", "service", "method", "arguments">>,
    [version |-> Number(v.version), service |-> Text(v.service), method |-> Text(v.method),
     arguments |-> v.arguments])
DecodeServiceFrame(d) ==
  DecodeRecord(d, {"version", "service", "method", "arguments"}, {}, [i \in DOMAIN Fields(d) |->
    LET f == Fields(d)[i]
    IN  IF f.name = "version" THEN Integer(f.doc)
        ELSE IF f.name = "arguments" THEN RawValue(f.doc) ELSE Str(f.doc)])

EncServiceReply(v) ==
  EncRecord(<<"version", "service", "method", "ok", "payload">>,
    [version |-> Number(v.version), service |-> Text(v.service), method |-> Text(v.method),
     ok |-> Flag(v.ok), payload |-> v.payload])
DecodeServiceReply(d) ==
  DecodeRecord(d, {"version", "service", "method", "ok", "payload"}, {}, [i \in DOMAIN Fields(d) |->
    LET f == Fields(d)[i]
    IN  IF f.name = "version" THEN Integer(f.doc)
        ELSE IF f.name = "ok" THEN Bool(f.doc)
        ELSE IF f.name = "payload" THEN RawValue(f.doc) ELSE Str(f.doc)])

EncServiceError(v)    == EncRecord(<<"code", "message">>, Texts(v))
DecodeServiceError(d) == DecodeRecord(d, {"code", "message"}, {}, Strs(d))

Version == 1

\* servicePayload: the envelope of a request and its version.
ServicePayload(frame) ==
  LET v == DecodeServiceFrame(frame)
  IN  IF Accepted(v) /\ v.took.version # Version THEN Refused("unknown_version") ELSE v

-----------------------------------------------------------------------------
(* The service's side.  A handler gives a value, fails with a ServiceError, *)
(* or fails in some other way; a panic is one of these.                    *)

Gave(v)               == [gave |-> v]
Failed(code, message) == [code |-> code, message |-> message]
Broke                 == Failed("handler_error", "handler failed")

Payload(d) == [payload |-> d]
Word2Code(word) == Failed(word, NoText)

\* serviceReply: under the name the request had; what does not decode again,
\* an unspeakable diagnostic included, is not sent.
ServiceReply(v, outcome) ==
  LET ok == "payload" \in DOMAIN outcome
      failure == [code    |-> IF outcome.code = NoText THEN "handler_error" ELSE outcome.code,
                  message |-> outcome.message]
      frame == EncServiceReply(
                 [version |-> Version, service |-> v.service, method |-> v.method, ok |-> ok,
                  payload |-> IF ok THEN outcome.payload ELSE EncServiceError(failure)])
      back == DecodeServiceReply(frame)
  IN  IF Accepted(back) THEN Took(frame) ELSE back

\* A bug the run rules out: a result is sent without being read back.
InvokeUnchecked(method, said) ==
  IF "gave" \in DOMAIN said THEN Payload(EncResult(method, said.gave)) ELSE said

\* invoke: a value that the codec cannot write, or not read back, is none.
Invoke(method, said) ==
  IF "gave" \notin DOMAIN said THEN said
  ELSE LET d == EncResult(method, said.gave)
       IN  IF Accepted(DecodeResult(method, d)) THEN Payload(d) ELSE Word2Code("invalid_result")

\* DescribeEndpoint: takes no argument, and says that all services are ready.
DescribeEndpoint(v) ==
  IF v.method # "Describe" THEN ServiceReply(v, Word2Code("unknown_method"))
  ELSE IF v.arguments # Object(<<>>) THEN ServiceReply(v, Word2Code("unknown_field"))
  ELSE ServiceReply(v, Payload(Object(<<[name |-> "value", doc |-> TextMap(Hosted)]>>)))

\* What a dispatcher of one service makes of an envelope: the refusal it
\* answers, or the arguments it calls its handler with.
Dispatch(service, v) ==
  IF v.method \notin MethodsOf[service] THEN Refused("unknown_method")
  ELSE DecodeArguments(v.method, v.arguments)

\* ExchangeFrame of the dispatcher of that service; its handler would say that.
ExchangeFrame(service, v, said) ==
  LET args == Dispatch(service, v)
  IN  IF Accepted(args) THEN ServiceReply(v, Invoke(v.method, said))
      ELSE ServiceReply(v, Word2Code(args.refused))

\* ServeEndpoint: a frame whose envelope cannot be read gets no reply.
ServeEndpoint(frame, said) ==
  LET v == ServicePayload(frame)
  IN  IF ~Accepted(v) THEN v
      ELSE IF v.took.service = Endpoint THEN DescribeEndpoint(v.took)
      ELSE IF \E i \in DOMAIN Hosted : Hosted[i] = v.took.service
        THEN ExchangeFrame(v.took.service, v.took, said)
      ELSE ServiceReply(v.took, Word2Code("unknown_service"))

\* The arguments with which serving the frame calls a handler, if it does.
HandlerSees(frame) ==
  LET v == ServicePayload(frame)
  IN  IF Accepted(v) /\ v.took.service \in DOMAIN MethodsOf
        THEN Dispatch(v.took.service, v.took) ELSE Refused("not_called")

-----------------------------------------------------------------------------
(* The client's side.                                                      *)

Request(service, method, args) ==
  EncServiceFrame([version |-> Version, service |-> service, method |-> method,
                   arguments |-> EncArguments(method, args)])

\* A bug the run rules out: the word of a refusal is lost.
ServiceResponseWordless(frame, service, method) ==
  LET v == DecodeServiceReply(frame)
  IN  IF ~Accepted(v) THEN v
      ELSE IF v.took.version # Version THEN Refused("unknown_version")
      ELSE IF v.took.service # service \/ v.took.method # method
        THEN Refused("mismatched_response")
      ELSE IF v.took.ok THEN DecodeResult(method, v.took.payload)
      ELSE Failed("handler_error", NoText)

\* serviceResponse and the decoding of the result after it.
ServiceResponse(frame, service, method) ==
  LET v == DecodeServiceReply(frame)
      e == DecodeServiceError(v.took.payload)
  IN  IF ~Accepted(v) THEN v
      ELSE IF v.took.version # Version THEN Refused("unknown_version")
      ELSE IF v.took.service # service \/ v.took.method # method
        THEN Refused("mismatched_response")
      ELSE IF v.took.ok THEN DecodeResult(method, v.took.payload)
      ELSE IF ~Accepted(e) THEN e
      ELSE IF e.took.code = NoText THEN Refused("invalid_error")
      ELSE Failed(e.took.code, e.took.message)

\* ObserveContext asks for nothing out of bounds ...
ObservationBounds(args) ==
  /\ args.wait_ms \in 0 .. MaxWait
  /\ args.cursor \notin {LongText, BadText}
  /\ \A k \in TextKeys : args.overrides[k] # LongText

\* Bug the run rules out: a snapshot that is not there passes.
ObservationHoldsLax(args, result) ==
  IF result.outcome = "snapshot"
    THEN result.cursor \notin {NoText, args.cursor, LongText}
    ELSE result.snapshot = Nil /\ result.cursor = args.cursor

\* ... and takes nothing that moves a cursor without a snapshot, or shows a
\* snapshot without moving the cursor.
ObservationHolds(args, result) ==
  IF result.outcome = "snapshot"
    THEN result.snapshot # Nil /\ result.cursor \notin {NoText, args.cursor, LongText}
    ELSE /\ result.snapshot = Nil /\ result.cursor = args.cursor
         /\ result.outcome = "unchanged" => args.cursor # NoText

\* What the caller of a client gets of a reply; careful is ObserveContext.
Returned(service, method, args, careful, frame) ==
  LET r == ServiceResponse(frame, service, method)
  IN  IF careful /\ Accepted(r) /\ ~ObservationHolds(args, r.took)
        THEN Refused("malformed_observation") ELSE r
=============================================================================
