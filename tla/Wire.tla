-------------------------------- MODULE Wire --------------------------------
(***************************************************************************)
(* The protocol of the configuration services: the generated codec, its    *)
(* clients and its dispatchers (go/abstraction/config/rec.go), and what    *)
(* the observer's client asks of an answer (go/client/observer.go).        *)
(*                                                                         *)
(* A document is what a JSON text says: layout is left out, the order of   *)
(* fields, fields that come twice, and texts that are no JSON are not.     *)
(***************************************************************************)
EXTENDS Locations, SequencesExt

CONSTANTS
  BadText,   \* a string that is not UTF-8
  Nil        \* the value of an optional field that is not there

\* The schema is finite, and a snapshot has two fields that are no keys.
ASSUME SchemaAssumption == IsFiniteSet(Keys) /\ Keys \cap {"origins", "stamp"} = {}

Text(x)      == [text |-> x]
TextMap(m)   == [map |-> m]       \* an object of strings, of BadText if one is
Number(n)    == [number |-> n]
OddNumber(n) == [odd |-> n]       \* JSON, but not the one spelling of an integer
Flag(b)      == [flag |-> b]
Flawed(word) == [flaw |-> word]   \* text that begins as no value does; what skipping it says

IsA(kind, d) == kind \in DOMAIN d

\* skipValue: the first thing wrong with the text of a value.
FirstFlaw(d) ==
  IF IsA("flaw", d) THEN d.flaw
  ELSE IF d \in {Text(BadText), TextMap(BadText)} THEN "bad_string"
  ELSE IF IsA("inside", d) THEN d.inside ELSE "none"

\* An object: its fields in the order of the text and, for skipValue goes to any
\* depth, the first thing wrong inside them.
Object(fs) ==
  LET flawed == {i \in DOMAIN fs : FirstFlaw(fs[i].doc) # "none"}
  IN  [fields |-> fs,
       inside |-> IF flawed = {} THEN "none" ELSE FirstFlaw(fs[Min(flawed)].doc)]

\* What a reader makes of a document: a value, or the word of a refusal.
Took(v)       == [took |-> v]
Refused(word) == [refused |-> word]
Accepted(r)   == "took" \in DOMAIN r

\* The words a decoder of a record refuses with.
RefusalWords == {"wrong_type", "bad_string", "number_spelling", "bad_enum",
                 "unknown_field", "duplicate_field", "missing_field"}

-----------------------------------------------------------------------------
(* The readers of single values.                                           *)

WrongType == Refused("wrong_type")

Str(d) ==
  IF ~IsA("text", d) THEN WrongType
  ELSE IF d.text = BadText THEN Refused("bad_string") ELSE Took(d.text)

Integer(d) ==
  IF IsA("number", d) THEN Took(d.number)
  ELSE IF IsA("odd", d) THEN Refused("number_spelling") ELSE WrongType

Bool(d) == IF IsA("flag", d) THEN Took(d.flag) ELSE WrongType

StrMap(d) ==
  IF ~IsA("map", d) THEN WrongType
  ELSE IF d.map = BadText THEN Refused("bad_string") ELSE Took(d.map)

\* rawValue: carried as it is, once it is known to be JSON.
RawValue(d) == IF FirstFlaw(d) = "none" THEN Took(d) ELSE Refused(FirstFlaw(d))

\* A word of a closed vocabulary.
Word(words, d) ==
  LET s == Str(d)
  IN  IF Accepted(s) /\ s.took \notin words THEN Refused("bad_enum") ELSE s

-----------------------------------------------------------------------------
(* Records.  Every generated decoder is the same walk over the fields, and  *)
(* reading[i] is what the reader of field i makes of its value.             *)

Fields(d) == IF IsA("fields", d) THEN d.fields ELSE <<>>
Names(d)  == {Fields(d)[i].name : i \in DOMAIN Fields(d)}

\* What becomes of field i; its name is judged before its value.
FieldReading(d, i, known, reading) ==
  LET name == d.fields[i].name
  IN  IF name \notin known THEN Refused("unknown_field")
      ELSE IF \E j \in 1 .. i - 1 : d.fields[j].name = name THEN Refused("duplicate_field")
      ELSE reading[i]

DecodeRecord(d, known, optional, reading) ==
  IF ~IsA("fields", d) THEN WrongType
  ELSE LET wrong == {i \in DOMAIN d.fields : ~Accepted(FieldReading(d, i, known, reading))}
           of(k) == CHOOSE i \in DOMAIN d.fields : d.fields[i].name = k
       IN  IF wrong # {} THEN FieldReading(d, Min(wrong), known, reading)
           ELSE IF known \ optional \subseteq Names(d)
             THEN Took([k \in known |-> IF k \in Names(d) THEN reading[of(k)].took ELSE Nil])
           ELSE Refused("missing_field")

\* The encoders write the fields in the order of the declaration.
EncRecord(order, docs) ==
  Object([i \in DOMAIN order |-> [name |-> order[i], doc |-> docs[order[i]]]])

-----------------------------------------------------------------------------
(* The records of the contract, with the keys of the schema for its five.  *)

KeyOrder  == SetToSeq(Keys)
TextOrder == SetToSeq(TextKeys)

\* A record of strings.
Texts(v)  == [k \in DOMAIN v |-> Text(v[k])]
Strs(d)   == [i \in DOMAIN Fields(d) |-> Str(Fields(d)[i].doc)]

EncSetting(k, x)  == IF k \in TextKeys THEN Text(x) ELSE TextMap(x)
ReadSetting(f)    == IF f.name \in TextKeys THEN Str(f.doc) ELSE StrMap(f.doc)

EncRunOverrides(v)    == EncRecord(TextOrder, Texts(v))
DecodeRunOverrides(d) == DecodeRecord(d, TextKeys, {}, Strs(d))

EncOrigin(v)    == EncRecord(<<"rung", "path">>, Texts(v))
DecodeOrigin(d) == DecodeRecord(d, {"rung", "path"}, {}, Strs(d))

EncOrigins(v)    == EncRecord(KeyOrder, [k \in Keys |-> EncOrigin(v[k])])
DecodeOrigins(d) ==
  DecodeRecord(d, Keys, {}, [i \in DOMAIN Fields(d) |-> DecodeOrigin(Fields(d)[i].doc)])

EncSnapshot(v) ==
  EncRecord(KeyOrder \o <<"origins", "stamp">>, [k \in DOMAIN v |->
    IF k = "origins" THEN EncOrigins(v[k])
    ELSE IF k = "stamp" THEN Text(v[k]) ELSE EncSetting(k, v[k])])
DecodeSnapshot(d) ==
  DecodeRecord(d, Keys \cup {"origins", "stamp"}, {}, [i \in DOMAIN Fields(d) |->
    LET f == Fields(d)[i]
    IN  IF f.name = "origins" THEN DecodeOrigins(f.doc)
        ELSE IF f.name = "stamp" THEN Str(f.doc) ELSE ReadSetting(f)])

EncUserSettings(v)    == EncRecord(KeyOrder, [k \in Keys |-> EncSetting(k, v[k])])
DecodeUserSettings(d) ==
  DecodeRecord(d, Keys, {}, [i \in DOMAIN Fields(d) |-> ReadSetting(Fields(d)[i])])

EncUserSnapshot(v) ==
  EncRecord(<<"values", "revision">>,
    [values |-> EncUserSettings(v.values), revision |-> Text(v.revision)])
DecodeUserSnapshot(d) ==
  DecodeRecord(d, {"values", "revision"}, {}, [i \in DOMAIN Fields(d) |->
    LET f == Fields(d)[i]
    IN  IF f.name = "values" THEN DecodeUserSettings(f.doc) ELSE Str(f.doc)])

\* An encoder panics with bad_enum on a word outside the vocabulary.
EncWord(words, x) == IF x \in words THEN Text(x) ELSE Flawed("bad_enum")

UserReplaceOutcomes == {"applied", "conflict", "forbidden", "unavailable"}

EncUserReplaceResult(v) ==
  EncRecord(<<"outcome", "snapshot">>,
    [outcome |-> EncWord(UserReplaceOutcomes, v.outcome), snapshot |-> EncUserSnapshot(v.snapshot)])
DecodeUserReplaceResult(d) ==
  DecodeRecord(d, {"outcome", "snapshot"}, {}, [i \in DOMAIN Fields(d) |->
    LET f == Fields(d)[i]
    IN  IF f.name = "outcome" THEN Word(UserReplaceOutcomes, f.doc) ELSE DecodeUserSnapshot(f.doc)])

ConfigObservationOutcomes ==
  {"snapshot", "unchanged", "gap", "unavailable", "unsupported", "invalid"}

EncConfigObservation(v) ==
  EncRecord(<<"outcome", "cursor">> \o IF v.snapshot = Nil THEN <<>> ELSE <<"snapshot">>,
    [outcome  |-> EncWord(ConfigObservationOutcomes, v.outcome),
     cursor   |-> Text(v.cursor),
     snapshot |-> IF v.snapshot = Nil THEN Nil ELSE EncSnapshot(v.snapshot)])
DecodeConfigObservation(d) ==
  DecodeRecord(d, {"outcome", "cursor", "snapshot"}, {"snapshot"}, [i \in DOMAIN Fields(d) |->
    LET f == Fields(d)[i]
    IN  IF f.name = "outcome" THEN Word(ConfigObservationOutcomes, f.doc)
        ELSE IF f.name = "cursor" THEN Str(f.doc) ELSE DecodeSnapshot(f.doc)])
=============================================================================
