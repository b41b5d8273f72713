----------------------------- MODULE Locations -----------------------------
(***************************************************************************)
(* How one answer is made of the machine file, the user file and the       *)
(* overrides of a run: the merged readers of go/config.go and              *)
(* go/user_editor.go, and the reader of python/abstraction_config.py.      *)
(*                                                                         *)
(* A file is its text together with what the readers ask about it before   *)
(* they use it: who owns it and whether it is within the bound.  A text is *)
(* the members of its object in the order they are written, and what the   *)
(* two parsers make of the rest of it; each language reads it by its own.  *)
(* Members under names that are no key in any letters' case are left out:  *)
(* both pass over them.                                                    *)
(***************************************************************************)
EXTENDS Naturals, Sequences

CONSTANTS
  Keys,        \* the keys of the schema
  TextKeys,    \* those whose value is one string; the others hold a map
  Values,      \* what a key may be set to
  Unset,       \* "" or an empty map
  Null,        \* null
  Mistyped,    \* a value of the wrong JSON type
  Garbled,     \* one with half of a surrogate pair in it, as an escape
  Mended,      \* what Go reads it as: U+FFFD in its place
  Loose,       \* a map of which an entry is no string
  NoFile,      \* there is no file
  FileTexts,   \* what a file may hold
  Joined(_, _) \* a map into which the entries of another are put

ASSUME LocationsAssumption ==
  /\ TextKeys \subseteq Keys
  /\ Unset \notin Values
  /\ {Null, Mistyped, Garbled, Loose} \cap (Values \cup {Unset}) = {}
  /\ Mended \in Values
  /\ Null \notin {Mistyped, Garbled, Loose}

ASSUME JoinedAssumption ==
  \A a, b \in Values \cup {Unset} : Joined(a, b) \in Values \cup {Unset} /\ Joined(a, a) = a

Machine     == "machine"
User        == "user"
Environment == "environment"
Default     == "default"

\* What may be written under a key.
Written(k) ==
  Values \cup {Unset, Null, Mistyped, Garbled} \cup IF k \in TextKeys THEN {} ELSE {Loose}

\* exact: the name is spelled as the key, and not in other letters' case.
Members == UNION {[name : {k}, exact : BOOLEAN, value : Written(k)] : k \in Keys}

\* What the parsers make of the text as a whole:
\*   json    both read it
\*   syntax  neither does
\*   bytes   Go does: bytes that are no UTF-8 in it, which become U+FFFD, a
\*           number of thousands of digits; Python refuses it
\*   nan     Python does: a NaN; Go refuses it
\*   deep    Go does, to a depth of 10000; in Python json.loads runs out of stack
TextForms == {"json", "syntax", "bytes", "nan", "deep"}

NamedBy(text, k) == {i \in DOMAIN text.members : text.members[i].name = k}

\* Bound: at most two members name a map.
IsText(text) ==
  /\ text = [form |-> text.form, members |-> text.members] /\ text.form \in TextForms
  /\ text.members \in Seq(Members)
  /\ \A k \in Keys \ TextKeys : \A i, j, n \in NamedBy(text, k) : ~(i < j /\ j < n)

ASSUME TextsAssumption == NoFile \notin FileTexts /\ \A text \in FileTexts : IsText(text)

\* trusted: an administrator owns the file and its directory; nobody owns a
\* file that is not there, and of the user's file nobody asks.
\* oversized: more than MaxUserFileBytes.
Missing      == [text |-> NoFile, trusted |-> FALSE, oversized |-> FALSE]
MachineFiles == {Missing} \cup [text : FileTexts, trusted : BOOLEAN, oversized : BOOLEAN]
UserFiles    == {Missing} \cup [text : FileTexts, trusted : {FALSE}, oversized : BOOLEAN]
Overrides    == [TextKeys -> Values \cup {Unset}]

\* A Config: the value of each key, and the origin of each key that has one.
NoConfig == [value  |-> [k \in Keys |-> Unset],
             origin |-> [k \in Keys |-> Default]]

Set(c, k) == c.value[k] # Unset

-----------------------------------------------------------------------------
(* The Go readers.                                                         *)

Earliest(I) == CHOOSE i \in I : \A j \in I : i <= j
Latest(I)   == CHOOSE i \in I : \A j \in I : j <= i

\* json.Unmarshal into a Config takes a name in any letters' case and assigns
\* member by member: a null leaves a string as it is and drops a map, and the
\* entries of a map are put into the one that is there.
Unmarshalled(text, k) ==
  LET says(i)   == IF text.members[i].value = Garbled THEN Mended ELSE text.members[i].value
      named     == NamedBy(text, k)
      assigned  == {i \in named : says(i) # Null}
      kept      == {i \in assigned : \A j \in named : i < j => says(j) # Null}
  IN  IF k \in TextKeys
        THEN IF assigned = {} THEN Unset ELSE says(Latest(assigned))
        ELSE IF kept = {} THEN Unset ELSE Joined(says(Earliest(kept)), says(Latest(kept)))

\* ... and refuses the whole text for one value of the wrong type in it.
Decodes(text) ==
  /\ text # NoFile /\ text.form \in {"json", "bytes", "deep"}
  /\ \A i \in DOMAIN text.members : text.members[i].value \notin {Mistyped, Loose}

\* decodeSource: each key the text sets comes from this file.
DecodeSource(text, rung) ==
  LET value == [k \in Keys |-> Unmarshalled(text, k)]
  IN  IF Decodes(text)
        THEN [value  |-> value,
              origin |-> [k \in Keys |-> IF value[k] # Unset THEN rung ELSE Default]]
        ELSE NoConfig

\* A bug the run rules out: the origin of a key stays with the farther file.
MergeMisattributed(far, near) ==
  [value  |-> [k \in Keys |-> IF Set(near, k) THEN near.value[k] ELSE far.value[k]],
   origin |-> [k \in Keys |-> IF Set(far, k) THEN far.origin[k] ELSE near.origin[k]]]

\* merge: key by key, the nearer file where it sets the key; a map is replaced
\* whole.
Merge(far, near) ==
  [value  |-> [k \in Keys |-> IF Set(near, k) THEN near.value[k] ELSE far.value[k]],
   origin |-> [k \in Keys |-> IF Set(near, k) THEN near.origin[k] ELSE far.origin[k]]]

\* applyEnvironment: an override that is not empty decides a text key.
Overridden(env, k) == k \in TextKeys /\ env[k] # Unset

ApplyEnvironment(c, env) ==
  [value  |-> [k \in Keys |-> IF Overridden(env, k) THEN env[k] ELSE c.value[k]],
   origin |-> [k \in Keys |-> IF Overridden(env, k) THEN Environment ELSE c.origin[k]]]

\* A bug the run rules out: the service does not ask who owns the file.
ReadMachineSourceUntrusted(file) ==
  IF ~file.oversized THEN DecodeSource(file.text, Machine) ELSE NoConfig

\* readMachineSource: trusted, within the bound, and decodable.
ReadMachineSource(file) ==
  IF file.trusted /\ ~file.oversized THEN DecodeSource(file.text, Machine) ELSE NoConfig

\* readUserValue refuses more bytes than the bound.
UserReadable(file) == file.text = NoFile \/ ~file.oversized

\* loadWithSources, where the user's store can be read.
LoadWithSources(machine, user, env) ==
  ApplyEnvironment(Merge(ReadMachineSource(machine), DecodeSource(user.text, User)), env)

\* read and load, the readers of a process of its own: no bound.
Load(machine, user, env) ==
  LET far == IF machine.trusted THEN DecodeSource(machine.text, Machine) ELSE NoConfig
  IN  ApplyEnvironment(Merge(far, DecodeSource(user.text, User)), env)

-----------------------------------------------------------------------------
(* The Python reader.                                                      *)

Loads(text) == text # NoFile /\ text.form \in {"json", "nan"}

\* json.loads gives a dict: exact names, and of one name the last member.
Got(text, k) ==
  LET exact == {i \in NamedBy(text, k) : text.members[i].exact}
  IN  IF exact = {} THEN Null ELSE text.members[Latest(exact)].value

\* A str for the keys of text, a dict for the map, and neither of them empty.
Taken(v) == v \in Values \cup {Garbled, Loose}

\* A bug the run rules out: an empty value counts as set.
ReadIntoTakesEmpty(c, text, rung) ==
  LET taken(k) == Loads(text) /\ (Taken(Got(text, k)) \/ Got(text, k) = Unset)
  IN  [value  |-> [k \in Keys |-> IF taken(k) THEN Got(text, k) ELSE c.value[k]],
       origin |-> [k \in Keys |-> IF taken(k) THEN rung ELSE c.origin[k]]]

\* _read_into: a value of the wrong type is passed over, and the rest of its
\* text is used.
ReadInto(c, text, rung) ==
  LET taken(k) == Loads(text) /\ Taken(Got(text, k))
  IN  [value  |-> [k \in Keys |-> IF taken(k) THEN Got(text, k) ELSE c.value[k]],
       origin |-> [k \in Keys |-> IF taken(k) THEN rung ELSE c.origin[k]]]

\* The RecursionError of json.loads is none of the errors _read_into catches.
TooDeep(text) == text # NoFile /\ text.form = "deep"

Raised == [error |-> "RecursionError"]

\* legacy_load
PythonLoad(machine, user, env) ==
  LET far == IF machine.trusted THEN ReadInto(NoConfig, machine.text, Machine) ELSE NoConfig
  IN  IF (machine.trusted /\ TooDeep(machine.text)) \/ TooDeep(user.text) THEN Raised
      ELSE ApplyEnvironment(ReadInto(far, user.text, User), env)

-----------------------------------------------------------------------------
\* The files a service read leaves unused and names on stderr.
SaidByService(machine, user) ==
  {r \in {Machine, User} :
     \/ r = Machine /\ ~machine.trusted
     \/ r = Machine /\ ~machine.oversized /\ ~Decodes(machine.text)
     \/ r = User /\ user.text # NoFile /\ ~Decodes(user.text)}

-----------------------------------------------------------------------------
(* What the answer should be: for each key, the nearest location that sets *)
(* it, and no location can be blamed for a key another one set.            *)

Says(text, k) == IF Decodes(text) THEN Unmarshalled(text, k) ELSE Unset

NearestOrigin(machine, user, env, k) ==
  IF Overridden(env, k) THEN Environment
  ELSE IF Says(user.text, k) # Unset THEN User
  ELSE IF machine.trusted /\ Says(machine.text, k) # Unset THEN Machine
  ELSE Default

ValueFrom(machine, user, env, k, origin) ==
  IF origin = Environment THEN env[k]
  ELSE IF origin = User THEN Says(user.text, k)
  ELSE IF origin = Machine THEN Says(machine.text, k)
  ELSE Unset

\* The reference answer.
Nearest(machine, user, env) ==
  LET from(k) == NearestOrigin(machine, user, env, k)
  IN  [value  |-> [k \in Keys |-> ValueFrom(machine, user, env, k, from(k))],
       origin |-> [k \in Keys |-> from(k)]]
=============================================================================
