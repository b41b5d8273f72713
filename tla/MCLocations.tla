---------------------------- MODULE MCLocations ----------------------------
(* The readers over every pair of files and every set of overrides, and     *)
(* over every edit of one of the files.                                     *)
EXTENDS Locations

VARIABLES machine, user, env

vars == <<machine, user, env>>

Init ==
  /\ machine \in MachineFiles
  /\ user \in UserFiles
  /\ env \in Overrides

EditUser    == user' \in UserFiles /\ UNCHANGED <<machine, env>>
EditMachine == machine' \in MachineFiles /\ UNCHANGED <<user, env>>

Next == EditUser \/ EditMachine

Spec == Init /\ [][Next]_vars

\* What a service read answers, where the user's store can be read.
Answer == LoadWithSources(machine, user, env)

\* Every key is answered by the nearest location that sets it, and its origin
\* names that location, whatever is wrong with the other files (CFG-P1): the
\* key by key merge, the fallback for a file that cannot be used and the
\* overrides never mix up a value and its origin.  Left out is a service that
\* meets a trusted machine file over its bound: CONTRACT.md:269 has it refuse
\* and it answers without the file, which IgnoredIsSaid is about.
NearestWins ==
  /\ UserReadable(user) /\ ~(machine.trusted /\ machine.oversized)
       => Answer = Nearest(machine, user, env)
  /\ Load(machine, user, env) = Nearest(machine, user, env)

\* An edit moves the answer of no key that a nearer location decides: not the
\* value of an override (CFG-W4), and not a user's value by the machine file.
NearerHides ==
  [][\A k \in Keys :
       \/ Overridden(env, k)
       \/ user' = user /\ Answer.origin[k] = User
       => /\ Answer'.value[k] = Answer.value[k]
          /\ Answer'.origin[k] = Answer.origin[k]]_vars

\* A text of which the two parsers are to make the same: it is an object or
\* neither takes it for one, the keys are spelled as they are, every value can be
\* one of its key, a map is named once, and no null comes after a string.
Unambiguous(text) ==
  LET said(i) == text.members[i]
  IN  \/ text = NoFile \/ text.form = "syntax"
      \/ /\ text.form = "json"
         /\ \A i \in DOMAIN text.members :
              said(i).exact /\ said(i).value \in Values \cup {Unset, Null}
         /\ \A i, j \in DOMAIN text.members :
              i < j /\ said(i).name = said(j).name
                => said(j).name \in TextKeys /\ said(j).value # Null

\* Go decodes each file into a record of its own and merges the two, Python
\* parses it into a dict and reads one file over the other in place; of the
\* same unambiguous files and overrides they make one answer and blame the same
\* locations, though a name may come twice.  Of any other text they may not:
\* they differ in a name in other letters' case, which Go takes, though CFG-S1
\* says an unnamed key is ignored; in a value of the wrong type, for which Go
\* passes over the text and Python over the key or, inside a map, over nothing;
\* in a map named twice, a null after a string, half a surrogate pair, bytes
\* that are no UTF-8, a NaN; and at a depth at which Python raises.
LanguagesAgree ==
  Unambiguous(machine.text) /\ Unambiguous(user.text)
    => Load(machine, user, env) = PythonLoad(machine, user, env)

\* CFG-T2 of CONTRACT.md: "An ignored file is said on stderr, never silently.
\* This applies to every reason a file is not used"; and line 269 of it: Read
\* answers storage_unavailable if "A trusted machine or user file could not be
\* read".  A machine file that a service read does not use is named on stderr,
\* or the read is refused.
IgnoredIsSaid ==
  machine # Missing /\ ~(machine.trusted /\ ~machine.oversized /\ Decodes(machine.text))
    => Machine \in SaidByService(machine, user) \/ ~UserReadable(user)

-----------------------------------------------------------------------------
(* The texts and the maps of the runs.                                      *)

OneValue   == CHOOSE v \in Values : TRUE
OtherValue == CHOOSE v \in Values : v # OneValue

\* The one is a part of the other.
MCJoined(a, b) == IF a = b \/ b = Unset THEN a ELSE IF a = Unset THEN b ELSE OtherValue

Member(k, v)  == [name |-> k, exact |-> TRUE, value |-> v]
Json(members) == [form |-> "json", members |-> members]
TextKey == CHOOSE k \in TextKeys : TRUE
MapKey  == CHOOSE k \in Keys \ TextKeys : TRUE

\* A key of each kind, with each value or none; and one of each kind of text on
\* which the parsers may differ.
MCTexts ==
  {Json(IF v = Null THEN <<Member(MapKey, w)>> ELSE <<Member(TextKey, v), Member(MapKey, w)>>) :
     v, w \in Values \cup {Unset, Null}} \cup
  {Json(<<[Member(k, OneValue) EXCEPT !.exact = FALSE]>>) : k \in Keys} \cup
  {Json(<<Member(k, v), Member(k, w)>>) : k \in Keys, v \in {OtherValue}, w \in {OneValue, Unset, Null}} \cup
  {Json(<<Member(MapKey, OneValue), Member(TextKey, Mistyped)>>),
   Json(<<Member(MapKey, Loose), Member(TextKey, OneValue)>>),
   Json(<<Member(TextKey, Garbled)>>)} \cup
  {[form |-> f, members |-> <<Member(TextKey, OneValue)>>] : f \in TextForms \ {"json"}}
=============================================================================
