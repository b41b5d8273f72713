-------------------------- MODULE LocationsProofs --------------------------
(***************************************************************************)
(* The readers of Locations, for every schema, every pair of files and     *)
(* every set of overrides.                                                 *)
(***************************************************************************)
EXTENDS MCLocations, WellFoundedInduction, TLAPS

\* What a decoded file says of a key: its value and its rung where it sets it.
LEMMA DecodedKey ==
  ASSUME NEW text, NEW rung, NEW k \in Keys
  PROVE  /\ Set(DecodeSource(text, rung), k) <=> Says(text, k) # Unset
         /\ DecodeSource(text, rung).value[k] = Says(text, k)
         /\ DecodeSource(text, rung).origin[k] = IF Says(text, k) # Unset THEN rung ELSE Default
<1>1. CASE Decodes(text)
  BY <1>1 DEF DecodeSource, Set, Says
<1>2. CASE ~Decodes(text)
  BY <1>2 DEF DecodeSource, Set, NoConfig, Says
<1> QED BY <1>1, <1>2

\* The merge of the two files under the overrides is the nearest location's
\* answer, key by key, in its values and in its origins.
THEOREM NearestIsRead ==
  ASSUME NEW m, NEW u, NEW e
  PROVE  Load(m, u, e) = Nearest(m, u, e)
<1> DEFINE far    == IF m.trusted THEN DecodeSource(m.text, Machine) ELSE NoConfig
           near   == DecodeSource(u.text, User)
           merged == Merge(far, near)
           from(k) == NearestOrigin(m, u, e, k)
<1>1. ASSUME NEW k \in Keys
      PROVE  /\ merged.value[k] = IF Set(near, k) THEN near.value[k] ELSE far.value[k]
             /\ merged.origin[k] = IF Set(near, k) THEN near.origin[k] ELSE far.origin[k]
  BY DEF Merge
<1>2. ASSUME NEW k \in Keys
      PROVE  /\ (IF Overridden(e, k) THEN e[k] ELSE merged.value[k])
                  = ValueFrom(m, u, e, k, from(k))
             /\ (IF Overridden(e, k) THEN Environment ELSE merged.origin[k])
                  = from(k)
  <2>0. /\ Environment # User /\ Environment # Machine /\ Environment # Default
        /\ User # Machine /\ User # Default /\ Machine # Default
    BY DEF Environment, User, Machine, Default
  <2>1. /\ near.value[k] = Says(u.text, k)
        /\ Set(near, k) <=> Says(u.text, k) # Unset
        /\ Set(near, k) => near.origin[k] = User
    BY DecodedKey
  <2>2. IF m.trusted /\ Says(m.text, k) # Unset
          THEN far.value[k] = Says(m.text, k) /\ far.origin[k] = Machine
          ELSE far.value[k] = Unset /\ far.origin[k] = Default
    BY DecodedKey DEF NoConfig
  <2> HIDE DEF merged, far, near
  <2>3. CASE Overridden(e, k)
    BY <2>3, <2>0 DEF NearestOrigin, ValueFrom
  <2>4. CASE ~Overridden(e, k) /\ Set(near, k)
    BY <1>1, <2>4, <2>0, <2>1 DEF NearestOrigin, ValueFrom
  <2>5. CASE ~Overridden(e, k) /\ ~Set(near, k)
    BY <1>1, <2>5, <2>0, <2>1, <2>2 DEF NearestOrigin, ValueFrom
  <2> QED BY <2>3, <2>4, <2>5
<1>3. Load(m, u, e) = ApplyEnvironment(merged, e)
  BY DEF Load
<1> HIDE DEF merged, far, near, from
<1> QED BY <1>2, <1>3 DEF ApplyEnvironment, Nearest, from

\* The machine file as a service has it: over the bound it has none.
Served(m) == IF m.trusted /\ m.oversized THEN Missing ELSE m

\* The bound of the service is the only thing that tells the two Go readers
\* apart.
LEMMA GoReadersAgree ==
  ASSUME NEW m, NEW u, NEW e
  PROVE  LoadWithSources(m, u, e) = Load(Served(m), u, e)
<1>1. CASE m.trusted /\ m.oversized
  BY <1>1 DEF Load, LoadWithSources, ReadMachineSource, Served, Missing
<1>2. CASE ~(m.trusted /\ m.oversized)
  BY <1>2 DEF Load, LoadWithSources, ReadMachineSource, Served
<1> QED BY <1>1, <1>2

\* CFG-P1 in every state: whatever the files are edited to.
THEOREM NearestAlwaysWins == Spec => []NearestWins
<1>1. NearestWins
  BY NearestIsRead, GoReadersAgree DEF NearestWins, Answer, Served
<1> QED BY <1>1, PTL

-----------------------------------------------------------------------------
(* The two parsers.                                                        *)

\* A set of places in a text has an earliest and a latest.
LEMMA Ends ==
  ASSUME NEW n \in Nat, NEW I \in SUBSET (1 .. n), I # {}
  PROVE  /\ Earliest(I) \in I
         /\ Latest(I) \in I /\ \A j \in I : j <= Latest(I)
<1> DEFINE R == OpToRel(<, Nat)
<1>1. \A x, y \in Nat : <<y, x>> \in R <=> y < x
  BY DEF OpToRel
<1>2. IsWellFoundedOn(R, Nat)
  BY NatLessThanWellFounded
<1> HIDE DEF R
<1>3. ASSUME NEW T \in SUBSET Nat, T # {}
      PROVE  \E x \in T : \A y \in T : x <= y
  <2>1. PICK x \in T : \A y \in T : <<y, x>> \notin R
    BY <1>2, <1>3, WFMin
  <2>2. ASSUME NEW y \in T PROVE x <= y
    <3>1. x \in Nat /\ y \in Nat /\ <<y, x>> \notin R
      BY <2>1
    <3>2. ~(y < x)
      BY <1>1, <3>1
    <3> QED BY <3>1, <3>2
  <2> QED BY <2>2
<1>4. \E i \in I : \A j \in I : i <= j
  BY <1>3
<1>5. \E i \in I : \A j \in I : j <= i
  <2> DEFINE T == {n - i : i \in I}
  <2>1. T \in SUBSET Nat /\ T # {}
    <3>1. \A i \in 1 .. n : n - i \in Nat
      OBVIOUS
    <3> QED BY <3>1
  <2>2. PICK x \in T : \A y \in T : x <= y
    BY <1>3, <2>1
  <2>3. PICK i \in I : x = n - i
    BY <2>2
  <2>4. \A j \in I : n - i <= n - j
    BY <2>2, <2>3
  <2> QED BY <2>4
<1> QED BY <1>4, <1>5 DEF Earliest, Latest

\* Only one place is the latest.
LEMMA LatestIsOne ==
  ASSUME NEW I \in SUBSET Nat, NEW i \in I, \A j \in I : j <= i
  PROVE  Latest(I) = i
<1>1. \A j \in I : (\A l \in I : l <= j) => j = i
  OBVIOUS
<1> QED BY <1>1 DEF Latest

\* The places at which a text names a key.
LEMMA Places ==
  ASSUME NEW text \in FileTexts, NEW k
  PROVE  /\ Len(text.members) \in Nat
         /\ NamedBy(text, k) \in SUBSET (1 .. Len(text.members))
         /\ \A i \in NamedBy(text, k) : text.members[i].value \in Written(k)
<1>1. text.members \in Seq(Members)
  BY TextsAssumption DEF IsText
<1>2. \A i \in DOMAIN text.members : text.members[i] \in Members
  BY <1>1
<1>3. \A x \in Members : x.value \in Written(x.name)
  BY DEF Members
<1> QED BY <1>1, <1>2, <1>3 DEF NamedBy

\* What Go decodes is a value of its key, or nothing.
LEMMA SaysAValue ==
  ASSUME NEW text \in FileTexts \cup {NoFile}, NEW k \in Keys
  PROVE  Says(text, k) \in Values \cup {Unset}
<1> USE LocationsAssumption, JoinedAssumption
<1>1. CASE Decodes(text)
  <2> DEFINE says(i)  == IF text.members[i].value = Garbled THEN Mended ELSE text.members[i].value
             named    == NamedBy(text, k)
             assigned == {i \in named : says(i) # Null}
             kept     == {i \in assigned : \A j \in named : i < j => says(j) # Null}
  <2>1. /\ Len(text.members) \in Nat
        /\ named \in SUBSET (1 .. Len(text.members))
        /\ \A i \in named : text.members[i].value \in Written(k)
    BY <1>1, Places DEF Decodes
  <2>2. \A i \in named : text.members[i].value \notin {Mistyped, Loose}
    BY <1>1 DEF Decodes, NamedBy
  <2>3. \A i \in assigned : says(i) \in Values \cup {Unset}
    BY <2>1, <2>2 DEF Written
  <2>4. assigned # {} => Latest(assigned) \in assigned
    BY <2>1, Ends
  <2>5. kept # {} => Latest(kept) \in kept /\ Earliest(kept) \in kept
    BY <2>1, Ends
  <2>6. Says(text, k) =
          IF k \in TextKeys
            THEN IF assigned = {} THEN Unset ELSE says(Latest(assigned))
            ELSE IF kept = {} THEN Unset ELSE Joined(says(Earliest(kept)), says(Latest(kept)))
    BY <1>1 DEF Says, Unmarshalled
  <2> HIDE DEF says, named
  <2> QED BY <2>3, <2>4, <2>5, <2>6
<1>2. CASE ~Decodes(text)
  BY <1>2 DEF Says
<1> QED BY <1>1, <1>2

\* Of an unambiguous text the two parsers make the same of every key.
LEMMA ParsersAgree ==
  ASSUME NEW text \in FileTexts \cup {NoFile}, Unambiguous(text), NEW k \in Keys
  PROVE  /\ Loads(text) /\ Taken(Got(text, k)) <=> Says(text, k) # Unset
         /\ Says(text, k) # Unset => Got(text, k) = Says(text, k)
<1> USE LocationsAssumption, JoinedAssumption
<1>1. CASE text = NoFile \/ text.form = "syntax"
  BY <1>1 DEF Loads, Says, Decodes
<1>2. CASE text # NoFile /\ text.form = "json"
  <2> DEFINE value(i) == text.members[i].value
             says(i)  == IF value(i) = Garbled THEN Mended ELSE value(i)
             named    == NamedBy(text, k)
             assigned == {i \in named : says(i) # Null}
             kept     == {i \in assigned : \A j \in named : i < j => says(j) # Null}
             last     == Latest(named)
  <2>1. /\ Len(text.members) \in Nat
        /\ named \in SUBSET (1 .. Len(text.members)) /\ named \in SUBSET Nat
    <3>1. 1 .. Len(text.members) \subseteq Nat
      OBVIOUS
    <3> QED BY <1>2, <3>1, Places
  <2>2. /\ \A i \in DOMAIN text.members :
             text.members[i].exact /\ text.members[i].value \in Values \cup {Unset, Null}
        /\ \A i, j \in DOMAIN text.members :
             i < j /\ text.members[i].name = text.members[j].name
               => text.members[j].name \in TextKeys /\ text.members[j].value # Null
    BY <1>2 DEF Unambiguous
  <2>3. \A i \in named : i \in DOMAIN text.members /\ text.members[i].name = k
    BY DEF NamedBy
  <2>4. \A i \in named : value(i) \in Values \cup {Unset, Null} /\ says(i) = value(i)
    BY <2>2, <2>3
  <2>5. \A i, j \in named : i < j => k \in TextKeys /\ value(j) # Null
    BY <2>2, <2>3
  <2>6. Decodes(text) /\ Loads(text)
    BY <1>2, <2>2 DEF Decodes, Loads
  <2>7. Got(text, k) = IF named = {} THEN Null ELSE value(last)
    <3>1. {i \in named : text.members[i].exact} = named
      BY <2>2, <2>3
    <3> QED BY <3>1 DEF Got
  <2>8. Says(text, k) =
          IF k \in TextKeys
            THEN IF assigned = {} THEN Unset ELSE says(Latest(assigned))
            ELSE IF kept = {} THEN Unset ELSE Joined(says(Earliest(kept)), says(Latest(kept)))
    BY <2>6 DEF Says, Unmarshalled
  <2>9. named # {} => last \in named /\ \A j \in named : j <= last
    BY <2>1, Ends
  <2>a. Says(text, k) = IF named = {} \/ value(last) = Null THEN Unset ELSE value(last)
    <3> HIDE DEF named, last, value
    <3>0. ASSUME NEW i \in named PROVE i = last \/ i < last
      <4>1. i \in Nat /\ last \in Nat /\ i <= last
        BY <2>1, <2>9
      <4> QED BY <4>1
    <3>1. CASE named = {}
      BY <2>8, <3>1
    <3>2. CASE named # {} /\ value(last) = Null
      <4>1. \A i \in named : i = last
        BY <2>5, <2>9, <3>0, <3>2
      <4>2. assigned = {} /\ kept = {}
        BY <2>4, <3>2, <4>1
      <4> QED BY <2>8, <3>2, <4>2
    <3>3. CASE named # {} /\ value(last) # Null /\ k \in TextKeys
      <4>1. last \in assigned /\ assigned \in SUBSET Nat /\ \A j \in assigned : j <= last
        BY <2>1, <2>4, <2>9, <3>3
      <4>2. Latest(assigned) = last
        BY <4>1, LatestIsOne
      <4> QED BY <2>4, <2>8, <2>9, <3>3, <4>1, <4>2
    <3>4. CASE named # {} /\ value(last) # Null /\ k \notin TextKeys
      <4>1. named = {last}
        BY <2>5, <2>9, <3>0, <3>4
      <4>2. says(last) = value(last) /\ value(last) \in Values \cup {Unset}
        BY <2>4, <2>9, <3>4
      <4>3. kept = {last}
        <5>1. last \in Nat
          BY <2>1, <2>9, <3>4
        <5>2. ~(last < last)
          BY <5>1
        <5> QED BY <3>4, <4>1, <4>2, <5>2
      <4>4. Latest({last}) = last /\ Earliest({last}) = last
        <5>1. last \in Nat
          BY <2>1, <2>9, <3>4
        <5> QED BY <5>1 DEF Latest, Earliest
      <4> HIDE DEF kept, says, assigned
      <4> QED BY <2>8, <3>4, <4>2, <4>3, <4>4
    <3> QED BY <3>1, <3>2, <3>3, <3>4
  <2>b. named # {} => value(last) \in Values \cup {Unset, Null}
    BY <2>4, <2>9
  <2> HIDE DEF named, last, value
  <2> QED BY <2>6, <2>7, <2>a, <2>b DEF Taken
<1> QED BY <1>1, <1>2 DEF Unambiguous

\* A configuration is two functions over the keys.
IsConfig(c) ==
  /\ c = [value |-> c.value, origin |-> c.origin]
  /\ c.value = [k \in Keys |-> c.value[k]] /\ c.origin = [k \in Keys |-> c.origin[k]]

LEMMA DecodedIsConfig ==
  ASSUME NEW text, NEW rung
  PROVE  IsConfig(DecodeSource(text, rung))
BY DEF DecodeSource, NoConfig, IsConfig

\* Reading an unambiguous file over a configuration is merging what it decodes
\* to.
LEMMA ReadIntoMerges ==
  ASSUME NEW c, NEW text \in FileTexts \cup {NoFile}, Unambiguous(text), NEW rung
  PROVE  ReadInto(c, text, rung) = Merge(c, DecodeSource(text, rung))
<1> DEFINE d == DecodeSource(text, rung)
           taken(k) == Loads(text) /\ Taken(Got(text, k))
<1>1. ASSUME NEW k \in Keys
      PROVE  /\ taken(k) <=> Set(d, k)
             /\ taken(k) => d.value[k] = Got(text, k) /\ d.origin[k] = rung
  BY ParsersAgree, DecodedKey
<1>2. ReadInto(c, text, rung) =
        [value  |-> [k \in Keys |-> IF taken(k) THEN Got(text, k) ELSE c.value[k]],
         origin |-> [k \in Keys |-> IF taken(k) THEN rung ELSE c.origin[k]]]
  BY DEF ReadInto
<1> HIDE DEF d, taken
<1>3. \A k \in Keys :
        /\ (IF taken(k) THEN Got(text, k) ELSE c.value[k]) = (IF Set(d, k) THEN d.value[k] ELSE c.value[k])
        /\ (IF taken(k) THEN rung ELSE c.origin[k]) = (IF Set(d, k) THEN d.origin[k] ELSE c.origin[k])
  BY <1>1
<1>4. ReadInto(c, text, rung) = Merge(c, d)
  BY <1>2, <1>3 DEF Merge
<1> QED BY <1>4 DEF d

\* A file put over nothing is what it decodes to.
LEMMA OverNothing ==
  ASSUME NEW text, NEW rung
  PROVE  Merge(NoConfig, DecodeSource(text, rung)) = DecodeSource(text, rung)
<1> DEFINE d == DecodeSource(text, rung)
<1>1. IsConfig(d)
  BY DecodedIsConfig
<1>2. \A k \in Keys : ~Set(d, k) => d.value[k] = Unset /\ d.origin[k] = Default
  BY DecodedKey
<1> HIDE DEF d
<1>3. \A k \in Keys :
        /\ (IF Set(d, k) THEN d.value[k] ELSE NoConfig.value[k]) = d.value[k]
        /\ (IF Set(d, k) THEN d.origin[k] ELSE NoConfig.origin[k]) = d.origin[k]
  BY <1>2 DEF NoConfig
<1>4. Merge(NoConfig, d) = d
  BY <1>1, <1>3 DEF Merge, IsConfig
<1> QED BY <1>4 DEF d

\* What the edits put into a file is one of the texts, or the file goes.
LEMMA FilesHoldTexts ==
  Spec => [](machine.text \in FileTexts \cup {NoFile} /\ user.text \in FileTexts \cup {NoFile})
<1>1. ASSUME NEW f, NEW O, f \in {Missing} \cup [text : FileTexts, trusted : O, oversized : BOOLEAN]
      PROVE  f.text \in FileTexts \cup {NoFile}
  BY <1>1 DEF Missing
<1>2. \A f : f \in MachineFiles \/ f \in UserFiles => f.text \in FileTexts \cup {NoFile}
  BY <1>1 DEF MachineFiles, UserFiles
<1>3. Init => machine \in MachineFiles /\ user \in UserFiles
  BY DEF Init
<1>4. machine \in MachineFiles /\ user \in UserFiles /\ [Next]_vars
        => (machine \in MachineFiles /\ user \in UserFiles)'
  BY DEF Next, EditUser, EditMachine, vars
<1>5. machine \in MachineFiles /\ user \in UserFiles
        => machine.text \in FileTexts \cup {NoFile} /\ user.text \in FileTexts \cup {NoFile}
  BY <1>2
<1> QED BY <1>3, <1>4, <1>5, PTL DEF Spec

\* The Go and the Python reader, each with its own parser, give one answer for
\* every schema and every pair of unambiguous files.
THEOREM LanguagesAlwaysAgree == Spec => []LanguagesAgree
<1>1. ASSUME machine.text \in FileTexts \cup {NoFile}, user.text \in FileTexts \cup {NoFile},
             Unambiguous(machine.text), Unambiguous(user.text)
      PROVE  Load(machine, user, env) = PythonLoad(machine, user, env)
  <2> DEFINE far == IF machine.trusted THEN DecodeSource(machine.text, Machine) ELSE NoConfig
             pyFar == IF machine.trusted THEN ReadInto(NoConfig, machine.text, Machine) ELSE NoConfig
  <2>1. ~TooDeep(machine.text) /\ ~TooDeep(user.text)
    BY <1>1 DEF TooDeep, Unambiguous
  <2>2. pyFar = far
    BY <1>1, ReadIntoMerges, OverNothing
  <2>3. ReadInto(pyFar, user.text, User) = Merge(far, DecodeSource(user.text, User))
    BY <1>1, <2>2, ReadIntoMerges
  <2> HIDE DEF far, pyFar
  <2> QED BY <2>1, <2>3 DEF Load, PythonLoad, far, pyFar
<1>2. machine.text \in FileTexts \cup {NoFile} /\ user.text \in FileTexts \cup {NoFile} => LanguagesAgree
  BY <1>1 DEF LanguagesAgree
<1> QED BY <1>2, FilesHoldTexts, PTL

\* An override, and a value of the user's, hide every edit behind them.
THEOREM NearerAlwaysHides == Spec => NearerHides
<1>1. ASSUME [Next]_vars, NEW k \in Keys,
             Overridden(env, k) \/ (user' = user /\ Answer.origin[k] = User)
      PROVE  Answer'.value[k] = Answer.value[k] /\ Answer'.origin[k] = Answer.origin[k]
  <2>0. env' = env
    BY <1>1 DEF Next, EditUser, EditMachine, vars
  <2> DEFINE m == Served(machine)
             n == Served(machine')
  <2>1. /\ Answer.value[k] = ValueFrom(m, user, env, k, NearestOrigin(m, user, env, k))
        /\ Answer.origin[k] = NearestOrigin(m, user, env, k)
    BY NearestIsRead, GoReadersAgree DEF Answer, Nearest
  <2>2. /\ Answer'.value[k] = ValueFrom(n, user', env', k, NearestOrigin(n, user', env', k))
        /\ Answer'.origin[k] = NearestOrigin(n, user', env', k)
    BY NearestIsRead, GoReadersAgree DEF Answer, Nearest
  <2> HIDE DEF m, n
  <2>3. /\ Environment # User /\ Environment # Machine /\ Environment # Default
        /\ User # Machine /\ User # Default /\ Machine # Default
    BY DEF Environment, User, Machine, Default
  <2>4. CASE Overridden(env, k)
    BY <2>0, <2>1, <2>2, <2>3, <2>4 DEF NearestOrigin, ValueFrom
  <2>5. CASE ~Overridden(env, k) /\ user' = user /\ Answer.origin[k] = User
    BY <2>0, <2>1, <2>2, <2>3, <2>5 DEF NearestOrigin, ValueFrom
  <2> QED BY <1>1, <2>4, <2>5
<1>2. [Next]_vars => [\A k \in Keys :
        \/ Overridden(env, k)
        \/ user' = user /\ Answer.origin[k] = User
        => /\ Answer'.value[k] = Answer.value[k]
           /\ Answer'.origin[k] = Answer.origin[k]]_vars
  BY <1>1
<1> QED BY <1>2, PTL DEF Spec, NearerHides
=============================================================================
